------------------------------ MODULE Campaign ------------------------------
(***************************************************************************)
(* What the measurement programs tools/sweep.py and tools/whole_system.py  *)
(* share: a list of runs of llama-bench, made one after the other, each of *)
(* which yields a row, yields none, or hangs until its timeout; and a CSV  *)
(* file to which a row is written, and flushed, as soon as it is there.    *)
(* Sweep and WholeSystem say which runs, and what surrounds them.          *)
(*                                                                         *)
(* Measurements themselves are not modelled, only which run a row is of.   *)
(* The file is what the kernel has of it, and shows to every reader.  The  *)
(* programs flush their own buffer and never fsync, so that the kernel may *)
(* not have written it to the disk when the machine goes down.             *)
(***************************************************************************)
EXTENDS Integers, Sequences, FiniteSets

VARIABLES
    plan,      \* the runs to make, in order
    next,      \* how many of them have been started
    run,       \* "none", "busy", "hung", or "row" when it has given one
    failed,    \* the runs that gave no row
    buffer,    \* the rows written ...
    file,      \* ... and those of them that have been flushed to the file
    outcome    \* "going", "raising" an exception, "closed", "interrupted", "dead" or
               \* "down"

campaignVars == <<plan, next, run, failed, buffer, file, outcome>>

CampaignInit == /\ next = 0 /\ run = "none" /\ failed = {}
                /\ buffer = <<>> /\ file = <<>> /\ outcome = "going"

\* A list of configurations, each once, in some order.
ListOf(configurations) ==
    CHOOSE list \in [1 .. Cardinality(configurations) -> configurations] :
        \A c \in configurations : \E x \in DOMAIN list : list[x] = c

Going == outcome = "going"

\* subprocess.run of llama-bench; it may hang.
Start ==
    /\ Going /\ run = "none" /\ next < Len(plan)
    /\ next' = next + 1
    /\ run' \in {"busy", "hung"}
    /\ UNCHANGED <<plan, failed, buffer, file, outcome>>

\* It prints the throughput of the prompt, and the row is written.
GiveRow ==
    /\ Going /\ run = "busy"
    /\ run' = "row"
    /\ buffer' = Append(buffer, plan[next])
    /\ UNCHANGED <<plan, next, failed, file, outcome>>

FlushNothing ==   \* mutation
    /\ Going /\ run = "row"
    /\ run' = "none"
    /\ UNCHANGED <<plan, next, failed, buffer, file, outcome>>

\* fh.flush().
Flush ==
    /\ Going /\ run = "row"
    /\ run' = "none"
    /\ file' = buffer
    /\ UNCHANGED <<plan, next, failed, buffer, outcome>>

\* The throughput is not in its output: no row, on to the next run.
GiveNone ==
    /\ Going /\ run = "busy"
    /\ run' = "none"
    /\ failed' = failed \cup {next}
    /\ UNCHANGED <<plan, next, buffer, file, outcome>>

\* The program leaves the "with open(...)", which ends the run, too: closing the file
\* flushes it.
CloseAs(how) ==
    /\ outcome \in {"going", "raising"}
    /\ outcome' = how
    /\ run' = "none"
    /\ failed' = IF run \in {"busy", "hung"} THEN failed \cup {next} ELSE failed
    /\ file' = buffer
    /\ UNCHANGED <<plan, next, buffer>>

\* By itself, or because of a KeyboardInterrupt.
Close == CloseAs("closed")
Abort == CloseAs("interrupted")

\* The process is killed: what is only in its buffer is lost.
Die ==
    /\ outcome \in {"going", "raising"}
    /\ outcome' = "dead"
    /\ UNCHANGED <<plan, next, run, failed, buffer, file>>

\* The machine goes down, at any time, and leaves so much of the file as the kernel had
\* written to the disk, which it does in its own time and from the front to the back.
GoDown ==
    /\ outcome # "down"
    /\ outcome' = "down"
    /\ \E n \in 0 .. Len(file) : file' = SubSeq(file, 1, n)
    /\ UNCHANGED <<plan, next, run, failed, buffer>>

Ended == outcome \in {"closed", "interrupted", "dead", "down"}

-----------------------------------------------------------------------------
\* The runs that have ended.
given == next - (IF run = "none" THEN 0 ELSE 1)

\* "so the raw data outlives any conclusion": however the program ends, killed or
\* interrupted too, the file has a row for every run that gave one, but for the run that
\* has just ended.  If the machine goes down it has those of the first runs, how many is
\* not for the program to say, and none missing between them.
RowsSurvive ==
    LET rows == {file[x] : x \in DOMAIN file}
        rowsOf(runs) == {plan[x] : x \in runs \ failed}
    IN  IF outcome = "down" THEN \E n \in 0 .. next : rows = rowsOf(1 .. n)
                            ELSE rows = rowsOf(1 .. given)

=============================================================================
