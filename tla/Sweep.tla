------------------------------- MODULE Sweep --------------------------------
(***************************************************************************)
(* tools/sweep.py: every configuration of prompt, microbatch, threads and  *)
(* NPU share, run in interleaved rounds; and what tools/analyze_sweep.py   *)
(* compares afterwards, in whatever part of the file was written.          *)
(***************************************************************************)
EXTENDS Campaign

CONSTANTS
    Prompts, Threads, Reps,   \* the options
    Microbatches,             \* the values of -ub it tries (512, 1024, 2048, 4096)
    TILE,                     \* kMTile in the runtime
    cpu                       \* the share of a run with BITNET_XDNA=0

\* Of a set of numbers that has one.
Largest(a, b) == IF a < b THEN b ELSE a
Smallest(a, b) == IF a < b THEN a ELSE b

-----------------------------------------------------------------------------
(* The configurations *)

LeastMicrobatch == CHOOSE u \in Microbatches : \A v \in Microbatches : u <= v

ubs(prompt) == {u \in Microbatches : u <= Largest(prompt, LeastMicrobatch)}

sharesRoundedUp(prompt, ub) ==   \* mutation
    {cpu} \cup 0 .. ((Smallest(ub, prompt) + TILE - 1) \div TILE)

\* Tiles for the NPU, up to what fits a microbatch.
shares(prompt, ub) == {cpu} \cup 0 .. (Smallest(ub, prompt) \div TILE)

\* uniq: a configuration is run once per round however often the options name it.
uniq == UNION {[prompt : {x[1]}, ub : {x[2]}, threads : Threads, tiles : shares(x[1], x[2])] :
                   x \in {y \in Prompts \X Microbatches : y[2] \in ubs(y[1])}}

planInBlocks ==   \* mutation
    LET order == ListOf(uniq)
    IN  [x \in 1 .. Reps * Len(order) |->
            [rep |-> (x - 1) % Reps, config |-> order[((x - 1) \div Reps) + 1]]]

\* One run of each configuration per round.
Rounds ==
    LET order == ListOf(uniq)
    IN  [x \in 1 .. Reps * Len(order) |->
            [rep |-> (x - 1) \div Len(order), config |-> order[((x - 1) % Len(order)) + 1]]]

-----------------------------------------------------------------------------
Init == plan = Rounds /\ CampaignInit

TimeoutUncaught ==   \* mutation
    run \in {"busy", "hung"} /\ Close

\* run_one gives up after 900 s: as if the run had given nothing.
Timeout ==
    /\ Going /\ run \in {"busy", "hung"}
    /\ run' = "none"
    /\ failed' = failed \cup {next}
    /\ UNCHANGED <<plan, next, buffer, file, outcome>>

Done == Going /\ run = "none" /\ next = Len(plan) /\ Close

Steps == Start \/ GiveRow \/ Flush \/ GiveNone \/ Timeout \/ Done

\* A KeyboardInterrupt, at any time; or worse.
Interrupt == Abort \/ Die \/ GoDown

Next == Steps \/ Interrupt

\* A run ends, by itself or by the timeout, and the program goes on.
Spec == Init /\ [][Next]_campaignVars /\ WF_campaignVars(Steps)

-----------------------------------------------------------------------------
(* analyze_sweep.py, on the rows that are in the file *)

\* g: the rounds of which a configuration has a row, over which its median is taken.
RoundsOf(config) ==
    {file[x].rep : x \in {y \in DOMAIN file : file[y].config = config}}

\* The pairs whose medians are compared: an NPU share and the CPU-only reference of
\* the same prompt, microbatch and threads, if there are rows of both.
Compared ==
    {pair \in uniq \X uniq :
        /\ pair[1].tiles # cpu
        /\ pair[2] = [pair[1] EXCEPT !.tiles = cpu]
        /\ RoundsOf(pair[1]) # {} /\ RoundsOf(pair[2]) # {}}

-----------------------------------------------------------------------------
(* Properties *)

\* "run INTERLEAVED, one rep of each per round, not in blocks", so that drift of the
\* host does not look like a gain: whenever the file is looked at, a share and its
\* CPU-only reference have rows of the same rounds, but for the round that was going on
\* (after the machine went down, the last one the file has rows of) and those in which
\* one of the two failed; and the runs of a round of one of them come before the next
\* round of the other.
Unfinished(rep) ==
    \/ given < Len(plan) /\ plan[given + 1].rep <= rep
    \/ outcome = "down" /\ \A x \in DOMAIN file : file[x].rep <= rep

ComparedOverSameRounds ==
    \A pair \in Compared :
        /\ \A rep \in 0 .. Reps - 1 :
               (rep \in RoundsOf(pair[1])) # (rep \in RoundsOf(pair[2])) =>
                   \/ Unfinished(rep)
                   \/ \E x \in failed : plan[x].rep = rep /\ plan[x].config \in {pair[1], pair[2]}
        /\ \A x, y \in DOMAIN file :
               {file[x].config, file[y].config} = {pair[1], pair[2]} =>
                   (file[x].rep < file[y].rep => x < y)

=============================================================================
