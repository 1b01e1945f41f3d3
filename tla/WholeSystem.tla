---------------------------- MODULE WholeSystem -----------------------------
(***************************************************************************)
(* tools/whole_system.py: the controller is measured in blocks, one per    *)
(* round and level of background load, and each block runs between the     *)
(* __enter__ and the __exit__ of a CpuLoad.  The tenants are processes of  *)
(* their own session: what does not kill them leaves them running, until   *)
(* their own loop is over.                                                 *)
(***************************************************************************)
EXTENDS Campaign

CONSTANTS
    Prompt, Microbatch, Threads, Levels, Reps,   \* the options; Levels is --bg
    Tile,                                        \* 1024
    CpuOnly,                                     \* tiles=None
    Life,                                        \* of a tenant (3600 s)
    Durations                                    \* of a run

VARIABLES
    phase,      \* "between" blocks, in "enter", "body" or "exit"
    block,      \* the blocks entered
    procs,      \* self.procs: the tenants spawned by this block
    tenants,    \* the tenants that are alive, of any block
    elapsed,    \* how long the runs of this block have taken
    loads       \* per row, what it was measured under

loadVars == <<phase, block, procs, tenants, elapsed, loads>>
vars == <<campaignVars, loadVars>>

-----------------------------------------------------------------------------
(* The runs *)

Lesser(a, b) == IF a < b THEN a ELSE b

configs == Threads \X ({CpuOnly} \cup 1 .. (Lesser(Microbatch, Prompt) \div Tile))

Blocks == Reps * Len(Levels)
Level(b) == Levels[((b - 1) % Len(Levels)) + 1]

\* The block a run belongs to, and the runs in their order.
BlockOf(x) == ((x - 1) \div Cardinality(configs)) + 1

Runs ==
    LET order == ListOf(configs)
    IN  [x \in 1 .. Blocks * Len(order) |->
            [rep |-> (BlockOf(x) - 1) \div Len(Levels), bg |-> Level(BlockOf(x)),
             config |-> order[((x - 1) % Len(order)) + 1]]]

BlockDone == next = block * Cardinality(configs)

-----------------------------------------------------------------------------
Init == /\ plan = Runs /\ CampaignInit
        /\ phase = "between" /\ block = 0
        /\ procs = {} /\ tenants = {} /\ elapsed = 0 /\ loads = <<>>

\* with CpuLoad(bg): ...
Enter ==
    /\ Going /\ phase = "between" /\ block < Blocks
    /\ phase' = "enter" /\ block' = block + 1
    /\ procs' = {} /\ elapsed' = 0
    /\ UNCHANGED <<campaignVars, tenants, loads>>

\* Popen of the next tenant.
Spawn ==
    /\ Going /\ phase = "enter" /\ Cardinality(procs) < Level(block)
    /\ LET tenant == <<block, Cardinality(procs) + 1>>
       IN  procs' = procs \cup {tenant} /\ tenants' = tenants \cup {tenant}
    /\ UNCHANGED <<campaignVars, phase, block, elapsed, loads>>

EnteredAtOnce ==   \* mutation
    /\ Going /\ phase = "enter"
    /\ phase' = "body"
    /\ UNCHANGED <<campaignVars, block, procs, tenants, elapsed, loads>>

\* They are given time to get going.
Entered ==
    /\ Going /\ phase = "enter" /\ Cardinality(procs) = Level(block)
    /\ phase' = "body"
    /\ UNCHANGED <<campaignVars, block, procs, tenants, elapsed, loads>>

\* The next run of the block.
Measure == phase = "body" /\ ~BlockDone /\ Start /\ UNCHANGED loadVars

\* The tenants that are still in their loop after so much time in the block.
AliveAfter(time) == IF time < Life THEN tenants ELSE {}

\* controller() returns, with a row or without one, d after it was called.
Return ==
    \E d \in Durations :
        LET time == elapsed + d
        IN  /\ phase = "body"
            /\ elapsed' = time
            /\ tenants' = AliveAfter(time)
            /\ \/ /\ GiveRow
                  /\ loads' = Append(loads, [block |-> block, elapsed |-> time,
                                            tenants |-> AliveAfter(time)])
               \/ GiveNone /\ UNCHANGED loads
            /\ UNCHANGED <<phase, block, procs>>

Written == phase = "body" /\ Flush /\ UNCHANGED loadVars

\* The block is over.
Leave ==
    /\ Going /\ phase = "body" /\ run = "none" /\ BlockDone
    /\ phase' = "exit"
    /\ UNCHANGED <<campaignVars, block, procs, tenants, elapsed, loads>>

RaiseUnguarded ==   \* mutation
    /\ Going /\ phase = "body"
    /\ outcome' = "raising" /\ phase' = "between"
    /\ UNCHANGED <<plan, next, run, failed, buffer, file, block, procs, tenants, elapsed, loads>>

\* An exception in the body, which nobody catches: the program goes through __exit__
\* with it.
Raise ==
    /\ Going /\ phase = "body"
    /\ outcome' = "raising" /\ phase' = "exit"
    /\ UNCHANGED <<plan, next, run, failed, buffer, file, block, procs, tenants, elapsed, loads>>

\* controller() gives up after 1800 s with TimeoutExpired.
Timeout == run \in {"busy", "hung"} /\ Raise

\* __exit__: the tenants are killed one after the other; one that is gone already
\* does not matter.
Kill ==
    /\ ~Ended /\ phase = "exit"
    /\ \E p \in procs : procs' = procs \ {p} /\ tenants' = tenants \ {p}
    /\ UNCHANGED <<campaignVars, phase, block, elapsed, loads>>

Exited ==
    /\ ~Ended /\ phase = "exit" /\ procs = {}
    /\ phase' = "between"
    /\ UNCHANGED <<campaignVars, block, procs, tenants, elapsed, loads>>

\* After the last block, or with an exception.
Done ==
    /\ phase = "between" /\ (outcome = "raising" \/ block = Blocks)
    /\ Close
    /\ UNCHANGED loadVars

\* The loop of a tenant that nobody killed is over.
Expire ==
    /\ Ended /\ tenants # {}
    /\ tenants' = {}
    /\ UNCHANGED <<campaignVars, phase, block, procs, elapsed, loads>>

Steps == \/ Enter \/ Spawn \/ Entered \/ Measure \/ Return \/ Written \/ Leave
         \/ Timeout \/ Kill \/ Exited \/ Done \/ Expire

\* A KeyboardInterrupt: in the body it is an exception like others.  An exception in
\* __enter__ (Popen may fail, too) or in __exit__ skips what is left of the kills.
Interrupt ==
    \/ Raise
    \/ phase # "body" /\ Abort /\ UNCHANGED loadVars
    \/ Die /\ UNCHANGED loadVars
    \/ GoDown /\ tenants' = {} /\ UNCHANGED <<phase, block, procs, elapsed, loads>>

-----------------------------------------------------------------------------
(* Properties *)

\* "controller latency under realistic contention": a row was measured under the
\* tenants it says, all of them and no others, unless its block has taken longer than
\* they live.
RowsUnderLoad ==
    \A x \in DOMAIN loads :
        loads[x].elapsed < Life =>
            loads[x].tenants = {loads[x].block} \X (1 .. buffer[x].bg)

\* The tenants are alive in their block only.  They outlive it, and the program, only
\* if it was killed or interrupted while it started or killed them.
TenantsKilled == phase = "between" /\ outcome # "dead" => tenants = {}

=============================================================================
