------------------------------- MODULE Bench --------------------------------
(***************************************************************************)
(* The two measurement programs, one of which is run, and what the labels  *)
(* of their rows mean to the runtime (TokenSplit).                         *)
(***************************************************************************)
EXTENDS Campaign

CONSTANTS
    Threads, Reps,          \* options of both programs
    Prompts, Microbatches,  \* of sweep.py
    Prompt, Microbatch,     \* of whole_system.py
    Levels,
    Tile,                   \* kMTile in the runtime
    cpu,                    \* the share of a run with BITNET_XDNA=0
    Life, Durations         \* of a tenant, and of a run

ASSUME OptionsAssumption ==
    /\ IsFiniteSet(Threads) /\ Threads # {} /\ Reps \in Nat /\ Tile \in Nat \ {0}
    /\ IsFiniteSet(Prompts) /\ Prompts \subseteq Nat \ {0}
    /\ IsFiniteSet(Microbatches) /\ Microbatches \subseteq Nat \ {0}
    /\ Prompt \in Nat /\ Microbatch \in Nat
    /\ Levels \in Seq(Nat) /\ Levels # <<>>
    /\ Life \in Nat /\ Durations \subseteq Nat

VARIABLES phase, block, procs, tenants, elapsed, loads, program

loadVars == <<phase, block, procs, tenants, elapsed, loads>>
vars == <<campaignVars, loadVars, program>>

S == INSTANCE Sweep WITH TILE <- Tile

W == INSTANCE WholeSystem WITH CpuOnly <- cpu

T == INSTANCE TokenSplit WITH kMTile <- Tile, kKChunk <- 1, kNChunk <- 1, ServedDims <- {},
                              kAlign <- 1, kCols <- 1

Init ==
    \/ /\ program = "sweep" /\ S!Init
       /\ phase = "none" /\ block = 0 /\ procs = {} /\ tenants = {} /\ elapsed = 0
       /\ loads = <<>>
    \/ program = "whole_system" /\ W!Init

Steps ==
    \/ program = "sweep" /\ S!Steps /\ UNCHANGED loadVars
    \/ program = "whole_system" /\ W!Steps

Interrupt ==
    \/ program = "sweep" /\ S!Interrupt /\ UNCHANGED loadVars
    \/ program = "whole_system" /\ W!Interrupt

Next == (Steps \/ Interrupt) /\ UNCHANGED program

\* run_one and controller return: llama-bench does, or the timeout expires.
Spec == Init /\ [][Next]_vars /\ WF_vars(Steps /\ UNCHANGED program)

-----------------------------------------------------------------------------
\* See Sweep.
ComparedOverSameRounds == program = "sweep" => S!ComparedOverSameRounds

\* See WholeSystem.
RowsUnderLoad == program = "whole_system" => W!RowsUnderLoad

\* See WholeSystem.
TenantsKilled == program = "whole_system" => W!TenantsKilled

\* "tiles" in a row of the sweep is what the NPU computes of each full microbatch:
\* token_split gives it that many tiles, all of them full.
LabelsAreShares ==
    program = "sweep" =>
        \A x \in DOMAIN buffer :
            LET c == buffer[x].config
            IN  c.tiles # cpu =>
                    T!Split(S!Smallest(c.ub, c.prompt), [tiles |-> c.tiles]) = c.tiles * Tile

\* A llama-bench that hangs does not stop the campaign, and no tenant runs for ever; and
\* it costs the sweep no other run: one that ends by itself has made them all.
CampaignEnds ==
    <>[](/\ Ended /\ tenants = {}
         /\ program = "sweep" /\ outcome = "closed" => given = Len(plan))

=============================================================================
