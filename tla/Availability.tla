---------------------------- MODULE Availability ----------------------------
(***************************************************************************)
(* bitnet_xdna_available (runtime/bitnet_xdna.cpp): all threads of the pool *)
(* call it for every I2_S mul_mat; the first to get g_mu reads the          *)
(* environment, probes the device and publishes the answer in a lock-free   *)
(* mirror; the others answer from the mirror.  A thread that gets 1 then    *)
(* reads the configuration without the lock (worth_it and token_split) and  *)
(* decides how much of its node the NPU takes.                              *)
(*                                                                         *)
(* The store to the mirror is a release and the load an acquire, so a       *)
(* thread that reads the answer also reads what was written before it: the  *)
(* interleavings of the steps below are all there is.                       *)
(***************************************************************************)
EXTENDS TokenSplit, FiniteSets

CONSTANTS
    Threads,       \* of the pool
    Batch,         \* ne11 of the node they all work on
    Environments,  \* the environments the process may be started in: records of
                   \*   enabled   BITNET_XDNA is set, not empty and not "0"
                   \*   tiles     BITNET_XDNA_TILES, or Unset
                   \*   split     BITNET_XDNA_SPLIT, <<num, den>> or Unset
                   \*   minTokens BITNET_XDNA_MIN_TOKENS, or Unset
                   \*   device    "present", "absent" or "throws"
    Unset          \* the value of a variable that is not set

ASSUME BatchAssumption == Batch \in Nat

\* atoi, atol and strtod make numbers of what the variables are set to.
ASSUME EnvironmentsAssumption ==
    \A e \in Environments :
        /\ e.tiles # Unset => e.tiles \in Int
        /\ e.split # Unset => e.split \in Int \X (Nat \ {0})
        /\ e.minTokens # Unset => e.minTokens \in Int

VARIABLES
    env,          \* the environment (constant)
    pc,           \* where each thread is
    gState,       \* g_state
    gStateFast,   \* g_state_fast, the mirror
    gMinTokens,   \* g_min_tokens
    gTiles,       \* g_force_tiles
    gFrac,        \* g_split_frac, <<num, den>>
    mu,           \* g_mu: its holder, or NoThread
    probes,       \* how often the device was probed (history)
    answer,       \* what each thread was told last, -1 before
    decision      \* the tokens each thread gives to the NPU, or Undecided

config == <<gMinTokens, gTiles, gFrac>>
vars == <<env, pc, gState, gStateFast, config, mu, probes, answer, decision>>

NoThread == "no thread"

ASSUME ThreadsAssumption == NoThread \notin Threads

Undecided == -1

Locations == {"idle", "lock", "locked", "tiles", "split", "minTokens", "clamp",
              "probe", "publish", "decide"}

TypeOK ==
    /\ env \in Environments
    /\ pc \in [Threads -> Locations]
    /\ gState \in {-1, 0, 1} /\ gStateFast \in {-1, 0, 1}
    /\ gMinTokens \in Nat /\ gTiles \in Int
    /\ gFrac \in Nat \X (Nat \ {0}) /\ gFrac[1] <= gFrac[2]
    /\ mu \in Threads \cup {NoThread}
    /\ probes \in Nat
    /\ answer \in [Threads -> {-1, 0, 1}]
    /\ \A t \in Threads : decision[t] = Undecided \/ decision[t] \in 0 .. Batch

Init ==
    /\ env \in Environments
    /\ pc = [t \in Threads |-> "idle"]
    /\ gState = -1 /\ gStateFast = -1
    /\ gMinTokens = kMTile /\ gTiles = -1 /\ gFrac = <<1, 2>>
    /\ mu = NoThread
    /\ probes = 0
    /\ answer = [t \in Threads |-> -1]
    /\ decision = [t \in Threads |-> Undecided]

Goto(t, loc) == pc' = [pc EXCEPT ![t] = loc]

-----------------------------------------------------------------------------
(* bitnet_xdna_available *)

\* It returns a: the thread decides its node if the answer is 1, and leaves it to
\* the CPU if it is 0.
Answer(t, a) ==
    /\ answer' = [answer EXCEPT ![t] = a]
    /\ IF a = 1 THEN Goto(t, "decide") /\ UNCHANGED decision
                ELSE Goto(t, "idle") /\ decision' = [decision EXCEPT ![t] = 0]

\* The mirror is known: no lock.  (A thread may call again: another node.)
Fast(t) ==
    /\ pc[t] = "idle"
    /\ gStateFast >= 0
    /\ Answer(t, gStateFast)
    /\ UNCHANGED <<env, gState, gStateFast, config, mu, probes>>

Slow(t) ==
    /\ pc[t] = "idle"
    /\ gStateFast < 0
    /\ Goto(t, "lock")
    /\ UNCHANGED <<env, gState, gStateFast, config, mu, probes, answer, decision>>

Lock(t) ==
    /\ pc[t] = "lock"
    /\ mu = NoThread
    /\ mu' = t
    /\ Goto(t, "locked")
    /\ UNCHANGED <<env, gState, gStateFast, config, probes, answer, decision>>

\* With the lock: another thread was first.
AlreadyKnown(t) ==
    /\ pc[t] = "locked"
    /\ gState >= 0
    /\ gStateFast' = gState
    /\ mu' = NoThread
    /\ Answer(t, gState)
    /\ UNCHANGED <<env, gState, config, probes>>

\* The first thread: off until proven on.
Disabled(t) ==
    /\ pc[t] = "locked"
    /\ gState < 0
    /\ ~env.enabled
    /\ gState' = 0
    /\ gStateFast' = 0
    /\ mu' = NoThread
    /\ Answer(t, 0)
    /\ UNCHANGED <<env, config, probes>>

EnabledRecheckless(t) ==   \* mutation
    /\ pc[t] = "locked"
    /\ env.enabled
    /\ gState' = 0
    /\ Goto(t, "tiles")
    /\ UNCHANGED <<env, gStateFast, config, mu, probes, answer, decision>>

EnabledEarly(t) ==   \* mutation
    /\ pc[t] = "locked"
    /\ gState < 0
    /\ env.enabled
    /\ gState' = 0
    /\ gStateFast' = 1
    /\ Goto(t, "tiles")
    /\ UNCHANGED <<env, config, mu, probes, answer, decision>>

Enabled(t) ==
    /\ pc[t] = "locked"
    /\ gState < 0
    /\ env.enabled
    /\ gState' = 0
    /\ Goto(t, "tiles")
    /\ UNCHANGED <<env, gStateFast, config, mu, probes, answer, decision>>

ReadTiles(t) ==
    /\ pc[t] = "tiles"
    /\ gTiles' = IF env.tiles = Unset THEN gTiles ELSE env.tiles
    /\ Goto(t, "split")
    /\ UNCHANGED <<env, gState, gStateFast, gMinTokens, gFrac, mu, probes, answer, decision>>

\* A fraction outside [0, 1] is ignored.
InRange(f) == 0 <= f[1] /\ f[1] <= f[2]
ReadSplitUnchecked(t) ==   \* mutation
    /\ pc[t] = "split"
    /\ gFrac' = IF env.split = Unset THEN gFrac ELSE env.split
    /\ Goto(t, "minTokens")
    /\ UNCHANGED <<env, gState, gStateFast, gMinTokens, gTiles, mu, probes, answer, decision>>

ReadSplit(t) ==
    /\ pc[t] = "split"
    /\ gFrac' = IF env.split # Unset /\ InRange(env.split) THEN env.split ELSE gFrac
    /\ Goto(t, "minTokens")
    /\ UNCHANGED <<env, gState, gStateFast, gMinTokens, gTiles, mu, probes, answer, decision>>

ReadMinTokens(t) ==
    /\ pc[t] = "minTokens"
    /\ gMinTokens' = IF env.minTokens # Unset /\ env.minTokens > 0 THEN env.minTokens
                                                                  ELSE gMinTokens
    /\ Goto(t, "clamp")
    /\ UNCHANGED <<env, gState, gStateFast, gTiles, gFrac, mu, probes, answer, decision>>

Clamp(t) ==
    /\ pc[t] = "clamp"
    /\ gMinTokens' = IF gMinTokens < kMTile THEN kMTile ELSE gMinTokens
    /\ Goto(t, "probe")
    /\ UNCHANGED <<env, gState, gStateFast, gTiles, gFrac, mu, probes, answer, decision>>

\* Opening the device fails, or throws something else: unavailable either way.
Probe(t) ==
    /\ pc[t] = "probe"
    /\ probes' = probes + 1
    /\ gState' = IF env.device = "present" THEN 1 ELSE 0
    /\ Goto(t, "publish")
    /\ UNCHANGED <<env, gStateFast, config, mu, answer, decision>>

PublishLocked(t) ==   \* mutation
    /\ pc[t] = "publish"
    /\ gStateFast' = gState
    /\ Answer(t, gState)
    /\ UNCHANGED <<env, gState, config, mu, probes>>

Publish(t) ==
    /\ pc[t] = "publish"
    /\ gStateFast' = gState
    /\ mu' = NoThread
    /\ Answer(t, gState)
    /\ UNCHANGED <<env, gState, config, probes>>

\* The hook, after an answer of 1: bitnet_xdna_worth_it and _token_split.
Decide(t) ==
    /\ pc[t] = "decide"
    /\ decision' = [decision EXCEPT ![t] =
                       IF Batch >= gMinTokens
                          THEN Split(Batch, [tiles |-> gTiles, num |-> gFrac[1], den |-> gFrac[2]])
                          ELSE 0]
    /\ Goto(t, "idle")
    /\ UNCHANGED <<env, gState, gStateFast, config, mu, probes, answer>>

-----------------------------------------------------------------------------
Step(t) == \/ Slow(t) \/ Lock(t) \/ AlreadyKnown(t) \/ Disabled(t) \/ Enabled(t)
           \/ ReadTiles(t) \/ ReadSplit(t) \/ ReadMinTokens(t) \/ Clamp(t)
           \/ Probe(t) \/ Publish(t) \/ Decide(t)

Next == \E t \in Threads : Fast(t) \/ Step(t)

\* Threads are scheduled.  Each thread takes g_mu at most once, so weak fairness is
\* enough for the one that waits.
Spec == Init /\ [][Next]_vars /\ \A t \in Threads : WF_vars(Fast(t) \/ Step(t))

-----------------------------------------------------------------------------
(* Properties *)

\* All threads of the pool decide alike, however they interleave with the
\* initialisation: what Offload takes for granted when it lets every thread
\* evaluate Hooked by itself.  One thread that decided otherwise would miss the
\* barriers of the hook.
OneDecision ==
    \A t, u \in Threads :
        decision[t] # Undecided /\ decision[u] # Undecided => decision[t] = decision[u]

\* The knobs do not change any more once a thread has been told 1, and nobody is
\* ever told something else than the others were.
ConfigFrozen ==
    [][/\ config' # config => \A t \in Threads : answer[t] = -1
       /\ \A t, u \in Threads : answer[t] # -1 /\ answer'[u] # -1 => answer'[u] = answer[t]]_vars

\* "Resolve once": the device is opened at most once, and not at all when the
\* environment does not ask for it.
ProbedOnce == probes <= IF env.enabled THEN 1 ELSE 0

\* Every thread gets its answer and decides.
EveryoneDecides == \A t \in Threads : <>(decision[t] # Undecided)

=============================================================================
