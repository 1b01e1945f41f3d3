------------------------- MODULE AvailabilityProofs -------------------------
(***************************************************************************)
(* For any number of threads, any batch and any environment: all threads   *)
(* decide alike, the device is probed at most once, and the knobs do not   *)
(* change once a thread has an answer.                                     *)
(*                                                                         *)
(* The invariant says that the mirror is -1 exactly while nothing is known *)
(* or the thread with the lock is still finding out; that an answer is     *)
(* what the mirror says; and that a decision is what the knobs, as they    *)
(* are now, make of it.                                                    *)
(***************************************************************************)
EXTENDS Availability, TokenSplitProofs

\* Where a thread is when it has the lock, ...
Inside == {"locked", "tiles", "split", "minTokens", "clamp", "probe", "publish"}

\* ... and when it is the one that finds out: before the device is probed, and after.
Reading == {"tiles", "split", "minTokens", "clamp", "probe"}
Finding == Reading \cup {"publish"}

\* What the knobs make of the batch.
Share == IF Batch >= gMinTokens
            THEN Split(Batch, [tiles |-> gTiles, num |-> gFrac[1], den |-> gFrac[2]])
            ELSE 0

Types ==
    /\ pc \in [Threads -> Locations]
    /\ gState \in {-1, 0, 1} /\ gStateFast \in {-1, 0, 1}
    /\ mu \in Threads \cup {NoThread}
    /\ probes \in {0, 1}
    /\ answer \in [Threads -> {-1, 0, 1}]
    /\ DOMAIN decision = Threads /\ decision = [t \in Threads |-> decision[t]]

Exclusion == \A t \in Threads : pc[t] \in Inside <=> mu = t

\* What is known while a thread finds out, and while none does.
Known ==
    /\ \A t \in Threads :
          /\ pc[t] \in Finding => gStateFast = -1 /\ gState # -1 /\ env.enabled
          /\ pc[t] \in Reading => probes = 0
    /\ (\A t \in Threads : pc[t] \notin Finding) => gStateFast = gState
    /\ gState = -1 => probes = 0
    /\ probes = 1 => env.enabled

\* What the threads were told and made of it.
Told ==
    \A t \in Threads :
        /\ answer[t] # -1 => answer[t] = gStateFast
        /\ pc[t] = "decide" => answer[t] = 1
        /\ decision[t] # Undecided =>
              /\ answer[t] # -1
              /\ decision[t] = IF gStateFast = 1 THEN Share ELSE 0

IInv == Types /\ Exclusion /\ Known /\ Told

-----------------------------------------------------------------------------
\* At the start nobody has the lock and nothing is known.
LEMMA InitIInv == Init => IInv
BY ThreadsAssumption
   DEF Init, IInv, Types, Exclusion, Known, Told, Locations, Inside, Reading, Finding, Undecided

\* Only the thread with the lock changes what is known: without one that finds out,
\* or with the thread itself finding out, nobody else does.
LEMMA OneFinds ==
    ASSUME Exclusion, NEW t \in Threads, pc[t] \in Inside
    PROVE  \A u \in Threads \ {t} : pc[u] \notin Inside
BY DEF Exclusion

\* A step that only moves a thread outside the lock.
LEMMA SlowIInv == ASSUME IInv, NEW t \in Threads, Slow(t) PROVE IInv'
BY DEF IInv, Types, Exclusion, Known, Told, Slow, Goto, Locations, Inside, Reading, Finding,
       config, Share

\* The lock is taken by one thread.
LEMMA LockIInv == ASSUME IInv, NEW t \in Threads, Lock(t) PROVE IInv'
BY ThreadsAssumption
   DEF IInv, Types, Exclusion, Known, Told, Lock, Goto, Locations, Inside, Reading, Finding,
       config, Share

\* An answer from the mirror.
LEMMA FastIInv == ASSUME IInv, NEW t \in Threads, Fast(t) PROVE IInv'
BY DEF IInv, Types, Exclusion, Known, Told, Fast, Answer, Goto, Locations, Inside, Reading,
       Finding, config, Share, Undecided

\* With the lock, the answer is known already: the mirror says so, too.
LEMMA AlreadyKnownIInv == ASSUME IInv, NEW t \in Threads, AlreadyKnown(t) PROVE IInv'
BY ThreadsAssumption
   DEF IInv, Types, Exclusion, Known, Told, AlreadyKnown, Answer, Goto, Locations, Inside, Reading,
       Finding, config, Share, Undecided

\* The environment says no: state and mirror at once.
LEMMA DisabledIInv == ASSUME IInv, NEW t \in Threads, Disabled(t) PROVE IInv'
<1>. USE DEF IInv
<1>1. \A u \in Threads : pc[u] \notin Finding /\ pc'[u] \notin Finding
  BY OneFinds DEF Types, Disabled, Answer, Goto, Inside, Reading, Finding
<1>2. gStateFast = -1 /\ gState = -1 /\ probes = 0
  BY <1>1 DEF Types, Known, Disabled
<1>3. \A u \in Threads : answer[u] = -1 /\ decision[u] = Undecided /\ pc[u] # "decide"
  BY <1>2 DEF Types, Told
<1>4. Types'
  BY DEF Types, Disabled, Answer, Goto, Locations
<1>5. Exclusion'
  BY ThreadsAssumption DEF Types, Exclusion, Disabled, Answer, Goto, Inside
<1>6. Known'
  BY <1>1, <1>2 DEF Known, Disabled, Finding, Reading
<1>7. Told'
  <2>1. \A u \in Threads : answer'[u] # -1 => u = t
    BY <1>3 DEF Types, Disabled, Answer
  <2>2. gStateFast' = 0 /\ answer'[t] = 0 /\ decision'[t] = 0
    BY DEF Types, Disabled, Answer
  <2>3. \A u \in Threads : decision'[u] # Undecided => u = t
    BY <1>3 DEF Types, Disabled, Answer
  <2>4. \A u \in Threads : pc'[u] # "decide"
    BY <1>3 DEF Types, Disabled, Answer, Goto
  <2>. QED BY <2>1, <2>2, <2>3, <2>4 DEF Told
<1>. QED BY <1>4, <1>5, <1>6, <1>7

\* The thread starts to find out.
LEMMA EnabledIInv == ASSUME IInv, NEW t \in Threads, Enabled(t) PROVE IInv'
BY DEF IInv, Types, Exclusion, Known, Told, Enabled, Goto, Locations, Inside, Reading, Finding,
       config, Share, Undecided

\* A decision is made of knobs that do not change any more.
LEMMA DecideIInv == ASSUME IInv, NEW t \in Threads, Decide(t) PROVE IInv'
BY DEF IInv, Types, Exclusion, Known, Told, Decide, Goto, Locations, Inside, Reading, Finding,
       config, Share, Undecided

\* The thread that finds out: the mirror is -1, so nobody has an answer yet.
LEMMA FindingIInv ==
    ASSUME IInv, NEW t \in Threads,
           ReadTiles(t) \/ ReadSplit(t) \/ ReadMinTokens(t) \/ Clamp(t) \/ Probe(t)
    PROVE  IInv'
<1>. USE DEF IInv
<1>1. pc[t] \in Reading /\ pc'[t] \in Finding /\ pc'[t] # pc[t]
      /\ (pc'[t] \in Reading => UNCHANGED <<gState, probes>>)
      /\ \A u \in Threads \ {t} : pc'[u] = pc[u]
  BY DEF Types, ReadTiles, ReadSplit, ReadMinTokens, Clamp, Probe, Goto, Reading, Finding
<1>2. UNCHANGED <<env, gStateFast, mu, answer, decision>>
  BY DEF ReadTiles, ReadSplit, ReadMinTokens, Clamp, Probe
<1>3. gStateFast = -1 /\ gState # -1 /\ env.enabled /\ probes = 0
  BY <1>1 DEF Known, Finding
<1>4. \A u \in Threads : answer[u] = -1 /\ decision[u] = Undecided /\ pc[u] # "decide"
  BY <1>3 DEF Types, Told
<1>5. Types'
  BY <1>2, <1>3 DEF Types, ReadTiles, ReadSplit, ReadMinTokens, Clamp, Probe, Goto, Locations
<1>6. Exclusion'
  BY <1>1, <1>2 DEF Exclusion, Inside, Reading, Finding
<1>7. Known'
  <2>1. \A u \in Threads \ {t} : pc'[u] \notin Inside
    BY <1>1, OneFinds DEF Inside, Reading
  <2>2. gState' # -1 /\ (pc'[t] \in Reading => probes' = 0)
    BY <1>1, <1>3 DEF ReadTiles, ReadSplit, ReadMinTokens, Clamp, Probe
  <2>. QED BY <1>1, <1>2, <1>3, <2>1, <2>2 DEF Known, Inside, Reading, Finding
<1>8. Told'
  BY <1>1, <1>2, <1>4 DEF Told, Finding, Reading
<1>. QED BY <1>5, <1>6, <1>7, <1>8

\* The answer is published and the lock released: now the mirror says what is known.
LEMMA PublishIInv == ASSUME IInv, NEW t \in Threads, Publish(t) PROVE IInv'
<1>. USE DEF IInv
<1>1. gStateFast = -1 /\ gState # -1 /\ env.enabled
  BY DEF Known, Publish, Finding
<1>2. \A u \in Threads : answer[u] = -1 /\ decision[u] = Undecided /\ pc[u] # "decide"
  BY <1>1 DEF Types, Told
<1>3. \A u \in Threads : pc'[u] \notin Inside
  BY OneFinds DEF Types, Publish, Answer, Goto, Inside
<1>4. Types'
  BY DEF Types, Publish, Answer, Goto, Locations
<1>5. Exclusion'
  BY <1>3, ThreadsAssumption DEF Exclusion, Publish
<1>6. Known'
  BY <1>1, <1>3 DEF Known, Publish, Inside, Finding, Reading
<1>7. Told'
  BY <1>1, <1>2 DEF Types, Told, Publish, Answer, Goto, Undecided
<1>. QED BY <1>4, <1>5, <1>6, <1>7

\* Every step of every thread keeps the invariant.
LEMMA NextIInv == IInv /\ [Next]_vars => IInv'
<1>. SUFFICES ASSUME IInv, [Next]_vars PROVE IInv'
  OBVIOUS
<1>1. CASE UNCHANGED vars
  BY <1>1 DEF vars, config, IInv, Types, Exclusion, Known, Told, Share
<1>2. CASE Next
  <2>1. PICK t \in Threads : Fast(t) \/ Step(t)
    BY <1>2 DEF Next
  <2>. QED BY <2>1, FastIInv, SlowIInv, LockIInv, AlreadyKnownIInv, DisabledIInv, EnabledIInv,
              FindingIInv, PublishIInv, DecideIInv DEF Step
<1>. QED BY <1>1, <1>2

\* The inductive invariant.
THEOREM Invariance == Spec => []IInv
BY InitIInv, NextIInv, PTL DEF Spec

-----------------------------------------------------------------------------
\* Two threads that have decided were told the same, and made the same of it.
THEOREM DecideAlike == Spec => []OneDecision
<1>1. IInv => OneDecision
  BY DEF IInv, Told, OneDecision
<1>. QED BY <1>1, Invariance, PTL

\* The device is probed once, and only if it is asked for.
THEOREM ProbeOnce == Spec => []ProbedOnce
<1>1. IInv => ProbedOnce
  BY DEF IInv, Types, Known, ProbedOnce
<1>. QED BY <1>1, Invariance, PTL

\* A knob changes only while the mirror is -1 and nobody has an answer; and the mirror,
\* once it has a value, keeps it.
THEOREM KnobsFrozen == Spec => ConfigFrozen
<1>1. ASSUME IInv, IInv', Next, config' # config, NEW t \in Threads
      PROVE  answer[t] = -1
  <2>1. PICK u \in Threads : pc[u] \in Finding
    BY <1>1 DEF Next, Step, Fast, Slow, Lock, AlreadyKnown, Disabled, Enabled, ReadTiles,
                ReadSplit, ReadMinTokens, Clamp, Probe, Publish, Decide, Finding, Reading
  <2>. QED BY <1>1, <2>1 DEF IInv, Types, Known, Told
<1>2. ASSUME IInv, IInv', Next, NEW t \in Threads, NEW u \in Threads,
             answer[t] # -1, answer'[u] # -1
      PROVE  answer'[u] = answer[t]
  <2>1. gStateFast # -1 /\ gStateFast = answer[t]
    BY <1>2 DEF IInv, Types, Told
  <2>2. gStateFast' = gStateFast
    BY <1>2, <2>1 DEF IInv, Types, Known, Next, Step, Fast, Slow, Lock, AlreadyKnown, Disabled,
                Enabled, ReadTiles, ReadSplit, ReadMinTokens, Clamp, Probe, Publish, Decide,
                Exclusion, Inside, Finding, Reading
  <2>. QED BY <1>2, <2>1, <2>2 DEF IInv, Told
<1>3. IInv /\ IInv' /\ [Next]_vars
         => [/\ config' # config => \A t \in Threads : answer[t] = -1
             /\ \A t, u \in Threads :
                   answer[t] # -1 /\ answer'[u] # -1 => answer'[u] = answer[t]]_vars
  BY <1>1, <1>2
<1>. QED BY <1>3, Invariance, PTL DEF Spec, ConfigFrozen

-----------------------------------------------------------------------------
(* Types *)

\* What Types leaves out of TypeOK.
KnobTypes ==
    /\ env \in Environments
    /\ gMinTokens \in Nat /\ gTiles \in Int
    /\ gFrac \in Nat \X (Nat \ {0}) /\ gFrac[1] <= gFrac[2]
    /\ \A t \in Threads : decision[t] = Undecided \/ decision[t] \in 0 .. Batch

\* Whatever the knobs are, a share of the batch comes out.
LEMMA ShareType == ASSUME KnobTypes PROVE Share \in 0 .. Batch
<1> DEFINE cfg == [tiles |-> gTiles, num |-> gFrac[1], den |-> gFrac[2]]
<1>1. KnobsOK(cfg)
  BY DEF KnobTypes, KnobsOK
<1>. HIDE DEF cfg
<1>2. TNpu(Batch, 2, cfg) \in 0 .. Batch
  BY <1>1, BatchAssumption, SplitIsWholeTilesOrAll
<1>3. Split(Batch, cfg) \in 0 .. Batch
  BY <1>2 DEF TNpu
<1>4. Share = IF Batch >= gMinTokens THEN Split(Batch, cfg) ELSE 0
  BY DEF Share, cfg
<1>. QED BY <1>3, <1>4, BatchAssumption

\* A step reads one knob, or makes one decision.
LEMMA KnobTypesStep ==
    ASSUME IInv, KnobTypes, NEW t \in Threads, Fast(t) \/ Step(t)
    PROVE  KnobTypes'
<1>1. CASE ReadTiles(t) \/ ReadMinTokens(t)
  BY <1>1, EnvironmentsAssumption DEF KnobTypes, ReadTiles, ReadMinTokens
<1>2. CASE ReadSplit(t)
  <2>1. gFrac' \in Nat \X (Nat \ {0}) /\ gFrac'[1] <= gFrac'[2]
    <3>1. CASE env.split # Unset /\ InRange(env.split)
      <4>1. PICK a \in Int, b \in Nat \ {0} : env.split = <<a, b>>
        BY <3>1, EnvironmentsAssumption DEF KnobTypes
      <4>2. gFrac' = <<a, b>> /\ 0 <= a /\ a <= b
        BY <1>2, <3>1, <4>1 DEF ReadSplit, InRange
      <4>. QED BY <4>2
    <3>2. CASE ~(env.split # Unset /\ InRange(env.split))
      BY <1>2, <3>2 DEF ReadSplit, KnobTypes
    <3>. QED BY <3>1, <3>2
  <2>. QED BY <1>2, <2>1 DEF ReadSplit, KnobTypes
<1>3. CASE Clamp(t)
  BY <1>3, kMTileAssumption DEF KnobTypes, Clamp
<1>4. CASE Decide(t)
  <2>1. decision' = [decision EXCEPT ![t] = Share]
    BY <1>4 DEF Decide, Share
  <2>2. \A u \in Threads : decision'[u] = Undecided \/ decision'[u] \in 0 .. Batch
    BY <2>1, ShareType DEF KnobTypes, IInv, Types
  <2>. QED BY <1>4, <2>2 DEF KnobTypes, Decide, config
<1>5. ASSUME NEW a, Answer(t, a)
      PROVE  \A u \in Threads : decision'[u] = Undecided \/ decision'[u] \in 0 .. Batch
  BY <1>5, BatchAssumption DEF KnobTypes, IInv, Types, Answer
<1>6. CASE Fast(t) \/ AlreadyKnown(t) \/ Disabled(t) \/ Publish(t)
  <2>1. \E a : Answer(t, a)
    BY <1>6 DEF Fast, AlreadyKnown, Disabled, Publish
  <2>. QED BY <1>5, <1>6, <2>1 DEF KnobTypes, config, Fast, AlreadyKnown, Disabled, Publish
<1>7. CASE Slow(t) \/ Lock(t) \/ Enabled(t) \/ Probe(t)
  BY <1>7 DEF KnobTypes, config, Slow, Lock, Enabled, Probe
<1>. QED BY <1>1, <1>2, <1>3, <1>4, <1>6, <1>7 DEF Step

\* Whatever the environment holds, the fraction stays between 0 and 1, and nobody gives
\* the NPU more tokens than there are.
THEOREM TypeCorrect == Spec => []TypeOK
<1>1. Init => KnobTypes
  BY kMTileAssumption DEF Init, KnobTypes
<1>2. IInv /\ KnobTypes /\ [Next]_vars => KnobTypes'
  <2>1. ASSUME KnobTypes, UNCHANGED vars PROVE KnobTypes'
    BY <2>1 DEF vars, config, KnobTypes
  <2>. QED BY <2>1, KnobTypesStep DEF Next
<1>3. IInv /\ KnobTypes => TypeOK
  BY DEF IInv, Types, KnobTypes, TypeOK
<1>. QED BY <1>1, <1>2, <1>3, Invariance, PTL DEF Spec

=============================================================================
