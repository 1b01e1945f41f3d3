--------------------------- MODULE OffloadProofs ----------------------------
(***************************************************************************)
(* Offload for every number of threads, every graph and every knob: its    *)
(* type invariant, the agreement of the threads on the barriers, that no   *)
(* output cell is ever written from foreign data, and that a node is       *)
(* complete when the first thread leaves it -- hence that the threadpool   *)
(* implements the atomic mul_mat, but for liveness.                        *)
(***************************************************************************)
EXTENDS Offload, TokenSplitProofs

-----------------------------------------------------------------------------
(* The inductive invariant *)

\* The barrier-delimited section of a node's computation a thread is in.  What
\* section "end" belongs to depends on the path: 2 when the node is not
\* offloaded, 3 after falling through, 4 after the epilogue.
Section(t) ==
    IF pc[t] \in {"quantize", "qbarrier", "done"} THEN 1
    ELSE IF pc[t] \in {"hook", "accumulate", "dispatch", "share", "join"} THEN 2
    ELSE IF pc[t] \in {"branch", "epilogue", "leave"} THEN 3
    ELSE IF ~Hooked(node[t]) THEN 2
    ELSE IF xdnaResult = 0 THEN 3
    ELSE 4

\* Which nodes and which value of xdna_result a location goes with.
Local(t) ==
    /\ pc[t] \in {"accumulate", "dispatch"} => t = 0
    /\ pc[t] = "share" => HasShare(t, node[t])
    /\ pc[t] \in {"accumulate", "dispatch", "share", "join", "branch", "epilogue", "leave"}
          => Hooked(node[t])
    /\ pc[t] \in {"epilogue", "leave"} => xdnaResult = 1
    /\ pc[t] = "full" /\ Hooked(node[t]) => xdnaResult = 0
    /\ pc[t] = "done" <=> node[t] = NumNodes + 1

\* u has left one barrier more than t: it is in the next section.
NextSection(t, u) ==
    IF pc[t] = "end" THEN node[u] = node[t] + 1 /\ Section(u) = 1
                     ELSE node[u] = node[t] /\ Section(u) = Section(t) + 1

Lockstep ==
    \A t, u \in Threads :
        /\ passed[t] = passed[u] => node[t] = node[u] /\ Section(t) = Section(u)
        /\ passed[t] < passed[u] => /\ passed[u] = passed[t] + 1
                                    /\ pc[t] \in Barriers
                                    /\ NextSection(t, u)

\* A thread past its quantization has put its node's activations in the buffer.
Activated ==
    \A t \in Threads : pc[t] \notin {"quantize", "done"} => wdata[t] = node[t]

\* While accumulate runs, the rows of the finished tiles are in the accumulator;
\* once it has returned 1, all the NPU's rows are.
Accumulated ==
    /\ pc[0] = "accumulate" => pos[0] = 0
    /\ pc[0] = "dispatch" =>
          /\ acc.node = node[0]
          /\ \A k \in 0 .. NpuTokens(node[0]) - 1 : k < pos[0] => k \in acc.rows
    /\ /\ pc[0] \in {"join", "branch", "epilogue", "leave", "end"}
       /\ Hooked(node[0])
       /\ xdnaResult = 1
       => /\ acc.node = node[0]
          /\ 0 .. NpuTokens(node[0]) - 1 \subseteq acc.rows

Right(n, toks, rows) ==
    \A k \in toks, r \in rows : <<k, r>> \in Cells(n) => dst[n][<<k, r>>] = "right"

\* What a thread has written of the node it works on.
Written(t) ==
    LET n == node[t] IN
    /\ pc[t] = "share" => /\ NpuTokens(n) <= pos[t] /\ pos[t] < ne11[n]
                          /\ Right(n, NpuTokens(n) .. pos[t] - 1, ShareRows(t, n))
    /\ pc[t] \in {"join", "branch", "epilogue", "leave", "full", "end"} /\ Hooked(n) /\ HasShare(t, n)
          => Right(n, NpuTokens(n) .. ne11[n] - 1, ShareRows(t, n))
    /\ pc[t] = "epilogue"
          => /\ EpiBegin(t, nth, NpuTokens(n)) <= pos[t]
             /\ Right(n, EpiBegin(t, nth, NpuTokens(n)) .. pos[t] - 1, RowsOf(n))
    /\ pc[t] = "leave" \/ (pc[t] = "end" /\ Hooked(n) /\ xdnaResult = 1)
          => Right(n, EpiShard(t, nth, NpuTokens(n)), RowsOf(n))
    /\ pc[t] = "end" /\ ~(Hooked(n) /\ xdnaResult = 1)
          => Right(n, TokensOf(n), FullRows(t, n))

\* Once a thread has left a node, the node's output is complete.
Complete ==
    \A n \in Nodes : (\E t \in Threads : node[t] > n) =>
        \A c \in Cells(n) : dst[n][c] = "right"

SyncInv == /\ TypeOK
           /\ \A t \in Threads : Local(t)
           /\ Lockstep

DataInv == /\ Activated
           /\ Accumulated
           /\ DstNeverWrong

IInv == /\ SyncInv
        /\ DataInv
        /\ \A t \in Threads : Written(t)
        /\ Complete

-----------------------------------------------------------------------------
(* Constants *)

LEMMA NodeFacts ==
    ASSUME NEW n \in Nodes
    PROVE  /\ ne11[n] \in Nat /\ ne01[n] \in Nat
           /\ ne01[n] % kCols = 0
           /\ NpuTokens(n) \in 0 .. ne11[n]
           /\ nth = 1 => NpuTokens(n) = ne11[n]
  BY GraphAssumption, RowsAssumption, KnobsAssumption, ThreadsAssumption,
     SplitIsWholeTilesOrAll DEF NpuTokens, KnobsOK, TNpu

LEMMA NodesFact == Nodes = 1 .. NumNodes /\ NumNodes \in Nat
  BY GraphAssumption DEF Nodes

-----------------------------------------------------------------------------
(* The barriers *)

\* Threads that wait with the same count wait at the same barrier.
LEMMA WaitTogether ==
    ASSUME SyncInv, NEW t \in Threads, NEW u \in Threads,
           passed[t] = passed[u], pc[t] \in Barriers, pc[u] \in Barriers
    PROVE  pc[t] = pc[u] /\ node[t] = node[u]
<1>1. node[t] = node[u] /\ Section(t) = Section(u)
  BY DEF SyncInv, Lockstep
<1>2. Local(t) /\ Local(u) /\ xdnaResult \in {0, 1}
  BY DEF SyncInv, TypeOK
<1> QED
  BY <1>1, <1>2 DEF Section, Local, Barriers

\* While thread 0 is in accumulate, every other thread is before its branch.
LEMMA AccumulateAlone ==
    ASSUME SyncInv, NEW t \in Threads, NEW u \in Threads, u # t,
           pc[t] \in {"accumulate", "dispatch"}
    PROVE  /\ node[u] = node[t]
           /\ pc[u] \in {"qbarrier", "hook", "share", "join"}
<1>1. /\ passed[t] \in Nat /\ passed[u] \in Nat /\ xdnaResult \in {0, 1}
      /\ pc[u] \in Locations
      /\ Local(t) /\ Local(u)
  BY DEF SyncInv, TypeOK
<1>2. t = 0 /\ Hooked(node[t]) /\ Section(t) = 2
  BY <1>1 DEF Local, Section
<1>3. CASE passed[t] = passed[u]
  <2>1. node[u] = node[t] /\ Section(u) = 2
    BY <1>2, <1>3 DEF SyncInv, Lockstep
  <2>2. pc[u] \in {"hook", "share", "join"}
    BY <1>1, <1>2, <2>1 DEF Section, Local, Locations
  <2> QED
    BY <2>1, <2>2
<1>4. CASE passed[u] < passed[t]
  <2>1. pc[u] \in Barriers /\ NextSection(u, t)
    BY <1>4 DEF SyncInv, Lockstep
  <2> QED
    BY <1>1, <1>2, <2>1 DEF NextSection, Section, Barriers
<1>5. CASE passed[t] < passed[u]
  BY <1>5 DEF SyncInv, Lockstep, Barriers
<1> QED
  BY <1>1, <1>3, <1>4, <1>5

\* A thread that moves inside its section keeps the pool in step.
LEMMA MoveInSection ==
    ASSUME SyncInv, NEW t \in Threads, NEW loc \in Locations,
           pc[t] \notin Barriers,
           pc' = [pc EXCEPT ![t] = loc],
           UNCHANGED <<node, passed>>,
           \A u \in Threads : Section(u)' = Section(u)
    PROVE  Lockstep'
<1> SUFFICES ASSUME NEW u \in Threads, NEW v \in Threads
             PROVE  /\ passed[u] = passed[v] => node[u] = node[v] /\ Section(u)' = Section(v)'
                    /\ passed[u] < passed[v] => /\ passed[v] = passed[u] + 1
                                                /\ pc'[u] \in Barriers
                                                /\ NextSection(u, v)'
  BY DEF Lockstep
<1>1. /\ passed[u] = passed[v] => node[u] = node[v] /\ Section(u) = Section(v)
      /\ passed[u] < passed[v] => /\ passed[v] = passed[u] + 1
                                  /\ pc[u] \in Barriers
                                  /\ NextSection(u, v)
  BY DEF SyncInv, Lockstep
<1>2. passed[u] < passed[v] => u # t
  BY <1>1
<1>3. u # t => pc'[u] = pc[u]
  BY DEF SyncInv, TypeOK
<1>4. Section(u)' = Section(u) /\ Section(v)' = Section(v)
  OBVIOUS
<1> QED
  BY <1>1, <1>2, <1>3, <1>4 DEF NextSection

\* A thread that leaves a barrier enters the section that follows it, where the
\* threads that left before it already are.
LEMMA LeaveInStep ==
    ASSUME SyncInv, NEW t \in Threads, NEW from \in Barriers, NEW to \in Locations,
           LeaveBarrier(t, from, to),
           xdnaResult' = xdnaResult,
           IF from = "end"
              THEN node' = [node EXCEPT ![t] = @ + 1] /\ to \in {"quantize", "done"}
              ELSE /\ node' = node
                   /\ <<from, to>> \in {<<"qbarrier", "hook">>, <<"join", "branch">>,
                                        <<"leave", "end">>}
    PROVE  Lockstep'
<1>1. /\ pc \in [Threads -> Locations] /\ node \in [Threads -> 1 .. NumNodes + 1]
      /\ passed \in [Threads -> Nat] /\ xdnaResult \in {0, 1}
      /\ Local(t)
  BY DEF SyncInv, TypeOK
<1>2. /\ pc[t] = from
      /\ pc' = [pc EXCEPT ![t] = to]
      /\ passed' = [passed EXCEPT ![t] = @ + 1]
      /\ Barrier(t)
  BY DEF LeaveBarrier, Goto
\* What t becomes is what comes after its present section.
<1>4. /\ IF from = "end" THEN node'[t] = node[t] + 1 /\ Section(t)' = 1
                         ELSE node'[t] = node[t] /\ Section(t)' = Section(t) + 1
  BY <1>1, <1>2 DEF Section, Local, Barriers
<1>5. \A u \in Threads \ {t} : /\ pc'[u] = pc[u] /\ node'[u] = node[u]
                               /\ passed'[u] = passed[u] /\ Section(u)' = Section(u)
  BY <1>1, <1>2 DEF Section
<1>6. passed'[t] = passed[t] + 1
  BY <1>1, <1>2
<1>7. ASSUME NEW u \in Threads \ {t}
      PROVE  \/ /\ passed[u] = passed[t]
                /\ pc[u] = from /\ node[u] = node[t] /\ Section(u) = Section(t)
             \/ /\ passed[u] = passed[t] + 1
                /\ node[u] = node'[t] /\ Section(u) = Section(t)'
  <2>1. CASE passed[u] > passed[t]
    <3>1. passed[u] = passed[t] + 1 /\ NextSection(t, u)
      BY <1>1, <2>1 DEF SyncInv, Lockstep
    <3> QED
      BY <1>2, <1>4, <3>1 DEF NextSection
  <2>2. CASE passed[u] = passed[t] /\ pc[u] \in Barriers
    BY <1>2, <2>2, WaitTogether DEF SyncInv, Lockstep
  <2> QED
    BY <1>2, <2>1, <2>2 DEF Barrier
<1>8. ASSUME NEW u \in Threads \ {t}, NEW v \in Threads \ {t}
      PROVE  /\ passed'[u] = passed'[v] => node'[u] = node'[v] /\ Section(u)' = Section(v)'
             /\ passed'[u] < passed'[v] => /\ passed'[v] = passed'[u] + 1
                                           /\ pc'[u] \in Barriers
                                           /\ NextSection(u, v)'
  <2>1. /\ passed[u] = passed[v] => node[u] = node[v] /\ Section(u) = Section(v)
        /\ passed[u] < passed[v] => /\ passed[v] = passed[u] + 1
                                    /\ pc[u] \in Barriers
                                    /\ NextSection(u, v)
    BY DEF SyncInv, Lockstep
  <2> QED
    BY <1>5, <2>1 DEF NextSection
<1>9. ASSUME NEW u \in Threads \ {t}
      PROVE  /\ passed'[u] = passed'[t] => node'[u] = node'[t] /\ Section(u)' = Section(t)'
             /\ passed'[u] < passed'[t] => /\ passed'[t] = passed'[u] + 1
                                           /\ pc'[u] \in Barriers
                                           /\ NextSection(u, t)'
             /\ ~(passed'[t] < passed'[u])
  <2>1. CASE passed[u] = passed[t] /\ pc[u] = from /\ node[u] = node[t] /\ Section(u) = Section(t)
    BY <1>1, <1>4, <1>5, <1>6, <2>1 DEF NextSection
  <2>2. CASE passed[u] = passed[t] + 1 /\ node[u] = node'[t] /\ Section(u) = Section(t)'
    BY <1>1, <1>5, <1>6, <2>2
  <2> QED
    BY <1>7, <2>1, <2>2
<1>10. ASSUME NEW u \in Threads, NEW v \in Threads
       PROVE  /\ passed'[u] = passed'[v] => node'[u] = node'[v] /\ Section(u)' = Section(v)'
              /\ passed'[u] < passed'[v] => /\ passed'[v] = passed'[u] + 1
                                            /\ pc'[u] \in Barriers
                                            /\ NextSection(u, v)'
  <2>1. CASE u # t /\ v # t
    BY <1>8, <2>1
  <2>2. CASE u # t /\ v = t
    BY <1>9, <2>2
  <2>3. CASE u = t /\ v # t
    BY <1>9, <2>3
  <2>4. CASE u = t /\ v = t
    BY <1>1, <1>6, <2>4
  <2> QED
    BY <2>1, <2>2, <2>3, <2>4
<1> QED
  BY <1>10 DEF Lockstep

\* Every step keeps the threads in step with each other.
LEMMA LockstepStep ==
    ASSUME SyncInv, NEW t \in Threads, Step(t)
    PROVE  Lockstep'
<1>0. /\ pc \in [Threads -> Locations] /\ node \in [Threads -> 1 .. NumNodes + 1]
      /\ passed \in [Threads -> Nat] /\ xdnaResult \in {0, 1}
      /\ \A u \in Threads : Local(u)
      /\ \A u \in Threads : pc[u] \in Locations
  BY DEF SyncInv, TypeOK
<1>1. CASE Quantize(t)
  <2>1. \A u \in Threads : Section(u)' = Section(u)
    BY <1>0, <1>1 DEF Quantize, Goto, Section
  <2> QED
    BY <1>1, <2>1, MoveInSection DEF Quantize, Goto, Locations, Barriers
<1>2. CASE Quantized(t)
  <2>1. LeaveBarrier(t, "qbarrier", "hook") /\ node' = node /\ xdnaResult' = xdnaResult
    BY <1>2 DEF Quantized
  <2> QED
    BY <2>1, LeaveInStep DEF Locations, Barriers
<1>3. CASE Skip(t)
  <2>1. \A u \in Threads : Section(u)' = Section(u)
    BY <1>0, <1>3 DEF Skip, Goto, Section
  <2> QED
    BY <1>3, <2>1, MoveInSection DEF Skip, Goto, Locations, Barriers
<1>4. CASE Enter(t)
  <2>1. PICK loc \in {"accumulate", "share", "join"} : pc' = [pc EXCEPT ![t] = loc]
    BY <1>4 DEF Enter, Goto
  <2>2. \A u \in Threads : Section(u)' = Section(u)
    BY <1>0, <1>4, <2>1 DEF Enter, Section
  <2> QED
    BY <1>4, <2>1, <2>2, MoveInSection DEF Enter, Locations, Barriers
<1>5. CASE AccumulateFails(t) \/ AccumulateReturns(t)
  <2>1. /\ pc[t] \in {"accumulate", "dispatch"}
        /\ pc' = [pc EXCEPT ![t] = "join"]
        /\ UNCHANGED <<node, passed>>
    BY <1>5 DEF AccumulateFails, AccumulateReturns, Goto
  <2>2. \A u \in Threads \ {t} : pc[u] \in {"qbarrier", "hook", "share", "join"}
    BY <2>1, AccumulateAlone
  <2>3. \A u \in Threads : Section(u)' = Section(u)
    BY <1>0, <2>1, <2>2 DEF Section
  <2> QED
    BY <2>1, <2>3, MoveInSection DEF Locations, Barriers
<1>6. CASE AccumulateStarts(t)
  <2>1. \A u \in Threads : Section(u)' = Section(u)
    BY <1>0, <1>6 DEF AccumulateStarts, Goto, Section
  <2> QED
    BY <1>6, <2>1, MoveInSection DEF AccumulateStarts, Goto, Locations, Barriers
<1>7. CASE Tile(t) \/ Epilogue(t)
  BY <1>7 DEF Tile, Epilogue, SyncInv, Lockstep, NextSection, Section
<1>8. CASE Share(t)
  <2>1. PICK loc \in {"share", "join"} : pc' = [pc EXCEPT ![t] = loc]
    BY <1>0, <1>8 DEF Share, Goto
  <2>2. \A u \in Threads : Section(u)' = Section(u)
    BY <1>0, <1>8, <2>1 DEF Share, Section
  <2> QED
    BY <1>8, <2>1, <2>2, MoveInSection DEF Share, Locations, Barriers
<1>9. CASE Join(t)
  <2>1. LeaveBarrier(t, "join", "branch") /\ node' = node /\ xdnaResult' = xdnaResult
    BY <1>9 DEF Join
  <2> QED
    BY <2>1, LeaveInStep DEF Locations, Barriers
<1>10. CASE Branch(t)
  <2>1. /\ pc' = [pc EXCEPT ![t] = IF xdnaResult = 1 THEN "epilogue" ELSE "full"]
        /\ pc[t] = "branch"
    BY <1>10 DEF Branch, Goto
  <2>2. Hooked(node[t])
    BY <1>0, <2>1 DEF Local
  <2>3. \A u \in Threads : Section(u)' = Section(u)
    BY <1>0, <1>10, <2>1, <2>2 DEF Branch, Section
  <2> QED
    BY <1>10, <2>1, <2>3, MoveInSection DEF Branch, Locations, Barriers
<1>11. CASE EpilogueDone(t)
  <2>1. \A u \in Threads : Section(u)' = Section(u)
    BY <1>0, <1>11 DEF EpilogueDone, Goto, Section
  <2> QED
    BY <1>11, <2>1, MoveInSection DEF EpilogueDone, Goto, Locations, Barriers
<1>12. CASE Leave(t)
  <2>1. LeaveBarrier(t, "leave", "end") /\ node' = node /\ xdnaResult' = xdnaResult
    BY <1>12 DEF Leave
  <2> QED
    BY <2>1, LeaveInStep DEF Locations, Barriers
<1>13. CASE Full(t)
  <2>1. pc[t] = "full" /\ pc' = [pc EXCEPT ![t] = "end"] /\ UNCHANGED <<node, passed, xdnaResult>>
    BY <1>13 DEF Full, Goto
  <2>2. \A u \in Threads : Section(u)' = Section(u)
    BY <1>0, <2>1 DEF Section, Local
  <2> QED
    BY <2>1, <2>2, MoveInSection DEF Locations, Barriers
<1>14. CASE NextNode(t)
  <2>1. PICK to \in {"quantize", "done"} : LeaveBarrier(t, "end", to)
    BY <1>14 DEF NextNode
  <2>2. node' = [node EXCEPT ![t] = @ + 1] /\ xdnaResult' = xdnaResult
    BY <1>14 DEF NextNode
  <2> QED
    BY <2>1, <2>2, LeaveInStep DEF Locations, Barriers
<1> QED
  BY <1>1, <1>2, <1>3, <1>4, <1>5, <1>6, <1>7, <1>8, <1>9, <1>10, <1>11, <1>12, <1>13,
     <1>14 DEF Step

\* ... and each of them at a location its node and xdna_result allow.
LEMMA LocalStep ==
    ASSUME SyncInv, NEW t \in Threads, Step(t)
    PROVE  \A u \in Threads : Local(u)'
<1> USE DEF Goto, LeaveBarrier
<1>0. /\ pc \in [Threads -> Locations] /\ node \in [Threads -> 1 .. NumNodes + 1]
      /\ xdnaResult \in {0, 1}
      /\ \A u \in Threads : Local(u)
      /\ NumNodes \in Nat
  BY NodesFact DEF SyncInv, TypeOK
<1>1. CASE Quantize(t)
  BY <1>0, <1>1 DEF Quantize, Local
<1>2. CASE Quantized(t)
  BY <1>0, <1>2 DEF Quantized, Local
<1>3. CASE Skip(t)
  BY <1>0, <1>3 DEF Skip, Local
<1>4. CASE Enter(t)
  BY <1>0, <1>4 DEF Enter, Local
<1>5. CASE AccumulateFails(t) \/ AccumulateReturns(t)
  <2>1. /\ pc[t] \in {"accumulate", "dispatch"}
        /\ pc' = [pc EXCEPT ![t] = "join"]
        /\ node' = node
    BY <1>5 DEF AccumulateFails, AccumulateReturns
  <2>2. \A u \in Threads \ {t} : pc[u] \in {"qbarrier", "hook", "share", "join"}
    BY <2>1, AccumulateAlone
  <2> QED
    BY <1>0, <2>1, <2>2 DEF Local
<1>6. CASE AccumulateStarts(t)
  BY <1>0, <1>6 DEF AccumulateStarts, Local
<1>7. CASE Tile(t) \/ Epilogue(t)
  BY <1>0, <1>7 DEF Tile, Epilogue, Local
<1>8. CASE Share(t)
  <2>1. PICK loc \in {"share", "join"} : pc' = [pc EXCEPT ![t] = loc]
    BY <1>0, <1>8 DEF Share
  <2>2. pc[t] = "share" /\ UNCHANGED <<node, xdnaResult>>
    BY <1>8 DEF Share
  <2> QED
    BY <1>0, <2>1, <2>2 DEF Local
<1>9. CASE Join(t)
  BY <1>0, <1>9 DEF Join, Local
<1>10. CASE Branch(t)
  BY <1>0, <1>10 DEF Branch, Local
<1>11. CASE EpilogueDone(t)
  BY <1>0, <1>11 DEF EpilogueDone, Local
<1>12. CASE Leave(t)
  BY <1>0, <1>12 DEF Leave, Local
<1>13. CASE Full(t)
  BY <1>0, <1>13 DEF Full, Local
<1>14. CASE NextNode(t)
  BY <1>0, <1>14 DEF NextNode, Local
<1> QED
  BY <1>1, <1>2, <1>3, <1>4, <1>5, <1>6, <1>7, <1>8, <1>9, <1>10, <1>11, <1>12, <1>13,
     <1>14 DEF Step

\* A thread that is not done works on a node of the graph.
LEMMA AtNode ==
    ASSUME SyncInv, NEW t \in Threads, pc[t] # "done"
    PROVE  node[t] \in Nodes
  BY NodesFact DEF SyncInv, TypeOK, Local

\* Writing to an output keeps it an output.
LEMMA WriteType ==
    ASSUME TypeOK, NEW n \in Nodes, NEW toks, NEW rows, NEW good \in BOOLEAN,
           Write(n, toks, rows, good)
    PROVE  /\ DOMAIN dst' = Nodes
           /\ \A m \in Nodes : dst'[m] \in [Cells(m) -> {"none", "right", "wrong"}]
           /\ \A m \in Nodes \ {n} : dst'[m] = dst[m]
           /\ \A c \in Cells(n) :
                 dst'[n][c] = IF c \in toks \X rows THEN (IF good THEN "right" ELSE "wrong")
                                                    ELSE dst[n][c]
  BY DEF TypeOK, Write

\* The rows a tile adds are the NPU's.
LEMMA TileRowsFact ==
    ASSUME NEW n \in Nodes, NEW t0 \in Nat, t0 < NpuTokens(n)
    PROVE  /\ TileRows(t0, NpuTokens(n)) \subseteq TokensOf(n)
           /\ \A k \in 0 .. NpuTokens(n) - 1 :
                 t0 <= k /\ k < t0 + kMTile => k \in TileRows(t0, NpuTokens(n))
  BY NodeFacts, kMTileAssumption DEF TileRows, Least, TokensOf

\* Every step keeps the types.
LEMMA TypeStep ==
    ASSUME SyncInv, Accumulated, NEW t \in Threads, Step(t)
    PROVE  TypeOK'
<1> USE DEF Goto, LeaveBarrier
<1>0. TypeOK /\ Local(t)
  BY DEF SyncInv
<1>1. CASE Quantize(t)
  <2>1. node[t] \in 0 .. NumNodes
    BY <1>1, AtNode, NodesFact DEF Quantize
  <2> QED
    BY <1>0, <1>1, <2>1 DEF Quantize, TypeOK, Locations
<1>2. CASE Quantized(t)
  BY <1>0, <1>2 DEF Quantized, TypeOK, Locations
<1>3. CASE Skip(t)
  BY <1>0, <1>3 DEF Skip, TypeOK, Locations
<1>4. CASE Enter(t)
  <2>1. NpuTokens(node[t]) \in Nat
    BY <1>4, AtNode, NodeFacts DEF Enter
  <2> QED
    BY <1>0, <1>4, <2>1 DEF Enter, TypeOK, Locations
<1>5. CASE AccumulateFails(t) \/ AccumulateReturns(t)
  BY <1>0, <1>5 DEF AccumulateFails, AccumulateReturns, TypeOK, Locations
<1>6. CASE AccumulateStarts(t)
  <2>1. node[t] \in 0 .. NumNodes
    BY <1>6, AtNode, NodesFact DEF AccumulateStarts
  <2> QED
    BY <1>0, <1>6, <2>1 DEF AccumulateStarts, TypeOK, Locations
<1>7. CASE Tile(t)
  <2>1. t = 0 /\ acc.node = node[t] /\ node[t] \in Nodes /\ pos[t] \in Nat
    BY <1>0, <1>7, AtNode DEF Tile, Accumulated, Local, TypeOK
  <2>2. TileRows(pos[t], NpuTokens(node[t])) \subseteq TokensOf(node[t])
    BY <1>7, <2>1, TileRowsFact DEF Tile
  <2>3. TokensOf(node[t]) \subseteq Nat
    BY <2>1, NodeFacts DEF TokensOf
  <2>4. /\ acc' \in [node : 0 .. NumNodes, rows : SUBSET Nat]
        /\ acc'.node \in Nodes => acc'.rows \subseteq TokensOf(acc'.node)
    BY <1>0, <1>7, <2>1, <2>2, <2>3 DEF Tile, TypeOK
  <2>5. pos' \in [Threads -> Nat]
    BY <1>0, <1>7, kMTileAssumption DEF Tile, TypeOK
  <2> QED
    BY <1>0, <1>7, <2>4, <2>5 DEF Tile, TypeOK
<1>8. CASE Share(t)
  <2> DEFINE len == GroupLen(pos[t], ne11[node[t]])
  <2>1. node[t] \in Nodes
    BY <1>8, AtNode DEF Share
  <2>2. len \in Nat
    BY kColsAssumption DEF GroupLen
  <2>3. /\ DOMAIN dst' = Nodes
        /\ \A m \in Nodes : dst'[m] \in [Cells(m) -> {"none", "right", "wrong"}]
    BY <1>0, <1>8, <2>1, WriteType DEF Share, ActivationsOf
  <2>4. pc' \in [Threads -> Locations]
    BY <1>0, <1>8 DEF Share, TypeOK, Locations
  <2>5. pos' \in [Threads -> Nat]
    <3>1. pos' = [pos EXCEPT ![t] = @ + len]
      BY <1>8 DEF Share
    <3> HIDE DEF len
    <3> QED
      BY <1>0, <2>2, <3>1 DEF TypeOK
  <2> QED
    BY <1>0, <1>8, <2>3, <2>4, <2>5 DEF Share, TypeOK
<1>9. CASE Join(t)
  BY <1>0, <1>9 DEF Join, TypeOK, Locations
<1>10. CASE Branch(t)
  <2>1. EpiBegin(t, nth, NpuTokens(node[t])) \in Nat
    <3>1. NpuTokens(node[t]) \in Nat /\ t \in Nat
      BY <1>10, AtNode, NodeFacts, ThreadsAssumption DEF Branch, Threads
    <3>2. t * NpuTokens(node[t]) \in Nat
      BY <3>1
    <3> QED
      BY <3>2, DivLeq, DivGeq, ThreadsAssumption DEF EpiBegin
  <2> QED
    BY <1>0, <1>10, <2>1 DEF Branch, TypeOK, Locations
<1>11. CASE Epilogue(t)
  <2>1. node[t] \in Nodes
    BY <1>11, AtNode DEF Epilogue
  <2>2. /\ DOMAIN dst' = Nodes
        /\ \A m \in Nodes : dst'[m] \in [Cells(m) -> {"none", "right", "wrong"}]
    BY <1>0, <1>11, <2>1, WriteType DEF Epilogue, ActivationsOf
  <2> QED
    BY <1>0, <1>11, <2>2 DEF Epilogue, TypeOK
<1>12. CASE EpilogueDone(t)
  BY <1>0, <1>12 DEF EpilogueDone, TypeOK, Locations
<1>13. CASE Leave(t)
  BY <1>0, <1>13 DEF Leave, TypeOK, Locations
<1>14. CASE Full(t)
  <2>1. node[t] \in Nodes
    BY <1>14, AtNode DEF Full
  <2>2. /\ DOMAIN dst' = Nodes
        /\ \A m \in Nodes : dst'[m] \in [Cells(m) -> {"none", "right", "wrong"}]
    BY <1>0, <1>14, <2>1, WriteType DEF Full, ActivationsOf
  <2> QED
    BY <1>0, <1>14, <2>2 DEF Full, TypeOK, Locations
<1>15. CASE NextNode(t)
  <2>1. node[t] \in Nodes
    BY <1>15, AtNode DEF NextNode
  <2>2. node' \in [Threads -> 1 .. NumNodes + 1]
    BY <1>0, <1>15, <2>1, NodesFact DEF NextNode, TypeOK
  <2>3. pc' \in [Threads -> Locations]
    BY <1>0, <1>15 DEF NextNode, TypeOK, Locations
  <2> QED
    BY <1>0, <1>15, <2>2, <2>3 DEF NextNode, TypeOK
<1> QED
  BY <1>1, <1>2, <1>3, <1>4, <1>5, <1>6, <1>7, <1>8, <1>9, <1>10, <1>11, <1>12, <1>13,
     <1>14, <1>15 DEF Step

LEMMA SyncStep ==
    ASSUME SyncInv, Accumulated, NEW t \in Threads, Step(t)
    PROVE  SyncInv'
  BY LockstepStep, LocalStep, TypeStep DEF SyncInv

-----------------------------------------------------------------------------
(* What is read is what was written for the node *)

\* A thread that computes from the work buffer finds its node's activations.
LEMMA ActivationsReady ==
    ASSUME SyncInv, Activated, NEW t \in Threads,
           pc[t] \in {"hook", "accumulate", "dispatch", "share", "branch", "epilogue", "full"}
    PROVE  ActivationsOf(node[t])
<1> SUFFICES ASSUME NEW u \in Threads
             PROVE  wdata[u] = node[t]
  BY DEF ActivationsOf
<1>1. /\ passed[t] \in Nat /\ passed[u] \in Nat /\ xdnaResult \in {0, 1}
      /\ pc[u] \in Locations
  BY DEF SyncInv, TypeOK
<1>2. Section(t) # 1 /\ pc[t] \notin Barriers
  BY DEF Section, Barriers
<1>3. CASE passed[u] = passed[t]
  <2>1. node[u] = node[t] /\ Section(u) # 1
    BY <1>2, <1>3 DEF SyncInv, Lockstep
  <2>2. pc[u] \notin {"quantize", "done"}
    BY <2>1 DEF Section
  <2> QED
    BY <2>1, <2>2 DEF Activated
<1>4. CASE passed[u] < passed[t]
  <2>1. pc[u] \in Barriers /\ NextSection(u, t)
    BY <1>4 DEF SyncInv, Lockstep
  <2>2. node[t] = node[u]
    BY <1>2, <2>1 DEF NextSection
  <2> QED
    BY <2>1, <2>2 DEF Activated, Barriers
<1>5. CASE passed[t] < passed[u]
  BY <1>2, <1>5 DEF SyncInv, Lockstep
<1> QED
  BY <1>1, <1>3, <1>4, <1>5

\* A thread in the epilogue finds its node's accumulators.
LEMMA AccumulatorReady ==
    ASSUME SyncInv, Accumulated, NEW t \in Threads, pc[t] = "epilogue"
    PROVE  acc.node = node[t] /\ 0 .. NpuTokens(node[t]) - 1 \subseteq acc.rows
<1>0. 0 \in Threads
  BY ThreadsAssumption DEF Threads
<1>1. /\ passed[t] \in Nat /\ passed[0] \in Nat /\ xdnaResult = 1
      /\ pc[0] \in Locations
      /\ Local(t) /\ Local(0)
      /\ Section(t) = 3 /\ Hooked(node[t])
  BY <1>0 DEF SyncInv, TypeOK, Local, Section
<1>2. node[0] = node[t] /\ pc[0] \in {"join", "branch", "epilogue", "leave"}
  <2>1. CASE passed[0] = passed[t]
    <3>1. node[0] = node[t] /\ Section(0) = 3
      BY <1>0, <1>1, <2>1 DEF SyncInv, Lockstep
    <3> QED
      BY <1>1, <3>1 DEF Section, Local, Locations
  <2>2. CASE passed[0] < passed[t]
    <3>1. pc[0] \in Barriers /\ NextSection(0, t)
      BY <1>0, <2>2 DEF SyncInv, Lockstep
    <3> QED
      BY <1>1, <3>1 DEF NextSection, Section, Barriers
  <2>3. CASE passed[t] < passed[0]
    BY <1>0, <2>3 DEF SyncInv, Lockstep, Barriers
  <2> QED
    BY <1>1, <2>1, <2>2, <2>3
<1> QED
  BY <1>1, <1>2 DEF Accumulated

\* The tokens of an epilogue shard are the NPU's.
LEMMA EpiTokens ==
    ASSUME NEW t \in Threads, NEW n \in Nodes
    PROVE  EpiShard(t, nth, NpuTokens(n)) \subseteq 0 .. NpuTokens(n) - 1
<1>1. NpuTokens(n) \in Nat
  BY NodeFacts
<1> QED
  BY <1>1, EpiShardsPartitionTokens, ThreadsAssumption DEF Threads

\* A write from the right sources fills its region and nothing else.
LEMMA WriteRight ==
    ASSUME TypeOK, NEW n \in Nodes, NEW toks, NEW rows, NEW good, good,
           Write(n, toks, rows, good)
    PROVE  \A m \in Nodes : \A c \in Cells(m) :
              dst'[m][c] = IF m = n /\ c \in toks \X rows THEN "right" ELSE dst[m][c]
<1> SUFFICES ASSUME NEW m \in Nodes, NEW c \in Cells(m)
             PROVE  dst'[m][c] = IF m = n /\ c \in toks \X rows THEN "right" ELSE dst[m][c]
  OBVIOUS
<1>1. dst' = [dst EXCEPT ![n] = [d \in Cells(n) |->
                 IF d \in toks \X rows THEN "right" ELSE dst[n][d]]]
  BY DEF Write
<1>2. DOMAIN dst = Nodes
  BY DEF TypeOK
<1> QED
  BY <1>1, <1>2

\* A step either leaves an output cell alone or writes it right.
LEMMA WritesRight ==
    ASSUME SyncInv, Activated, Accumulated, NEW t \in Threads, Step(t),
           NEW n \in Nodes, NEW c \in Cells(n)
    PROVE  dst'[n][c] \in {dst[n][c], "right"}
<1>0. TypeOK
  BY DEF SyncInv
<1>1. CASE Share(t)
  <2>1. node[t] \in Nodes
    BY <1>1, AtNode DEF Share
  <2>2. ActivationsOf(node[t])
    BY <1>1, ActivationsReady DEF Share
  <2> QED
    BY <1>0, <1>1, <2>1, <2>2, WriteRight DEF Share
<1>2. CASE Epilogue(t)
  <2>1. node[t] \in Nodes
    BY <1>2, AtNode DEF Epilogue
  <2>2. ActivationsOf(node[t])
    BY <1>2, ActivationsReady DEF Epilogue
  <2>3. acc.node = node[t] /\ pos[t] \in acc.rows
    BY <1>2, <2>1, AccumulatorReady, EpiTokens DEF Epilogue
  <2> DEFINE good == acc.node = node[t] /\ pos[t] \in acc.rows /\ ActivationsOf(node[t])
  <2>4. Write(node[t], {pos[t]}, RowsOf(node[t]), good)
    BY <1>2 DEF Epilogue
  <2>5. good
    BY <2>2, <2>3
  <2> HIDE DEF good
  <2> QED
    BY <1>0, <2>1, <2>4, <2>5, WriteRight
<1>3. CASE Full(t)
  <2>1. node[t] \in Nodes
    BY <1>3, AtNode DEF Full
  <2>2. ActivationsOf(node[t])
    BY <1>3, ActivationsReady DEF Full
  <2> QED
    BY <1>0, <1>3, <2>1, <2>2, WriteRight DEF Full
<1>4. CASE dst' = dst
  BY <1>4
<1> QED
  BY <1>1, <1>2, <1>3, <1>4 DEF Step, Quantize, Quantized, Skip, Enter, AccumulateFails,
     AccumulateStarts, Tile, AccumulateReturns, Join, Branch, EpilogueDone, Leave, NextNode

LEMMA ActivatedStep ==
    ASSUME SyncInv, Activated, NEW t \in Threads, Step(t)
    PROVE  Activated'
<1> USE DEF Goto, LeaveBarrier
<1>0. /\ pc \in [Threads -> Locations] /\ node \in [Threads -> 1 .. NumNodes + 1]
      /\ wdata \in [Threads -> 0 .. NumNodes]
  BY DEF SyncInv, TypeOK
<1>1. CASE Quantize(t)
  BY <1>0, <1>1 DEF Quantize, Activated
<1>2. CASE NextNode(t)
  BY <1>0, <1>2 DEF NextNode, Activated
<1>3. CASE UNCHANGED <<node, wdata>> /\ pc[t] \notin {"quantize", "done"}
           /\ \A u \in Threads \ {t} : pc'[u] = pc[u]
  BY <1>3 DEF Activated
<1>4. CASE Quantized(t) \/ Skip(t) \/ Enter(t) \/ AccumulateFails(t) \/ AccumulateStarts(t)
           \/ Tile(t) \/ AccumulateReturns(t)
  BY <1>0, <1>3, <1>4 DEF Quantized, Skip, Enter, AccumulateFails, AccumulateStarts, Tile,
     AccumulateReturns
<1>5. CASE Share(t) \/ Join(t) \/ Branch(t) \/ Epilogue(t) \/ EpilogueDone(t) \/ Leave(t)
           \/ Full(t)
  BY <1>0, <1>3, <1>5 DEF Share, Join, Branch, Epilogue, EpilogueDone, Leave, Full
<1> QED
  BY <1>1, <1>2, <1>4, <1>5 DEF Step

LEMMA AccumulatedStep ==
    ASSUME SyncInv, Activated, Accumulated, NEW t \in Threads, Step(t)
    PROVE  Accumulated'
<1> USE DEF Goto, LeaveBarrier
<1>0. /\ pc \in [Threads -> Locations] /\ node \in [Threads -> 1 .. NumNodes + 1]
      /\ pos \in [Threads -> Nat]
      /\ 0 \in Threads
      /\ Local(t) /\ Local(0)
  <2>1. 0 \in Threads
    BY ThreadsAssumption DEF Threads
  <2> QED
    BY <2>1 DEF SyncInv, TypeOK
<1>1. CASE t # 0
  <2>1. /\ acc' = acc /\ xdnaResult' = xdnaResult
        /\ pc'[0] = pc[0] /\ node'[0] = node[0] /\ pos'[0] = pos[0]
    BY <1>0, <1>1 DEF Step, Quantize, Quantized, Skip, Enter, AccumulateFails,
       AccumulateStarts, Tile, AccumulateReturns, Share, Join, Branch, Epilogue,
       EpilogueDone, Leave, Full, NextNode, Local
  <2> QED
    BY <2>1 DEF Accumulated
<1>2. CASE t = 0 /\ AccumulateStarts(t)
  BY <1>0, <1>2 DEF AccumulateStarts, Accumulated
<1>3. CASE t = 0 /\ Tile(t)
  <2>1. node[0] \in Nodes /\ ActivationsOf(node[0])
    BY <1>0, <1>3, AtNode, ActivationsReady DEF Tile
  <2>2. /\ pos'[0] = pos[0] + kMTile /\ pc' = pc /\ node' = node
        /\ acc'.node = acc.node
        /\ acc'.rows = acc.rows \cup TileRows(pos[0], NpuTokens(node[0]))
    BY <1>0, <1>3, <2>1 DEF Tile
  <2>3. \A k \in 0 .. NpuTokens(node[0]) - 1 :
           pos[0] <= k /\ k < pos[0] + kMTile => k \in TileRows(pos[0], NpuTokens(node[0]))
    BY <1>0, <1>3, <2>1, TileRowsFact DEF Tile
  <2>4. pc[0] = "dispatch"
    BY <1>3 DEF Tile
  <2>5. NpuTokens(node[0]) \in Nat
    BY <2>1, NodeFacts
  <2> QED
    BY <1>0, <2>2, <2>3, <2>4, <2>5, kMTileAssumption DEF Accumulated
<1>4. CASE t = 0 /\ AccumulateReturns(t)
  <2>1. NpuTokens(node[0]) \in Nat
    BY <1>4, AtNode, NodeFacts DEF AccumulateReturns
  <2> QED
    BY <1>0, <1>4, <2>1 DEF AccumulateReturns, Accumulated
<1>5. CASE t = 0 /\ AccumulateFails(t)
  BY <1>0, <1>5 DEF AccumulateFails, Accumulated
<1>6. CASE t = 0 /\ (Quantize(t) \/ Quantized(t) \/ Skip(t) \/ Enter(t) \/ NextNode(t))
  BY <1>0, <1>6 DEF Quantize, Quantized, Skip, Enter, NextNode, Accumulated
<1>7. CASE t = 0 /\ (Join(t) \/ Branch(t) \/ Epilogue(t) \/ EpilogueDone(t) \/ Leave(t))
  BY <1>0, <1>7 DEF Join, Branch, Epilogue, EpilogueDone, Leave, Accumulated
<1>8. CASE t = 0 /\ Full(t)
  BY <1>0, <1>8 DEF Full, Accumulated, Local
<1>9. CASE t = 0 /\ Share(t)
  BY <1>9, <1>0 DEF Share, Local, HasShare
<1> QED
  BY <1>1, <1>2, <1>3, <1>4, <1>5, <1>6, <1>7, <1>8, <1>9 DEF Step

-----------------------------------------------------------------------------
(* Every thread's share of a node is written before it leaves the node *)

\* Right cells stay right.
LEMMA RightStays ==
    ASSUME SyncInv, Activated, Accumulated, NEW t \in Threads, Step(t),
           NEW n \in Nodes, NEW toks, NEW rows, Right(n, toks, rows)
    PROVE  Right(n, toks, rows)'
  BY WritesRight DEF Right

LEMMA WrittenByOthers ==
    ASSUME SyncInv, Activated, Accumulated, NEW t \in Threads, Step(t),
           NEW u \in Threads, u # t, Written(u),
           NEW n, n = node[u], NEW p, p = pos[u]
    PROVE  Written(u)'
<1>1. pc'[u] = pc[u] /\ node'[u] = n /\ pos'[u] = p
  BY DEF Step, Goto, LeaveBarrier, Quantize, Quantized, Skip, Enter, AccumulateFails,
     AccumulateStarts, Tile, AccumulateReturns, Share, Join, Branch, Epilogue,
     EpilogueDone, Leave, Full, NextNode, SyncInv, TypeOK
<1>2. xdnaResult' = xdnaResult \/ pc[u] \in {"qbarrier", "hook", "share", "join"}
  <2>1. CASE AccumulateFails(t) \/ AccumulateReturns(t)
    BY <2>1, AccumulateAlone DEF AccumulateFails, AccumulateReturns
  <2>2. CASE xdnaResult' = xdnaResult
    BY <2>2
  <2> QED
    BY <2>1, <2>2 DEF Step, Quantize, Quantized, Skip, Enter, AccumulateStarts, Tile, Share,
       Join, Branch, Epilogue, EpilogueDone, Leave, Full, NextNode
<1>3. CASE pc[u] = "done"
  BY <1>1, <1>3 DEF Written
<1>4. CASE pc[u] # "done"
  <2>1. n \in Nodes
    BY <1>4, AtNode
  <2>2. \A toks, rows : Right(n, toks, rows) => Right(n, toks, rows)'
    BY <2>1, RightStays
  <2> QED
    BY <1>1, <1>2, <2>2 DEF Written
<1> QED
  BY <1>3, <1>4

LEMMA WrittenBySelf ==
    ASSUME SyncInv, Activated, Accumulated, NEW t \in Threads, Step(t), Written(t),
           NEW n, n = node[t], NEW p, p = pos[t]
    PROVE  Written(t)'
<1> USE DEF Goto, LeaveBarrier
<1>0. /\ pc \in [Threads -> Locations] /\ node \in [Threads -> 1 .. NumNodes + 1]
      /\ pos \in [Threads -> Nat] /\ xdnaResult \in {0, 1}
      /\ TypeOK
      /\ Local(t)
      /\ p \in Nat
  BY DEF SyncInv, TypeOK
<1>a. pc[t] # "done" => /\ n \in Nodes
                        /\ NpuTokens(n) \in Nat /\ ne11[n] \in Nat
                        /\ \A toks, rows : Right(n, toks, rows) => Right(n, toks, rows)'
  BY AtNode, RightStays, NodeFacts
<1>1. CASE Quantize(t) \/ Quantized(t) \/ Skip(t) \/ NextNode(t)
  BY <1>0, <1>1 DEF Quantize, Quantized, Skip, NextNode, Written
<1>2. CASE Enter(t)
  <2>1. pc[t] # "done" /\ node'[t] = n /\ pc'[t] \in {"accumulate", "share", "join"}
    BY <1>0, <1>2 DEF Enter
  <2>2. pc'[t] = "share" => pos'[t] = NpuTokens(n) /\ NpuTokens(n) < ne11[n]
    BY <1>0, <1>2 DEF Enter, HasShare
  <2>3. pc'[t] = "join" => ~HasShare(t, n)
    BY <1>0, <1>2 DEF Enter
  <2> QED
    BY <1>a, <2>1, <2>2, <2>3 DEF Written, Right
<1>3. CASE AccumulateFails(t) \/ AccumulateStarts(t) \/ AccumulateReturns(t) \/ Tile(t)
  <2>1. t = 0 /\ pc'[t] \in {"join", "dispatch"}
    BY <1>0, <1>3 DEF AccumulateFails, AccumulateStarts, AccumulateReturns, Tile, Local
  <2>2. \A m : ~HasShare(t, m)
    BY <2>1 DEF HasShare
  <2> QED
    BY <2>1, <2>2 DEF Written
<1>4. CASE Share(t)
  <2> DEFINE len == GroupLen(p, ne11[n])
  <2>1. pc[t] = "share" /\ node'[t] = n /\ pos'[t] = p + len
    BY <1>0, <1>4 DEF Share
  <2>2. len \in Nat
    BY kColsAssumption DEF GroupLen
  <2>3. NpuTokens(n) <= p /\ Right(n, NpuTokens(n) .. p - 1, ShareRows(t, n))'
    BY <1>a, <2>1 DEF Written
  <2>4. /\ pc'[t] \in {"share", "join"}
        /\ pc'[t] = "join" => ne11[n] <= p + len
        /\ pc'[t] = "share" => p + len < ne11[n]
    BY <1>0, <1>4, <1>a, <2>2 DEF Share
  <2>5. \A k \in p .. p + len - 1, r \in ShareRows(t, n) :
           <<k, r>> \in Cells(n) => dst'[n][<<k, r>>] = "right"
    <3>1. Write(n, p .. p + len - 1, ShareRows(t, n), ActivationsOf(n))
      BY <1>4 DEF Share
    <3>2. ActivationsOf(n)
      BY <2>1, ActivationsReady
    <3> HIDE DEF len
    <3>3. \A c \in Cells(n) :
             c \in (p .. p + len - 1) \X ShareRows(t, n) => dst'[n][c] = "right"
      BY <1>0, <1>a, <2>1, <3>1, <3>2, WriteRight
    <3> QED
      BY <3>3
  <2> HIDE DEF len
  <2>6. Right(n, NpuTokens(n) .. p + len - 1, ShareRows(t, n))'
    BY <1>0, <1>a, <2>1, <2>2, <2>3, <2>5 DEF Right
  <2>7. pc'[t] = "join" => Right(n, NpuTokens(n) .. ne11[n] - 1, ShareRows(t, n))'
    BY <1>0, <1>a, <2>1, <2>2, <2>4, <2>6 DEF Right
  <2> QED
    BY <1>0, <1>a, <2>1, <2>2, <2>3, <2>4, <2>6, <2>7 DEF Written
<1>5. CASE Join(t)
  <2>1. pc[t] = "join" /\ pc'[t] = "branch" /\ node'[t] = n
    BY <1>0, <1>5 DEF Join
  <2> QED
    BY <1>a, <2>1 DEF Written
<1> DEFINE b == EpiBegin(t, nth, NpuTokens(n))
<1>b. pc[t] # "done" => b \in Int
  <2> SUFFICES ASSUME pc[t] # "done"
               PROVE  b \in Int
    OBVIOUS
  <2>1. t * NpuTokens(n) \in Int
    BY <1>a, ThreadsAssumption DEF Threads
  <2> QED
    BY <2>1, DivLeq, ThreadsAssumption DEF EpiBegin
<1>6. CASE Branch(t)
  <2>1. /\ pc[t] = "branch" /\ node'[t] = n
        /\ pc'[t] \in {"epilogue", "full"}
        /\ pos'[t] = b
    BY <1>0, <1>6 DEF Branch
  <2> HIDE DEF b
  <2>2. b <= b /\ Right(n, b .. b - 1, RowsOf(n))'
    BY <1>b, <2>1 DEF Right
  <2> QED
    BY <1>a, <2>1, <2>2 DEF Written, b
<1>7. CASE Epilogue(t)
  <2>1. /\ pc[t] = "epilogue" /\ pc'[t] = "epilogue" /\ node'[t] = n /\ pos'[t] = p + 1
        /\ p \in EpiShard(t, nth, NpuTokens(n))
    BY <1>0, <1>7 DEF Epilogue
  <2>2. b <= p /\ Right(n, b .. p - 1, RowsOf(n))'
    BY <1>a, <2>1 DEF Written
  <2>3. \A r \in RowsOf(n) : <<p, r>> \in Cells(n) => dst'[n][<<p, r>>] = "right"
    <3> DEFINE good == acc.node = n /\ p \in acc.rows /\ ActivationsOf(n)
    <3>1. Write(n, {p}, RowsOf(n), good)
      BY <1>7 DEF Epilogue
    <3>2. good
      BY <1>a, <2>1, ActivationsReady, AccumulatorReady, EpiTokens
    <3> HIDE DEF good
    <3>3. \A c \in Cells(n) : c \in {p} \X RowsOf(n) => dst'[n][c] = "right"
      BY <1>0, <1>a, <2>1, <3>1, <3>2, WriteRight
    <3> QED
      BY <3>3
  <2> HIDE DEF b
  <2>4. Right(n, b .. (p + 1) - 1, RowsOf(n))'
    BY <1>0, <1>b, <2>1, <2>2, <2>3 DEF Right
  <2>5. b <= p + 1
    BY <1>0, <1>b, <2>1, <2>2
  <2> QED
    BY <1>a, <2>1, <2>4, <2>5 DEF Written, b
<1>8. CASE EpilogueDone(t)
  <2>1. /\ pc[t] = "epilogue" /\ pc'[t] = "leave" /\ node'[t] = n
        /\ p \notin EpiShard(t, nth, NpuTokens(n))
    BY <1>0, <1>8 DEF EpilogueDone
  <2>2. b <= p /\ Right(n, b .. p - 1, RowsOf(n))'
    BY <1>a, <2>1 DEF Written
  <2>3. \A k \in EpiShard(t, nth, NpuTokens(n)) : k \in b .. p - 1
    <3> DEFINE e == EpiBegin(t + 1, nth, NpuTokens(n))
    <3>1. e \in Int
      <4>1. (t + 1) * NpuTokens(n) \in Int
        BY <1>a, <2>1, ThreadsAssumption DEF Threads
      <4> QED
        BY <4>1, DivLeq, ThreadsAssumption DEF EpiBegin
    <3>2. EpiShard(t, nth, NpuTokens(n)) = b .. e - 1
      BY DEF EpiShard
    <3> HIDE DEF b, e
    <3> QED
      BY <1>0, <1>b, <2>1, <2>2, <3>1, <3>2
  <2> HIDE DEF b
  <2>4. Right(n, EpiShard(t, nth, NpuTokens(n)), RowsOf(n))'
    BY <2>2, <2>3 DEF Right
  <2> QED
    BY <1>a, <2>1, <2>4 DEF Written
<1>9. CASE Leave(t)
  <2>1. /\ pc[t] = "leave" /\ pc'[t] = "end" /\ node'[t] = n /\ xdnaResult' = xdnaResult
        /\ Hooked(n) /\ xdnaResult = 1
    BY <1>0, <1>9 DEF Leave, Local
  <2> QED
    BY <1>a, <2>1 DEF Written
<1>10. CASE Full(t)
  <2>1. /\ pc[t] = "full" /\ pc'[t] = "end" /\ node'[t] = n /\ xdnaResult' = xdnaResult
        /\ Hooked(n) => xdnaResult = 0
    BY <1>0, <1>10 DEF Full, Local
  <2>2. Right(n, TokensOf(n), FullRows(t, n))'
    <3>1. Write(n, TokensOf(n), FullRows(t, n), ActivationsOf(n))
      BY <1>10 DEF Full
    <3>2. ActivationsOf(n)
      BY <2>1, ActivationsReady
    <3>3. \A c \in Cells(n) : c \in TokensOf(n) \X FullRows(t, n) => dst'[n][c] = "right"
      BY <1>0, <1>a, <2>1, <3>1, <3>2, WriteRight
    <3> QED
      BY <3>3 DEF Right
  <2> QED
    BY <1>a, <2>1, <2>2 DEF Written
<1> QED
  BY <1>1, <1>2, <1>3, <1>4, <1>5, <1>6, <1>7, <1>8, <1>9, <1>10 DEF Step

-----------------------------------------------------------------------------
(* The shares of all threads make up the node's output *)

\* When every thread waits at the end of a node, every cell of it is right.
LEMMA SharesCover ==
    ASSUME SyncInv, NEW n \in Nodes,
           \A u \in Threads : pc[u] = "end" /\ node[u] = n /\ Written(u)
    PROVE  \A c \in Cells(n) : dst[n][c] = "right"
<1> SUFFICES ASSUME NEW k \in TokensOf(n), NEW r \in RowsOf(n)
             PROVE  dst[n][<<k, r>>] = "right"
  BY DEF Cells
<1>1. /\ ne11[n] \in Nat /\ ne01[n] \in Nat /\ ne01[n] % kCols = 0
      /\ NpuTokens(n) \in 0 .. ne11[n]
      /\ nth = 1 => NpuTokens(n) = ne11[n]
      /\ nth \in Nat \ {0}
      /\ <<k, r>> \in Cells(n)
  BY NodeFacts, ThreadsAssumption DEF Cells
<1>2. k \in 0 .. ne11[n] - 1 /\ r \in 0 .. ne01[n] - 1
  BY DEF TokensOf, RowsOf
\* Converted by the epilogue.
<1>3. CASE Hooked(n) /\ xdnaResult = 1 /\ k < NpuTokens(n)
  <2>1. PICK i \in 0 .. nth - 1 : k \in EpiShard(i, nth, NpuTokens(n))
    BY <1>1, <1>2, <1>3, EpiShardsPartitionTokens
  <2>2. i \in Threads
    BY <2>1 DEF Threads
  <2>3. Right(n, EpiShard(i, nth, NpuTokens(n)), RowsOf(n))
    BY <1>3, <2>2 DEF Written
  <2> QED
    BY <1>1, <2>1, <2>3 DEF Right
\* Computed by the CPU share.
<1>4. CASE Hooked(n) /\ xdnaResult = 1 /\ NpuTokens(n) <= k
  <2>1. nth - 1 \in Nat \ {0} /\ NpuTokens(n) < ne11[n]
    BY <1>1, <1>2, <1>4
  <2>2. PICK i \in 0 .. (nth - 1) - 1 : r \in RowShard(i, nth - 1, ne01[n])
    <3>1. ASSUME NEW team \in Nat \ {0}
          PROVE  \E i \in 0 .. team - 1 : r \in RowShard(i, team, ne01[n])
      BY <1>1, <1>2, RowShardsPartitionRows
    <3> QED
      BY ONLY <2>1, <3>1
  <2>3. i + 1 \in Threads /\ i + 1 # 0 /\ (i + 1) - 1 = i
    BY <1>1, <2>2 DEF Threads
  <2>4. r \in ShareRows(i + 1, n)
    BY <2>2, <2>3 DEF ShareRows
  <2>5. HasShare(i + 1, n)
    BY <2>1, <2>3, <2>4 DEF HasShare
  <2>6. Right(n, NpuTokens(n) .. ne11[n] - 1, ShareRows(i + 1, n))
    BY <1>4, <2>3, <2>5 DEF Written
  <2>7. k \in NpuTokens(n) .. ne11[n] - 1
    BY <1>1, <1>2, <1>4
  <2> QED
    BY <1>1, <2>4, <2>6, <2>7 DEF Right
\* Computed by the CPU path for the whole batch.
<1>5. CASE ~(Hooked(n) /\ xdnaResult = 1)
  <2>1. PICK i \in 0 .. nth - 1 : r \in RowShard(i, nth, ne01[n])
    BY <1>1, <1>2, RowShardsPartitionRows
  <2>2. i \in Threads /\ r \in FullRows(i, n)
    BY <2>1 DEF Threads, FullRows
  <2>3. Right(n, TokensOf(n), FullRows(i, n))
    BY <1>5, <2>2 DEF Written
  <2> QED
    BY <1>1, <2>2, <2>3 DEF Right
<1> QED
  BY <1>1, <1>2, <1>3, <1>4, <1>5

\* The first thread to leave a node leaves it complete.
LEMMA CompleteAtEnd ==
    ASSUME IInv, NEW t \in Threads, NextNode(t)
    PROVE  /\ node[t] \in Nodes
           /\ \A c \in Cells(node[t]) : dst[node[t]][c] = "right"
<1>1. SyncInv /\ node[t] \in Nodes /\ pc[t] = "end"
  BY AtNode DEF IInv, NextNode, LeaveBarrier
<1>2. CASE \E u \in Threads : node[u] > node[t]
  BY <1>1, <1>2 DEF IInv, Complete
<1>3. CASE \A u \in Threads : ~(node[u] > node[t])
  <2>1. ASSUME NEW u \in Threads
        PROVE  pc[u] = "end" /\ node[u] = node[t] /\ Written(u)
    <3>1. passed[u] > passed[t] \/ (passed[u] = passed[t] /\ pc[u] \in Barriers)
      BY DEF NextNode, LeaveBarrier, Barrier
    <3>2. ~(passed[u] > passed[t])
      <4>1. passed[u] > passed[t] => node[u] = node[t] + 1
        BY <1>1 DEF SyncInv, TypeOK, Lockstep, NextSection
      <4>2. node[t] \in Nat
        BY <1>1 DEF SyncInv, TypeOK
      <4> QED
        BY <1>3, <4>1, <4>2
    <3>3. pc[u] = "end" /\ node[u] = node[t]
      BY <1>1, <3>1, <3>2, WaitTogether DEF Barriers
    <3> QED
      BY <3>3 DEF IInv
  <2> QED
    BY <1>1, <2>1, SharesCover
<1> QED
  BY <1>1, <1>2, <1>3

LEMMA CompleteStep ==
    ASSUME IInv, NEW t \in Threads, Step(t)
    PROVE  Complete'
<1> SUFFICES ASSUME NEW n \in Nodes, NEW u \in Threads, node'[u] > n, NEW c \in Cells(n)
             PROVE  dst'[n][c] = "right"
  BY DEF Complete
<1>1. SyncInv /\ Activated /\ Accumulated /\ Complete
  BY DEF IInv, DataInv
<1>2. dst[n][c] = "right" => dst'[n][c] = "right"
  BY <1>1, WritesRight
<1>3. CASE node[u] > n
  BY <1>1, <1>2, <1>3 DEF Complete
<1>4. CASE ~(node[u] > n)
  <2>1. NextNode(t) /\ u = t
    <3>1. node'[u] # node[u]
      BY <1>4
    <3>2. NextNode(t)
      BY <3>1 DEF Step, Quantize, Quantized, Skip, Enter, AccumulateFails, AccumulateStarts,
         Tile, AccumulateReturns, Share, Join, Branch, Epilogue, EpilogueDone, Leave, Full
    <3> QED
      BY <1>1, <3>1, <3>2 DEF NextNode, SyncInv, TypeOK
  <2>2. node'[t] = node[t] + 1 /\ node[t] \in Nat /\ n \in Nat
    BY <1>1, <2>1, NodesFact DEF NextNode, SyncInv, TypeOK
  <2>3. node[t] = n
    BY <1>4, <2>1, <2>2
  <2> QED
    BY <1>2, <2>1, <2>3, CompleteAtEnd
<1> QED
  BY <1>3, <1>4

-----------------------------------------------------------------------------
(* The inductive invariant is one *)

LEMMA InitInv == Init => IInv
<1> SUFFICES ASSUME Init
             PROVE  IInv
  OBVIOUS
<1>0. 0 \in Threads
  BY ThreadsAssumption DEF Threads
<1>1. TypeOK
  BY NodesFact DEF Init, TypeOK, Locations
<1>2. /\ \A t \in Threads : pc[t] \in {"quantize", "done"} /\ passed[t] = 0 /\ node[t] = 1
      /\ \A t \in Threads : pc[t] = "done" <=> NumNodes = 0
  BY DEF Init
<1>3. \A t \in Threads : Local(t)
  BY <1>2, NodesFact DEF Local
<1>4. Lockstep
  BY <1>2 DEF Lockstep, Section
<1>5. Activated /\ Accumulated
  BY <1>0, <1>2 DEF Activated, Accumulated
<1>6. DstNeverWrong
  BY DEF Init, DstNeverWrong
<1>7. \A t \in Threads : Written(t)
  BY <1>2 DEF Written
<1>8. Complete
  BY <1>2, NodesFact DEF Complete
<1> QED
  BY <1>1, <1>3, <1>4, <1>5, <1>6, <1>7, <1>8 DEF IInv, SyncInv, DataInv

LEMMA StepInv ==
    ASSUME IInv, NEW t \in Threads, Step(t)
    PROVE  IInv'
<1>1. SyncInv /\ Activated /\ Accumulated /\ DstNeverWrong
  BY DEF IInv, DataInv
<1>2. SyncInv'
  BY <1>1, SyncStep
<1>3. Activated' /\ Accumulated'
  BY <1>1, ActivatedStep, AccumulatedStep
<1>4. DstNeverWrong'
  BY <1>1, WritesRight DEF DstNeverWrong
<1>5. ASSUME NEW u \in Threads
      PROVE  Written(u)'
  BY <1>1, WrittenByOthers, WrittenBySelf DEF IInv
<1>6. Complete'
  BY CompleteStep
<1> QED
  BY <1>2, <1>3, <1>4, <1>5, <1>6 DEF IInv, DataInv

LEMMA NextInv == IInv /\ [Next]_vars => IInv'
<1> SUFFICES ASSUME IInv, [Next]_vars
             PROVE  IInv'
  OBVIOUS
<1>1. CASE \E t \in Threads : Step(t)
  BY <1>1, StepInv
<1>2. CASE UNCHANGED vars
  BY <1>2 DEF vars, IInv, SyncInv, DataInv, TypeOK, Local, Lockstep, NextSection, Section,
     Activated, Accumulated, DstNeverWrong, Written, Right, Complete
<1> QED
  BY <1>1, <1>2 DEF Next, Finished

\* The invariant the theorems below follow from.
THEOREM Invariance == Spec => []IInv
  BY InitInv, NextInv, PTL DEF Spec

-----------------------------------------------------------------------------
(* Theorems *)

\* The variables of Offload keep their types; in particular accumulate never
\* writes accumulator rows of tokens the batch does not have.
THEOREM TypeCorrect == Spec => []TypeOK
<1>1. IInv => TypeOK
  BY DEF IInv, SyncInv
<1> QED
  BY <1>1, Invariance, PTL

\* For any number of threads, the pool never slips by a barrier: threads that
\* wait for each other wait at the same call of ggml_barrier, on the same node.
THEOREM BarriersMatch == Spec => []SameBarrier
<1>1. IInv => SameBarrier
  BY WaitTogether DEF IInv, SameBarrier
<1> QED
  BY <1>1, Invariance, PTL

\* Whatever fails and however the threads interleave, no output cell is written
\* from another node's activations or accumulators.
THEOREM NeverWrong == Spec => []DstNeverWrong
<1>1. IInv => DstNeverWrong
  BY DEF IInv, DataInv
<1> QED
  BY <1>1, Invariance, PTL

\* The accumulator and xdna_result are stable while any thread is between the
\* join and the end of its epilogue: what the second barrier of the hook is for.
THEOREM ResultIsHeld == Spec => ResultHeld
<1>1. ASSUME IInv, NEW t \in Threads, Step(t), acc' # acc \/ xdnaResult' # xdnaResult,
             NEW u \in Threads
      PROVE  pc[u] \notin {"branch", "epilogue"}
  <2>1. pc[t] \in {"accumulate", "dispatch"}
    BY <1>1 DEF Step, Quantize, Quantized, Skip, Enter, AccumulateFails, AccumulateStarts,
       Tile, AccumulateReturns, Share, Join, Branch, Epilogue, EpilogueDone, Leave, Full,
       NextNode, LeaveBarrier
  <2>2. CASE u = t
    BY <2>1, <2>2
  <2>3. CASE u # t
    BY <1>1, <2>1, <2>3, AccumulateAlone DEF IInv
  <2> QED
    BY <2>2, <2>3
<1>2. IInv /\ [Next]_vars =>
         [acc' # acc \/ xdnaResult' # xdnaResult =>
             \A t \in Threads : pc[t] \notin {"branch", "epilogue"}]_vars
  BY <1>1 DEF Next, Finished, vars
<1> QED
  BY <1>2, Invariance, PTL DEF Spec, ResultHeld

\* The work buffer keeps a node's activations until the last thread that computes
\* from them is done: no thread quantizes the next node before.
THEOREM WorkBufferIsHeld == Spec => WorkBufferHeld
<1>1. ASSUME IInv, NEW t \in Threads, Step(t), wdata' # wdata, NEW u \in Threads
      PROVE  pc[u] \notin {"hook", "accumulate", "dispatch", "share", "branch", "epilogue", "full"}
  <2>1. pc[t] = "quantize"
    BY <1>1 DEF Step, Quantize, Quantized, Skip, Enter, AccumulateFails, AccumulateStarts,
       Tile, AccumulateReturns, Share, Join, Branch, Epilogue, EpilogueDone, Leave, Full,
       NextNode
  <2>2. /\ Lockstep /\ Section(t) = 1 /\ pc[t] \notin Barriers
        /\ passed[t] \in Nat /\ passed[u] \in Nat /\ xdnaResult \in {0, 1}
    BY <1>1, <2>1 DEF IInv, SyncInv, TypeOK, Section, Barriers
  <2>3. CASE passed[u] = passed[t]
    <3>1. Section(u) = 1
      BY <2>2, <2>3 DEF Lockstep
    <3> QED
      BY <3>1 DEF Section
  <2>4. CASE passed[u] < passed[t]
    BY <2>2, <2>4 DEF Lockstep, Barriers
  <2>5. CASE passed[t] < passed[u]
    BY <2>2, <2>5 DEF Lockstep
  <2> QED
    BY <2>2, <2>3, <2>4, <2>5
<1>2. IInv /\ [Next]_vars =>
         [wdata' # wdata =>
             \A t \in Threads : pc[t] \notin {"hook", "accumulate", "dispatch", "share",
                                              "branch", "epilogue", "full"}]_vars
  BY <1>1 DEF Next, Finished, vars
<1> QED
  BY <1>2, Invariance, PTL DEF Spec, WorkBufferHeld

-----------------------------------------------------------------------------
(* Disjoint writes *)

\* Two threads that write at the same time do so on the same path.
LEMMA SamePath ==
    ASSUME IInv, NEW t \in Threads, NEW u \in Threads, node[t] = node[u],
           pc[t] \in {"share", "epilogue", "full"}, pc[u] \in {"share", "epilogue", "full"}
    PROVE  pc[t] = pc[u]
<1>1. /\ Lockstep /\ Local(t) /\ Local(u)
      /\ passed[t] \in Nat /\ passed[u] \in Nat /\ xdnaResult \in {0, 1}
  BY DEF IInv, SyncInv, TypeOK
<1>2. pc[t] \notin Barriers /\ pc[u] \notin Barriers
  BY DEF Barriers
<1>3. passed[t] = passed[u]
  BY <1>1, <1>2 DEF Lockstep
<1>4. Section(t) = Section(u)
  BY <1>1, <1>3 DEF Lockstep
<1> QED
  BY <1>1, <1>4 DEF Section, Local

\* The rows of two threads, and the tokens of their epilogues, are disjoint and
\* within the output.
LEMMA ShardsOfThreads ==
    ASSUME NEW n \in Nodes, NEW t \in Threads
    PROVE  /\ FullRows(t, n) \subseteq RowsOf(n)
           /\ EpiShard(t, nth, NpuTokens(n)) \subseteq TokensOf(n)
           /\ t # 0 => ShareRows(t, n) \subseteq RowsOf(n)
           /\ \A u \in Threads : u # t =>
                 /\ FullRows(t, n) \cap FullRows(u, n) = {}
                 /\ EpiShard(t, nth, NpuTokens(n)) \cap EpiShard(u, nth, NpuTokens(n)) = {}
                 /\ t # 0 /\ u # 0 => ShareRows(t, n) \cap ShareRows(u, n) = {}
<1>1. /\ ne11[n] \in Nat /\ ne01[n] \in Nat /\ ne01[n] % kCols = 0
      /\ NpuTokens(n) \in 0 .. ne11[n]
      /\ nth \in Nat \ {0}
      /\ t \in 0 .. nth - 1
  BY NodeFacts, ThreadsAssumption DEF Threads
<1>2. /\ FullRows(t, n) \subseteq RowsOf(n)
      /\ \A u \in Threads : u # t => FullRows(t, n) \cap FullRows(u, n) = {}
  BY <1>1, RowShardsPartitionRows DEF Threads, FullRows, RowsOf
<1>3. /\ EpiShard(t, nth, NpuTokens(n)) \subseteq 0 .. NpuTokens(n) - 1
      /\ \A u \in Threads : u # t =>
            EpiShard(t, nth, NpuTokens(n)) \cap EpiShard(u, nth, NpuTokens(n)) = {}
  <2>1. NpuTokens(n) \in Nat
    BY <1>1
  <2> QED
    BY <1>1, <2>1, EpiShardsPartitionTokens DEF Threads
<1>4. EpiShard(t, nth, NpuTokens(n)) \subseteq TokensOf(n)
  BY <1>1, <1>3 DEF TokensOf
<1>5. ASSUME t # 0
      PROVE  /\ ShareRows(t, n) \subseteq RowsOf(n)
             /\ \A u \in Threads : u # t /\ u # 0 => ShareRows(t, n) \cap ShareRows(u, n) = {}
  <2>1. ASSUME NEW team \in Nat \ {0}
        PROVE  /\ \A i \in 0 .. team - 1 : RowShard(i, team, ne01[n]) \subseteq 0 .. ne01[n] - 1
               /\ \A i, j \in 0 .. team - 1 : i # j =>
                     RowShard(i, team, ne01[n]) \cap RowShard(j, team, ne01[n]) = {}
    BY <1>1, RowShardsPartitionRows
  <2>2. nth - 1 \in Nat \ {0} /\ \A u \in Threads : u # 0 => u - 1 \in 0 .. (nth - 1) - 1
    BY <1>1, <1>5 DEF Threads
  <2>3. \A u \in Threads : u # t => u - 1 # t - 1
    BY <1>1 DEF Threads
  <2> DEFINE team == nth - 1
  <2> HIDE DEF team
  <2>4. /\ \A i \in 0 .. team - 1 : RowShard(i, team, ne01[n]) \subseteq 0 .. ne01[n] - 1
        /\ \A i, j \in 0 .. team - 1 : i # j =>
              RowShard(i, team, ne01[n]) \cap RowShard(j, team, ne01[n]) = {}
    BY <2>1, <2>2 DEF team
  <2>5. \A u \in Threads : u # 0 => u - 1 \in 0 .. team - 1
    BY <2>2 DEF team
  <2>6. \A u \in Threads : ShareRows(u, n) = RowShard(u - 1, team, ne01[n])
    BY DEF ShareRows, team
  <2> QED
    BY <1>5, <2>3, <2>4, <2>5, <2>6 DEF RowsOf
<1> QED
  BY <1>2, <1>3, <1>4, <1>5

\* No two threads ever write the same cell of the output, and none writes outside
\* it, on the NPU path, the fall-through and the CPU path.
THEOREM WritesAreDisjoint == Spec => []OneWriter
<1>1. ASSUME IInv, NEW t \in Threads, NEW n \in Nodes, n = node[t], NEW p, p = pos[t]
      PROVE  NextCells(t) \subseteq Cells(n)
  <2>1. /\ FullRows(t, n) \subseteq RowsOf(n)
        /\ EpiShard(t, nth, NpuTokens(n)) \subseteq TokensOf(n)
        /\ t # 0 => ShareRows(t, n) \subseteq RowsOf(n)
    BY ShardsOfThreads
  <2>2. CASE pc[t] = "share"
    <3>1. /\ t # 0 /\ p < ne11[n] /\ p \in Nat /\ ne11[n] \in Nat
      BY <1>1, <2>2, NodeFacts DEF IInv, SyncInv, TypeOK, Local, HasShare, Written
    <3>2. p .. p + GroupLen(p, ne11[n]) - 1 \subseteq TokensOf(n)
      BY <3>1, kColsAssumption DEF GroupLen, TokensOf
    <3>3. NextCells(t) = (p .. p + GroupLen(p, ne11[n]) - 1) \X ShareRows(t, n)
      BY <1>1, <2>2 DEF NextCells
    <3> QED
      BY <2>1, <3>1, <3>2, <3>3 DEF Cells
  <2>3. CASE pc[t] = "epilogue"
    BY <1>1, <2>1, <2>3 DEF NextCells, Cells
  <2>4. CASE pc[t] = "full"
    BY <1>1, <2>1, <2>4 DEF NextCells, Cells
  <2> QED
    BY <2>2, <2>3, <2>4 DEF NextCells
<1>2. ASSUME IInv, NEW t \in Threads, NEW u \in Threads, t # u,
             NEW n, n = node[t], n = node[u], NEW p, p = pos[t], NEW q, q = pos[u]
      PROVE  NextCells(t) \cap NextCells(u) = {}
  <2>1. CASE pc[t] \notin {"share", "epilogue", "full"} \/ pc[u] \notin {"share", "epilogue", "full"}
    BY <2>1 DEF NextCells
  <2>2. CASE pc[t] \in {"share", "epilogue", "full"} /\ pc[u] \in {"share", "epilogue", "full"}
    <3>1. pc[t] = pc[u]
      BY <1>2, <2>2, SamePath
    <3>2. n \in Nodes /\ Local(t) /\ Local(u)
      BY <1>2, <2>2, AtNode DEF IInv, SyncInv
    <3>3. /\ FullRows(t, n) \cap FullRows(u, n) = {}
          /\ EpiShard(t, nth, NpuTokens(n)) \cap EpiShard(u, nth, NpuTokens(n)) = {}
          /\ t # 0 /\ u # 0 => ShareRows(t, n) \cap ShareRows(u, n) = {}
      BY <1>2, <3>2, ShardsOfThreads
    <3>4. CASE pc[t] = "share"
      <4>1. t # 0 /\ u # 0
        BY <3>1, <3>2, <3>4 DEF Local, HasShare
      <4> QED
        BY <1>2, <3>1, <3>3, <3>4, <4>1 DEF NextCells
    <3>5. CASE pc[t] = "epilogue"
      BY <1>2, <3>1, <3>3, <3>5 DEF NextCells
    <3>6. CASE pc[t] = "full"
      BY <1>2, <3>1, <3>3, <3>6 DEF NextCells
    <3> QED
      BY <2>2, <3>4, <3>5, <3>6
  <2> QED
    BY <2>1, <2>2
<1>3. IInv => OneWriter
  BY <1>1, <1>2 DEF OneWriter
<1> QED
  BY <1>3, Invariance, PTL

-----------------------------------------------------------------------------
(* Refinement *)

\* Only the last thread to leave a node changes what is seen of the output, and
\* it shows that node complete, after all the nodes before it.
LEMMA StepRefines ==
    ASSUME IInv, NEW t \in Threads, Step(t)
    PROVE  [Atomic!Next]_Visible
<1>1. /\ SyncInv /\ IInv'
      /\ node \in [Threads -> 1 .. NumNodes + 1]
      /\ \A n \in Nodes : dst[n] \in [Cells(n) -> {"none", "right", "wrong"}]
      /\ \A n \in Nodes : dst'[n] \in [Cells(n) -> {"none", "right", "wrong"}]
  BY StepInv DEF IInv, SyncInv, TypeOK
<1> DEFINE Seen(n) == \A u \in Threads : node[u] > n
           Whole(n) == [c \in Cells(n) |-> "right"]
           Blank(n) == [c \in Cells(n) |-> "none"]
<1>2. 0 \in Threads
  BY ThreadsAssumption DEF Threads
<1>3. ASSUME NEW n \in Nodes
      PROVE  /\ Visible[n] = IF Seen(n) THEN Whole(n) ELSE Blank(n)
             /\ Visible'[n] = IF Seen(n)' THEN Whole(n) ELSE Blank(n)
  <2>1. Seen(n) => dst[n] = Whole(n)
    BY <1>1, <1>2 DEF IInv, Complete
  <2>2. Seen(n)' => dst'[n] = Whole(n)
    BY <1>1, <1>2 DEF IInv, Complete
  <2> QED
    BY <2>1, <2>2 DEF Visible
<1> HIDE DEF Whole, Blank
<1>4. CASE node' = node
  <2>1. \A n \in Nodes : Visible'[n] = Visible[n]
    BY <1>3, <1>4
  <2>2. Visible' = Visible
    BY <2>1 DEF Visible
  <2> QED
    BY <2>2
<1>5. CASE NextNode(t)
  <2>m. PICK m : m = node[t]
    OBVIOUS
  <2>1. m \in Nodes /\ pc[t] = "end" /\ node' = [node EXCEPT ![t] = m + 1]
    BY <1>1, <1>5, <2>m, AtNode DEF NextNode, LeaveBarrier
  <2>2. m \in Nat /\ Nodes \subseteq Nat
    BY <2>1, NodesFact
  <2>3. ~Seen(m)
    BY <2>2, <2>m
  <2>4. ASSUME NEW n \in Nodes, n # m
        PROVE  Seen(n)' <=> Seen(n)
    <3>1. ASSUME NEW u \in Threads
          PROVE  node'[u] > n <=> node[u] > n
      BY <1>1, <2>1, <2>2, <2>4, <2>m
    <3> QED
      BY <3>1
  <2>5. CASE ~Seen(m)'
    <3>1. \A n \in Nodes : Visible'[n] = Visible[n]
      BY <1>3, <2>3, <2>4, <2>5
    <3>2. Visible' = Visible
      BY <3>1 DEF Visible
    <3> QED
      BY <3>2
  <2>6. CASE Seen(m)'
    <3>1. ASSUME NEW k \in 1 .. m - 1
          PROVE  k \in Nodes /\ Visible[k] = Whole(k)
      <4>1. k \in Nodes /\ k < m
        BY <2>1, <2>2, NodesFact
      <4>2. ASSUME NEW u \in Threads
            PROVE  node[u] > k
        BY <1>1, <2>1, <2>2, <2>6, <4>1, <2>m, NodesFact
      <4> QED
        BY <1>3, <4>1, <4>2
    <3>2. Visible[m] = Blank(m) /\ Visible'[m] = Whole(m)
      BY <1>3, <2>1, <2>3, <2>6
    <3>3. \A n \in Nodes : n # m => Visible'[n] = Visible[n]
      BY <1>3, <2>4
    <3>4. Visible' = [Visible EXCEPT ![m] = Whole(m)]
      BY <2>1, <3>2, <3>3 DEF Visible
    <3>5. CASE Visible[m] = Whole(m)
      <4>1. Visible' = Visible
        BY <3>2, <3>3, <3>5 DEF Visible
      <4> QED
        BY <4>1
    <3>6. CASE Visible[m] # Whole(m)
      <4>1. Atomic!Compute(m)
        BY <3>1, <3>4, <3>6 DEF Atomic!Compute, Atomic!Computed, Atomic!Filled, Whole
      <4>2. m \in Atomic!Nodes
        BY <2>1 DEF Nodes, Atomic!Nodes
      <4> QED
        BY <4>1, <4>2 DEF Atomic!Next
    <3> QED
      BY <3>5, <3>6
  <2> QED
    BY <2>5, <2>6
<1> QED
  BY <1>4, <1>5 DEF Step, Quantize, Quantized, Skip, Enter, AccumulateFails, AccumulateStarts,
     Tile, AccumulateReturns, Share, Join, Branch, Epilogue, EpilogueDone, Leave, Full

\* For any threadpool, graph and knobs, the offloaded computation implements the
\* atomic mul_mat: the safety part of ImplementsAtomic.
THEOREM RefinesAtomic == Spec => Atomic!Init /\ [][Atomic!Next]_Visible
<1>1. Init => Atomic!Init
  <2> SUFFICES ASSUME Init
               PROVE  Visible = [n \in Nodes |-> [c \in Cells(n) |-> "none"]]
    BY DEF Atomic!Init, Atomic!Nodes, Atomic!Filled, Nodes
  <2>1. ASSUME NEW n \in Nodes
        PROVE  ~(\A t \in Threads : node[t] > n)
    <3>1. 0 \in Threads
      BY ThreadsAssumption DEF Threads
    <3>2. node[0] = 1 /\ ~(1 > n)
      BY <3>1, NodesFact DEF Init
    <3> QED
      BY <3>1, <3>2
  <2> QED
    BY <2>1 DEF Visible
<1>2. IInv /\ [Next]_vars => [Atomic!Next]_Visible
  <2>1. UNCHANGED vars => UNCHANGED Visible
    BY DEF vars, Visible
  <2> QED
    BY <2>1, StepRefines DEF Next, Finished
<1> QED
  BY <1>1, <1>2, Invariance, PTL DEF Spec

=============================================================================
