------------------------------ MODULE Offload -------------------------------
(***************************************************************************)
(* The offload hook that patches/001-bitnet-xdna.patch puts into           *)
(* ggml_compute_forward_mul_mat, run by every thread of one ggml           *)
(* threadpool for the I2_S mul_mat nodes of a graph.                       *)
(*                                                                         *)
(* Thread 0 drives the NPU over the first TNpu tokens while the others     *)
(* compute the rest on the CPU; a barrier joins them; they read whether    *)
(* the NPU succeeded from a process-wide atomic and either convert the     *)
(* accumulators together or fall through to the CPU path for everything.   *)
(*                                                                         *)
(* Data are abstract.  A buffer records which node its content belongs to; *)
(* an output cell is "none", "right" or "wrong" ("wrong": computed from    *)
(* activations or accumulators of something else than its node).           *)
(***************************************************************************)
EXTENDS TokenSplit, FiniteSets

CONSTANTS
    nth,            \* threads of the pool
    NumNodes,       \* I2_S mul_mat nodes of the graph
    ne00,           \* node -> K
    ne01,           \* node -> N, the rows of the weight tensor
    ne11,           \* node -> tokens of the batch
    Available,      \* bitnet_xdna_available()
    MinTokensEnv,   \* BITNET_XDNA_MIN_TOKENS
    Knobs           \* BITNET_XDNA_TILES and BITNET_XDNA_SPLIT, as TokenSplit has them

Nodes == 1 .. NumNodes
Threads == 0 .. nth - 1

ASSUME ThreadsAssumption == nth \in Nat \ {0}
ASSUME GraphAssumption == /\ NumNodes \in Nat
                          /\ ne00 \in [Nodes -> Nat]
                          /\ ne01 \in [Nodes -> Nat]
                          /\ ne11 \in [Nodes -> Nat]
\* Every I2_S tensor has a multiple of 4 rows: the CPU kernels shard by 4.
ASSUME RowsAssumption == \A n \in Nodes : ne01[n] % kCols = 0
ASSUME KnobsAssumption == /\ Available \in BOOLEAN
                          /\ MinTokensEnv \in Nat
                          /\ Knobs.tiles \in Int
                          /\ Knobs.num \in Nat
                          /\ Knobs.den \in Nat \ {0}

VARIABLES
    pc,          \* where each thread is
    node,        \* the graph node each thread works on
    pos,         \* loop variable of each thread: a token, or the tile start t0
    passed,      \* how many barriers each thread has left
    xdnaResult,  \* static _Atomic int xdna_result
    acc,         \* g_acc: the node whose accumulate wrote it last, and the rows written
    wdata,       \* thread -> the node whose activations its part of params->wdata holds
    dst          \* node -> cell of the output -> what has been written there

vars == <<pc, node, pos, passed, xdnaResult, acc, wdata, dst>>

-----------------------------------------------------------------------------
TokensOf(n) == 0 .. ne11[n] - 1
RowsOf(n) == 0 .. ne01[n] - 1
Cells(n) == TokensOf(n) \X RowsOf(n)

NpuTokens(n) == TNpu(ne11[n], nth, Knobs)

\* The test of the hook: every thread evaluates it and gets the same answer.
Hooked(n) == /\ Available
             /\ WorthIt(ne11[n], MinTokensEnv)
             /\ Supports(ne00[n], ne01[n])
             /\ NpuTokens(n) > 0

\* Rows of the CPU share: threads 1 .. nth - 1 form a team of nth - 1.
ShareRows(t, n) == RowShard(t - 1, nth - 1, ne01[n])
FullRows(t, n) == RowShard(t, nth, ne01[n])

Locations == {"quantize", "qbarrier", "hook", "accumulate", "dispatch", "share",
              "join", "branch", "epilogue", "leave", "full", "end", "done"}
Barriers == {"qbarrier", "join", "leave", "end"}

TypeOK == /\ pc \in [Threads -> Locations]
          /\ node \in [Threads -> 1 .. NumNodes + 1]
          /\ pos \in [Threads -> Nat]
          /\ passed \in [Threads -> Nat]
          /\ xdnaResult \in {0, 1}
          /\ acc \in [node : 0 .. NumNodes, rows : SUBSET Nat]
          /\ acc.node \in Nodes => acc.rows \subseteq TokensOf(acc.node)
          /\ wdata \in [Threads -> 0 .. NumNodes]
          /\ DOMAIN dst = Nodes
          /\ \A n \in Nodes : dst[n] \in [Cells(n) -> {"none", "right", "wrong"}]

Init == /\ pc = [t \in Threads |-> IF NumNodes = 0 THEN "done" ELSE "quantize"]
        /\ node = [t \in Threads |-> 1]
        /\ pos = [t \in Threads |-> 0]
        /\ passed = [t \in Threads |-> 0]
        /\ xdnaResult = 0
        /\ acc = [node |-> 0, rows |-> {}]
        /\ wdata = [t \in Threads |-> 0]
        /\ dst = [n \in Nodes |-> [c \in Cells(n) |-> "none"]]

-----------------------------------------------------------------------------
(* Helpers of the actions *)

Goto(t, loc) == pc' = [pc EXCEPT ![t] = loc]

\* The quantized activations of node n are complete in the work buffer.
ActivationsOf(n) == \A t \in Threads : wdata[t] = n

\* Output cells written from sources that are, or are not, those of node n.
Write(n, toks, rows, good) ==
    dst' = [dst EXCEPT ![n] = [c \in Cells(n) |->
                IF c \in toks \X rows THEN (IF good THEN "right" ELSE "wrong")
                                      ELSE dst[n][c]]]

\* ggml_barrier: a thread leaves it once every thread has entered it, or has
\* even left it.  Which call site a thread waits at makes no difference.
Barrier(t) == \A u \in Threads :
                 \/ passed[u] > passed[t]
                 \/ passed[u] = passed[t] /\ pc[u] \in Barriers

LeaveBarrier(t, from, to) ==
    /\ pc[t] = from
    /\ Barrier(t)
    /\ passed' = [passed EXCEPT ![t] = @ + 1]
    /\ Goto(t, to)

-----------------------------------------------------------------------------
(* Before the hook: the activations are quantized by all threads *)

Quantize(t) ==
    /\ pc[t] = "quantize"
    /\ wdata' = [wdata EXCEPT ![t] = node[t]]
    /\ Goto(t, "qbarrier")
    /\ UNCHANGED <<node, pos, passed, xdnaResult, acc, dst>>

Quantized(t) ==
    /\ LeaveBarrier(t, "qbarrier", "hook")
    /\ UNCHANGED <<node, pos, xdnaResult, acc, wdata, dst>>

-----------------------------------------------------------------------------
(* The hook *)

\* Not eligible: straight to the CPU path.
Skip(t) ==
    /\ pc[t] = "hook"
    /\ ~Hooked(node[t])
    /\ Goto(t, "full")
    /\ UNCHANGED <<node, pos, passed, xdnaResult, acc, wdata, dst>>

\* Eligible: thread 0 calls accumulate, a thread with rows in a non-empty CPU
\* share starts at its first token, and any other thread has nothing to compute.
HasShare(t, n) == /\ t # 0
                  /\ NpuTokens(n) < ne11[n]
                  /\ ShareRows(t, n) # {}

Enter(t) ==
    LET n == node[t] IN
    /\ pc[t] = "hook"
    /\ Hooked(n)
    /\ Goto(t, IF t = 0 THEN "accumulate" ELSE IF HasShare(t, n) THEN "share" ELSE "join")
    /\ pos' = [pos EXCEPT ![t] = IF t = 0 THEN 0 ELSE NpuTokens(n)]
    /\ UNCHANGED <<node, passed, xdnaResult, acc, wdata, dst>>

\* bitnet_xdna_accumulate returns 0 and the hook stores it: the tensor is not
\* resident (nothing is touched) or a dispatch threw (the tiles before it stay
\* in the accumulator).
AccumulateFails(t) ==
    /\ pc[t] \in {"accumulate", "dispatch"}
    /\ pc[t] = "dispatch" => pos[t] < NpuTokens(node[t])
    /\ xdnaResult' = 0
    /\ Goto(t, "join")
    /\ UNCHANGED <<node, pos, passed, acc, wdata, dst>>

\* The tensor is resident: the accumulator now belongs to this call.
AccumulateStarts(t) ==
    /\ pc[t] = "accumulate"
    /\ acc' = [node |-> node[t], rows |-> {}]
    /\ Goto(t, "dispatch")
    /\ UNCHANGED <<node, pos, passed, xdnaResult, wdata, dst>>

\* The rows of one token tile: the last one may be short.
TileRowsUncut(t0, tokens) == t0 .. t0 + kMTile - 1   \* mutation
TileRows(t0, tokens) == t0 .. t0 + Least(kMTile, tokens - t0) - 1

\* One token tile: all its dispatches, and its accumulators copied out.
Tile(t) ==
    LET n == node[t] IN
    /\ pc[t] = "dispatch"
    /\ pos[t] < NpuTokens(n)
    /\ acc' = IF ActivationsOf(n)
                 THEN [node |-> acc.node,
                       rows |-> acc.rows \cup TileRows(pos[t], NpuTokens(n))]
                 ELSE acc
    /\ pos' = [pos EXCEPT ![t] = @ + kMTile]
    /\ UNCHANGED <<pc, node, passed, xdnaResult, wdata, dst>>

\* Every tile is done: accumulate returns 1 and the hook stores it.
AccumulateReturns(t) ==
    /\ pc[t] = "dispatch"
    /\ pos[t] >= NpuTokens(node[t])
    /\ xdnaResult' = 1
    /\ Goto(t, "join")
    /\ UNCHANGED <<node, pos, passed, acc, wdata, dst>>

\* One iteration of the CPU share: a group of kCols tokens, or one of the tail.
ShareNoTail(t) ==   \* mutation
    LET n == node[t]
        len == GroupLen(pos[t], ne11[n])
    IN
    /\ pc[t] = "share"
    /\ Write(n, pos[t] .. pos[t] + len - 1, ShareRows(t, n), ActivationsOf(n))
    /\ pos' = [pos EXCEPT ![t] = @ + len]
    /\ IF pos[t] + len + kCols > ne11[n] THEN Goto(t, "join") ELSE UNCHANGED pc
    /\ UNCHANGED <<node, passed, xdnaResult, acc, wdata>>

Share(t) ==
    LET n == node[t]
        len == GroupLen(pos[t], ne11[n])
    IN
    /\ pc[t] = "share"
    /\ Write(n, pos[t] .. pos[t] + len - 1, ShareRows(t, n), ActivationsOf(n))
    /\ pos' = [pos EXCEPT ![t] = @ + len]
    /\ IF pos[t] + len < ne11[n] THEN UNCHANGED pc ELSE Goto(t, "join")
    /\ UNCHANGED <<node, passed, xdnaResult, acc, wdata>>

\* ggml_barrier: the NPU's share and the CPU's share are both finished.
JoinUnwaited(t) ==   \* mutation
    /\ pc[t] = "join"
    /\ passed' = [passed EXCEPT ![t] = @ + 1]
    /\ Goto(t, "branch")
    /\ UNCHANGED <<node, pos, xdnaResult, acc, wdata, dst>>

Join(t) ==
    /\ LeaveBarrier(t, "join", "branch")
    /\ UNCHANGED <<node, pos, xdnaResult, acc, wdata, dst>>

\* atomic_load(&xdna_result): convert the NPU's accumulators, or fall through.
BranchIdleReturns(t) ==   \* mutation
    /\ pc[t] = "branch"
    /\ Goto(t, IF xdnaResult = 0 THEN "full"
               ELSE IF EpiShard(t, nth, NpuTokens(node[t])) = {} THEN "end" ELSE "epilogue")
    /\ pos' = [pos EXCEPT ![t] = EpiBegin(t, nth, NpuTokens(node[t]))]
    /\ UNCHANGED <<node, passed, xdnaResult, acc, wdata, dst>>

Branch(t) ==
    /\ pc[t] = "branch"
    /\ Goto(t, IF xdnaResult = 1 THEN "epilogue" ELSE "full")
    /\ pos' = [pos EXCEPT ![t] = EpiBegin(t, nth, NpuTokens(node[t]))]
    /\ UNCHANGED <<node, passed, xdnaResult, acc, wdata, dst>>

\* bitnet_xdna_epilogue, one token of this thread's shard: it reads the shared
\* accumulator without a lock, and the scales from the work buffer.
Epilogue(t) ==
    LET n == node[t] IN
    /\ pc[t] = "epilogue"
    /\ pos[t] \in EpiShard(t, nth, NpuTokens(n))
    /\ Write(n, {pos[t]}, RowsOf(n),
             acc.node = n /\ pos[t] \in acc.rows /\ ActivationsOf(n))
    /\ pos' = [pos EXCEPT ![t] = @ + 1]
    /\ UNCHANGED <<pc, node, passed, xdnaResult, acc, wdata>>

EpilogueDone(t) ==
    /\ pc[t] = "epilogue"
    /\ pos[t] \notin EpiShard(t, nth, NpuTokens(node[t]))
    /\ Goto(t, "leave")
    /\ UNCHANGED <<node, pos, passed, xdnaResult, acc, wdata, dst>>

\* The second barrier of the hook: every reader of the accumulator is done.
Leave(t) ==
    /\ LeaveBarrier(t, "leave", "end")
    /\ UNCHANGED <<node, pos, xdnaResult, acc, wdata, dst>>

-----------------------------------------------------------------------------
(* After the hook *)

\* The CPU path for the whole batch: not offloaded, or the NPU failed.
Full(t) ==
    LET n == node[t] IN
    /\ pc[t] = "full"
    /\ Write(n, TokensOf(n), FullRows(t, n), ActivationsOf(n))
    /\ Goto(t, "end")
    /\ UNCHANGED <<node, pos, passed, xdnaResult, acc, wdata>>

\* The barrier of ggml's graph loop between two nodes.
NextNode(t) ==
    /\ LeaveBarrier(t, "end", IF node[t] < NumNodes THEN "quantize" ELSE "done")
    /\ node' = [node EXCEPT ![t] = @ + 1]
    /\ UNCHANGED <<pos, xdnaResult, acc, wdata, dst>>

-----------------------------------------------------------------------------
Step(t) == \/ Quantize(t) \/ Quantized(t)
           \/ Skip(t) \/ Enter(t)
           \/ AccumulateFails(t) \/ AccumulateStarts(t) \/ Tile(t) \/ AccumulateReturns(t)
           \/ Share(t)
           \/ Join(t) \/ Branch(t)
           \/ Epilogue(t) \/ EpilogueDone(t) \/ Leave(t)
           \/ Full(t) \/ NextNode(t)

AllDone == \A t \in Threads : pc[t] = "done"

\* The graph is computed: nothing more happens.
Finished == AllDone /\ UNCHANGED vars

Next == (\E t \in Threads : Step(t)) \/ Finished

\* Threads are scheduled, and a dispatch ends: run.wait() returns or throws.
Fairness == \A t \in Threads : WF_vars(Step(t))

Spec == Init /\ [][Next]_vars /\ Fairness

-----------------------------------------------------------------------------
(* Properties *)

\* Threads that wait for each other wait at the same barrier of the same node:
\* the number of barriers a node takes depends on xdna_result, and all threads
\* must have read the same value of it.  Otherwise the pool slips by one barrier
\* and nothing is synchronized any more.
SameBarrier ==
    \A t, u \in Threads :
        passed[t] = passed[u] /\ pc[t] \in Barriers /\ pc[u] \in Barriers
            => pc[t] = pc[u] /\ node[t] = node[u]

\* No output cell is ever written from the activations or accumulators of
\* another node, whatever fails and however the threads interleave.
DstNeverWrong ==
    \A n \in Nodes : \A c \in Cells(n) : dst[n][c] # "wrong"

\* The cells the next write of a thread covers.
NextCells(t) ==
    LET n == node[t] IN
    IF pc[t] = "share"
        THEN (pos[t] .. pos[t] + GroupLen(pos[t], ne11[n]) - 1) \X ShareRows(t, n)
    ELSE IF pc[t] = "epilogue"
        THEN ({pos[t]} \cap EpiShard(t, nth, NpuTokens(n))) \X RowsOf(n)
    ELSE IF pc[t] = "full" THEN TokensOf(n) \X FullRows(t, n)
    ELSE {}

\* Two threads never write the same output cell at the same time, and none
\* writes outside the output: the shards are disjoint on every path.
OneWriter ==
    \A t, u \in Threads :
        /\ node[t] \in Nodes => NextCells(t) \subseteq Cells(node[t])
        /\ t # u /\ node[t] = node[u] => NextCells(t) \cap NextCells(u) = {}

\* "The accumulator buffer is shared: no thread may leave before every reader is
\* done with it": neither the accumulator nor xdna_result changes while a thread
\* is about to read either of them.
ResultHeld ==
    [][acc' # acc \/ xdnaResult' # xdnaResult =>
          \A t \in Threads : pc[t] \notin {"branch", "epilogue"}]_vars

\* The activations in the shared work buffer are not overwritten by the next
\* node while a thread, the NPU's among them, still computes from them.
WorkBufferHeld ==
    [][wdata' # wdata =>
          \A t \in Threads : pc[t] \notin {"hook", "accumulate", "dispatch", "share",
                                           "branch", "epilogue", "full"}]_vars

\* What is seen of the output from outside: a node appears once the last thread
\* has left it.
Visible == [n \in Nodes |-> IF \A t \in Threads : node[t] > n
                               THEN dst[n]
                               ELSE [c \in Cells(n) |-> "none"]]

Atomic == INSTANCE AtomicMulMat WITH out <- Visible

\* The pool implements the atomic mul_mat: nodes complete in order, whole and
\* right, and all of them eventually do, on the NPU path, the fall-through and the
\* CPU path alike.
ImplementsAtomic == Atomic!Spec

=============================================================================
