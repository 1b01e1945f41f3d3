------------------------------ MODULE AieArray ------------------------------
(***************************************************************************)
(* The data path that the GEMM designs of npu/ share, as a network of      *)
(* bounded FIFOs: the shim fills A and B tiles from memory into the memory *)
(* tiles (L3 -> L2), an A tile is broadcast along its row of cores and a B *)
(* tile along its column (L2 -> L1), a core sums the products of KSteps    *)
(* pairs into an output tile, the output tiles of a column are joined      *)
(* (L1 -> L2) and drained to memory.  What is filled and drained, and when *)
(* the host waits, is the sequence of a design: WholeArray and SingleCore. *)
(*                                                                         *)
(* A FIFO is a stream and how far each end has got in it: what ObjectFifo  *)
(* guarantees is that objects arrive whole and in order, and that no end   *)
(* gets further ahead of the next than the depth.  Streams run on from one *)
(* dispatch of the compiled program to the next, as the cores' loops do.   *)
(*                                                                         *)
(* Tiles are formal: <<dispatch, row or column tile, step in K>>.  An      *)
(* output tile is the sequence of the pairs multiplied into it.            *)
(***************************************************************************)
EXTENDS Integers, Sequences

CONSTANT Dispatches   \* how often the program is run: warmup + iters (bound)

ASSUME DispatchesAssumption == Dispatches \in Nat

VARIABLES
    design,      \* what the design was built with, see Design
    dispatch,    \* dispatches begun
    completed,   \* dispatches completed
    iter,        \* the runtime sequence: iteration of its loops ...
    groups,      \*   groups of drains issued, c_index in groups ...
    waiting,     \*   and whether it is in finish() of its oldest task group
    tgs,         \* its task groups: how far in the streams what they issued goes
    freed,       \* how far the task groups finished so far went
    streamA,     \* shim -> the tiles of all fills issued on it
    streamB,     \* column -> the same
    streamC,     \* column -> the blocks all drains issued on it go to
    filledA, filledB,   \* tiles filled into L2, per shim and per column
    sentA, sentB,       \* tiles sent on to L1, per row and per column
    used,        \* core -> pairs of tiles it has used
    holds,       \* core -> it has acquired an output tile
    acc,         \* core -> what is in that tile
    results,     \* core -> the output tiles it has released
    sentC,       \* core -> how many of them are in L2
    drained,     \* column -> drains done, in blocks of a whole column
    mem          \* the output matrix in memory: place -> content

sequenceVars == <<dispatch, completed, iter, groups, waiting, tgs, freed>>
streams == <<streamA, streamB, streamC>>
moved == <<filledA, filledB, sentA, sentB, sentC, drained>>
coreVars == <<used, holds, acc, results>>
vars == <<design, sequenceVars, streams, moved, coreVars, mem>>

-----------------------------------------------------------------------------
(* The shape of the design *)

Positive == Nat \ {0}

\* Row blocks are M // m // n_aie_rows, KSteps K // k, Reps N // n // n_aie_cols.
\* fifo_depth is the depth of the FIFOs of A and B and of C in the memory tile,
\* c_fifo_depth that of C in a core; tb_max_n_rows the size of a transfer block.
Design == [n_aie_rows : Positive, n_aie_cols : Positive,
           RowBlocks : Positive, KSteps : Positive, Reps : Positive,
           tb_max_n_rows : Positive, fifo_depth : Positive, c_fifo_depth : Positive,
           c_col_maj : BOOLEAN]

Rows == 0 .. design.n_aie_rows - 1
Cols == 0 .. design.n_aie_cols - 1
Cores == Rows \X Cols

\* A has a shim per row of cores, or per column if there are fewer columns: then
\* what it fills is split over several rows.
n_shim_mem_A == IF design.n_aie_cols > design.n_aie_rows THEN design.n_aie_rows
                                                         ELSE design.n_aie_cols
n_A_tiles_per_shim == IF design.n_aie_cols < design.n_aie_rows
                         THEN design.n_aie_rows \div design.n_aie_cols ELSE 1

Shims == 0 .. n_shim_mem_A - 1
ShimOf(row) == row \div n_A_tiles_per_shim

\* The tile a row of cores gets of what its shim fills.
ATile(row, x) ==
    <<x[1], x[2] * n_A_tiles_per_shim + (row - ShimOf(row) * n_A_tiles_per_shim), x[3]>>

Tiles == (0 .. design.RowBlocks * design.n_aie_rows - 1)
         \X (0 .. design.Reps * design.n_aie_cols - 1)

\* Where the output tile <<i, j>> is in memory, in tiles.
Place(tile) == IF design.c_col_maj THEN <<tile[2], tile[1]>> ELSE tile

\* What the output tile <<i, j>> has to hold after dispatch d.
Product(d, tile) ==
    [e \in 1 .. design.KSteps |-> <<<<d, tile[1], e - 1>>, <<d, tile[2], e - 1>>>>]

\* How far the streams go: what a task group that ends here has issued.
Ends(a, b, c) == [A |-> [i \in Shims |-> Len(a[i])],
                  B |-> [j \in Cols |-> Len(b[j])],
                  C |-> [j \in Cols |-> Len(c[j])]]

\* The array before the first dispatch of a design.
Idle ==
    /\ dispatch = 0 /\ completed = 0
    /\ iter = 0 /\ groups = 0 /\ waiting = FALSE /\ tgs = <<>>
    /\ streamA = [i \in Shims |-> <<>>]
    /\ streamB = [c \in Cols |-> <<>>]
    /\ streamC = [c \in Cols |-> <<>>]
    /\ freed = Ends(streamA, streamB, streamC)
    /\ filledA = [i \in Shims |-> 0]
    /\ filledB = [c \in Cols |-> 0]
    /\ sentA = [r \in Rows |-> 0]
    /\ sentB = [c \in Cols |-> 0]
    /\ used = [x \in Cores |-> 0]
    /\ holds = [x \in Cores |-> FALSE]
    /\ acc = [x \in Cores |-> <<>>]
    /\ results = [x \in Cores |-> <<>>]
    /\ sentC = [x \in Cores |-> 0]
    /\ drained = [c \in Cols |-> 0]
    /\ mem = [p \in {Place(tile) : tile \in Tiles} |-> <<>>]

-----------------------------------------------------------------------------
(* What the runtime sequences have in common *)

Running == completed < dispatch

\* The host dispatches the program again.
Begin ==
    /\ ~Running
    /\ dispatch < Dispatches
    /\ dispatch' = dispatch + 1
    /\ iter' = 0 /\ groups' = 0
    /\ UNCHANGED <<design, completed, waiting, tgs, freed, streams, moved, coreVars, mem>>

GroupDoneFirst(tg) == drained[0] >= tg.C[0]   \* mutation

\* Only drains are issued with wait=True: a task group is done when its drains are.
GroupDone(tg) == \A c \in Cols : drained[c] >= tg.C[c]

\* The oldest task group is finished: what it occupies, its fills too, is given up.
FinishOldest ==
    /\ GroupDone(Head(tgs))
    /\ freed' = Head(tgs)
    /\ tgs' = Tail(tgs)
    /\ UNCHANGED <<design, dispatch, groups, streams, moved, coreVars, mem>>

-----------------------------------------------------------------------------
(* The FIFOs of A and B *)

\* A fill of A goes to all the rows of its shim at once.
FillA(i) ==
    /\ filledA[i] < Len(streamA[i])
    /\ \A r \in Rows : ShimOf(r) = i => filledA[i] - sentA[r] < design.fifo_depth
    /\ filledA' = [filledA EXCEPT ![i] = @ + 1]
    /\ UNCHANGED <<design, sequenceVars, streams, filledB, sentA, sentB, sentC, drained,
                   coreVars, mem>>

FillB(c) ==
    /\ filledB[c] < Len(streamB[c])
    /\ filledB[c] - sentB[c] < design.fifo_depth
    /\ filledB' = [filledB EXCEPT ![c] = @ + 1]
    /\ UNCHANGED <<design, sequenceVars, streams, filledA, sentA, sentB, sentC, drained,
                   coreVars, mem>>

ListenersFirst(r) == {<<r, 0>>}   \* mutation

\* The cores that get the A tiles of a row.
Listeners(r) == {r} \X Cols

\* A broadcast moves when every core that listens has room.
SendA(r) ==
    /\ sentA[r] < filledA[ShimOf(r)]
    /\ \A x \in Listeners(r) : sentA[r] - used[x] < design.fifo_depth
    /\ sentA' = [sentA EXCEPT ![r] = @ + 1]
    /\ UNCHANGED <<design, sequenceVars, streams, filledA, filledB, sentB, sentC, drained,
                   coreVars, mem>>

SendB(c) ==
    /\ sentB[c] < filledB[c]
    /\ \A r \in Rows : sentB[c] - used[<<r, c>>] < design.fifo_depth
    /\ sentB' = [sentB EXCEPT ![c] = @ + 1]
    /\ UNCHANGED <<design, sequenceVars, streams, filledA, filledB, sentA, sentC, drained,
                   coreVars, mem>>

-----------------------------------------------------------------------------
(* core_fn, in an endless loop: what it does is the same for every tile and every
   dispatch *)

zeroNothing(elem_out) == elem_out   \* mutation

\* What the zero kernel makes of an output tile.
zero(elem_out) == <<>>

\* out_c.acquire and zero.
Acquire(x) ==
    /\ ~holds[x]
    /\ Len(results[x]) - sentC[x] < design.c_fifo_depth
    /\ holds' = [holds EXCEPT ![x] = TRUE]
    /\ acc' = [acc EXCEPT ![x] = zero(@)]
    /\ UNCHANGED <<design, sequenceVars, streams, moved, used, results, mem>>

\* in_a.acquire, in_b.acquire, matmul, and both released; after the last step in K
\* the output tile is released too.
MatMul(x) ==
    LET r == x[1]
        c == x[2]
        j == used[x] + 1
        sum == Append(acc[x], <<ATile(r, streamA[ShimOf(r)][j]), streamB[c][j]>>)
    IN
    /\ holds[x]
    /\ used[x] < sentA[r] /\ used[x] < sentB[c]
    /\ used' = [used EXCEPT ![x] = j]
    /\ acc' = [acc EXCEPT ![x] = sum]
    /\ IF j % design.KSteps = 0
          THEN /\ results' = [results EXCEPT ![x] = Append(@, sum)]
               /\ holds' = [holds EXCEPT ![x] = FALSE]
          ELSE UNCHANGED <<results, holds>>
    /\ UNCHANGED <<design, sequenceVars, streams, moved, mem>>

-----------------------------------------------------------------------------
(* The FIFOs of C *)

\* To the memory tile, into this row's part of the joined object.
SendC(x) ==
    /\ sentC[x] < Len(results[x])
    /\ sentC[x] - drained[x[2]] < design.fifo_depth
    /\ sentC' = [sentC EXCEPT ![x] = @ + 1]
    /\ UNCHANGED <<design, sequenceVars, streams, filledA, filledB, sentA, sentB, drained,
                   coreVars, mem>>

\* A joined object of which all rows have arrived is stored.
Drain(c) ==
    LET j == drained[c] + 1
        block == streamC[c][j]
        placed(r) == Place(<<block[1] * design.n_aie_rows + r, block[2]>>)
    IN
    /\ drained[c] < Len(streamC[c])
    /\ \A r \in Rows : sentC[<<r, c>>] > drained[c]
    /\ mem' = [p \in DOMAIN mem |->
                 IF \E r \in Rows : placed(r) = p
                    THEN results[<<CHOOSE r \in Rows : placed(r) = p, c>>][j]
                    ELSE mem[p]]
    /\ drained' = [drained EXCEPT ![c] = j]
    /\ UNCHANGED <<design, sequenceVars, streams, filledA, filledB, sentA, sentB, sentC,
                   coreVars>>

-----------------------------------------------------------------------------
Array == \/ \E i \in Shims : FillA(i)
         \/ \E c \in Cols : FillB(c) \/ SendB(c) \/ Drain(c)
         \/ \E r \in Rows : SendA(r)
         \/ \E x \in Cores : Acquire(x) \/ MatMul(x) \/ SendC(x)

\* Every dispatch is complete.
Finished == completed = Dispatches /\ UNCHANGED vars

-----------------------------------------------------------------------------
(* Properties *)

Occupied(n, depth) == n \in 0 .. depth

TypeOK ==
    /\ design \in Design
    /\ dispatch \in 0 .. Dispatches /\ completed \in 0 .. dispatch
    /\ iter \in Nat /\ groups \in Nat /\ waiting \in BOOLEAN
    /\ Len(tgs) <= 2
    /\ \A i \in Shims : filledA[i] \in 0 .. Len(streamA[i])
    /\ \A r \in Rows : Occupied(filledA[ShimOf(r)] - sentA[r], design.fifo_depth)
    /\ \A c \in Cols : /\ filledB[c] \in 0 .. Len(streamB[c])
                       /\ Occupied(filledB[c] - sentB[c], design.fifo_depth)
                       /\ drained[c] \in 0 .. Len(streamC[c])
    /\ \A x \in Cores :
          /\ Occupied(sentA[x[1]] - used[x], design.fifo_depth)
          /\ Occupied(sentB[x[2]] - used[x], design.fifo_depth)
          /\ Occupied(Len(results[x]) + (IF holds[x] THEN 1 ELSE 0) - sentC[x],
                      design.c_fifo_depth)
          /\ Occupied(sentC[x] - drained[x[2]], design.fifo_depth)
          /\ Len(acc[x]) <= design.KSteps

\* finish() waits for the drains of a task group only, and then everything the group
\* occupies is given up, its fills too: by then every tile of every fill has been used
\* by every core that listens to it.  And a dispatch that is complete leaves nothing
\* for the next: its groups are all finished and nothing is in the FIFOs of C.
FreedMeansUsed ==
    /\ \A x \in Cores : used[x] >= freed.A[ShimOf(x[1])] /\ used[x] >= freed.B[x[2]]
    /\ ~Running => /\ tgs = <<>> /\ freed = Ends(streamA, streamB, streamC)
                   /\ \A x \in Cores : sentC[x] = Len(results[x])

\* "computes C = A @ B": whatever has been stored is the product of the right row
\* and column of the current dispatch, or what the dispatch before left there.
StoredRight ==
    \A tile \in Tiles :
        mem[Place(tile)] \in
            {<<>>} \cup {Product(d, tile) : d \in {dispatch - 1, dispatch} \ {0}}

\* The dispatch whose product is stored, for each place: 0 for none, -1 for nonsense.
StoredOf ==
    [tile \in Tiles |->
        IF mem[Place(tile)] = <<>> THEN 0
        ELSE IF \E d \in 1 .. dispatch : mem[Place(tile)] = Product(d, tile)
             THEN CHOOSE d \in 1 .. dispatch : mem[Place(tile)] = Product(d, tile)
             ELSE -1]

Abstract == INSTANCE Gemm WITH begun <- dispatch, ended <- completed, out <- StoredOf

\* A dispatch implements the GEMM: what it stores is right, when it completes all of
\* the output is of this dispatch, and it does complete -- the FIFOs do not block
\* each other, whatever their depths.
ImplementsGemm == Abstract!Spec

=============================================================================
