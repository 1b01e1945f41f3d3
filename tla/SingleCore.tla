----------------------------- MODULE SingleCore -----------------------------
(***************************************************************************)
(* The GEMM design of npu/ref/single_core.py: one core of AieArray, so the *)
(* FIFOs of a row and of a column have one listener and nothing is joined. *)
(* The runtime sequence keeps two task groups in flight: it issues the     *)
(* next one before it finishes the one before.                             *)
(***************************************************************************)
EXTENDS AieArray

CONSTANT CommandLines   \* the options it is run with

-----------------------------------------------------------------------------
(* From the command line to the design *)

rows_per_block == 4

Integral == {"i8", "i16", "i32"}
ItemSize(dtype) == CASE dtype = "i8" -> 1 [] dtype \in {"i16", "bf16"} -> 2
                     [] dtype \in {"i32", "f32"} -> 4

\* The assertions of single_core but those on the kernel's own tile.
Asserts(o) ==
    /\ o.M % o.m = 0 /\ o.K % o.k = 0 /\ o.N % o.n = 0
    /\ (o.dtype_in \in Integral) = (o.dtype_out \in Integral)
    /\ ItemSize(o.dtype_out) >= ItemSize(o.dtype_in)

\* group_tiler cuts C into whole groups of rows or raises.
TilerAccepts(o) == (o.M \div o.m) % (rows_per_block \div 2) = 0

\* M_div_m, K_div_k, N_div_n; ObjectFifos have depth 2 unless told otherwise.
Build(o) ==
    [n_aie_rows |-> 1, n_aie_cols |-> 1,
     RowBlocks |-> o.M \div o.m, KSteps |-> o.K \div o.k, Reps |-> o.N \div o.n,
     tb_max_n_rows |-> rows_per_block, fifo_depth |-> 2, c_fifo_depth |-> 2,
     c_col_maj |-> FALSE]

\* The command lines the design is made for: the options are counts.
LinesFit == \A o \in CommandLines : {o.M, o.K, o.N, o.m, o.k, o.n} \subseteq Positive

-----------------------------------------------------------------------------
(* The access patterns (taps) *)

\* inA_h.fill of a group: for each of its rows of tiles, A_tiles[tile_offset], all of K
\* once per column of tiles.
AFills(d, rowBase, nRows) ==
    [e \in 1 .. nRows * design.Reps * design.KSteps |->
        <<d, (rowBase + (e - 1) \div (design.Reps * design.KSteps)) % design.RowBlocks,
          (e - 1) % design.KSteps>>]

\* inB_h.fill: for each row, b_tap, all of B one column of tiles after the other.
BFills(d, nRows) ==
    [e \in 1 .. nRows * design.Reps * design.KSteps |->
        <<d, ((e - 1) \div design.KSteps) % design.Reps, (e - 1) % design.KSteps>>]

\* C_tiles[c_index]: rows_per_block // 2 rows of tiles.
CTap(c_index) ==
    [e \in 1 .. (rows_per_block \div 2) * design.Reps |->
        <<c_index * (rows_per_block \div 2) + (e - 1) \div design.Reps, (e - 1) % design.Reps>>]

-----------------------------------------------------------------------------
(* sequence *)

Init == design \in {Build(o) : o \in {x \in CommandLines : Asserts(x) /\ TilerAccepts(x)}}
        /\ Idle

Iterations == 2 * ((design.RowBlocks + rows_per_block - 1) \div rows_per_block)

RowBase == (iter \div 2) * rows_per_block + ((iter % 2) * rows_per_block) \div 2
NumTileRows == IF rows_per_block \div 2 < design.RowBlocks - RowBase
                  THEN rows_per_block \div 2 ELSE design.RowBlocks - RowBase

\* A new task group: the fills of A and B for its rows, and a drain.  With two groups
\* in flight, the older is then finished.
Issue ==
    /\ Running /\ ~waiting
    /\ iter < Iterations /\ NumTileRows > 0
    /\ streamA' = [streamA EXCEPT ![0] = @ \o AFills(dispatch, RowBase, NumTileRows)]
    /\ streamB' = [streamB EXCEPT ![0] = @ \o BFills(dispatch, NumTileRows)]
    /\ streamC' = [streamC EXCEPT ![0] = @ \o CTap(groups)]
    /\ tgs' = Append(tgs, Ends(streamA', streamB', streamC'))
    /\ groups' = groups + 1
    /\ iter' = iter + 1
    /\ waiting' = (iter > 0)
    /\ UNCHANGED <<design, dispatch, completed, freed, moved, coreVars, mem>>

\* No rows are left in the block: the inner loop breaks.
Skip ==
    /\ Running /\ ~waiting
    /\ iter < Iterations /\ NumTileRows <= 0
    /\ iter' = iter + 1
    /\ UNCHANGED <<design, dispatch, completed, groups, waiting, tgs, freed, streams, moved,
                   coreVars, mem>>

\* tgs[-2].finish(), of the group before the one just issued.
Finish ==
    /\ Running /\ waiting
    /\ FinishOldest
    /\ waiting' = FALSE
    /\ UNCHANGED <<iter, completed>>

CompleteUnfinished ==   \* mutation
    /\ Running /\ ~waiting
    /\ iter >= Iterations
    /\ tgs' = <<>>
    /\ completed' = dispatch
    /\ UNCHANGED <<design, dispatch, iter, groups, waiting, freed, streams, moved, coreVars, mem>>

\* tgs[-1].finish(): the dispatch is complete.
Complete ==
    /\ Running /\ ~waiting
    /\ iter >= Iterations
    /\ FinishOldest
    /\ completed' = dispatch
    /\ UNCHANGED <<iter, waiting>>

\* What the design has of the array: a core, and its FIFOs.
Fifos == FillA(0) \/ FillB(0) \/ SendA(0) \/ SendB(0) \/ SendC(<<0, 0>>) \/ Drain(0)
Core == Acquire(<<0, 0>>) \/ MatMul(<<0, 0>>)

Host == Issue \/ Skip \/ Finish \/ Complete

Next == Begin \/ Host \/ Fifos \/ Core \/ Finished

\* As in WholeArray: something that can move does.
Fairness == WF_vars(Host \/ Fifos \/ Core)

Spec == Init /\ [][Next]_vars /\ Fairness

=============================================================================
