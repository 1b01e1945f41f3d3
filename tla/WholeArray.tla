----------------------------- MODULE WholeArray -----------------------------
(***************************************************************************)
(* The GEMM design of npu/whole_array_tuned.py on the array of AieArray:   *)
(* which command lines it accepts, what it builds from them, and the       *)
(* runtime sequence, which issues the fills and drains in transfer blocks  *)
(* and waits for the drains of a task group.                               *)
(***************************************************************************)
EXTENDS AieArray

CONSTANTS
    n_aie_rows,    \* rows of cores: 4 in the code
    fifo_depth,    \* of all FIFOs but C's in a core: 2 in the code
    CommandLines   \* the options and environments it is run with

-----------------------------------------------------------------------------
(* From the command line to the design.  Options keep their names;
   TB_MAX_N_ROWS and C_FIFO_DEPTH are environment variables, 0 if not set. *)

TransferBlockFits(o) == ((o.M \div o.m) \div n_aie_rows) % 2 = 0

MaxCols(dev) == IF dev = "npu" THEN 4 ELSE 8

\* _validate_shape_args: the size of a drain, 2 row blocks, is built in.
ValidateShapeArgsLoose(o) ==   \* mutation
    /\ o.M % (o.m * n_aie_rows) = 0
    /\ o.K % o.k = 0
    /\ o.N % (o.n * o.n_aie_cols) = 0
ValidateShapeArgs(o) ==
    /\ o.M % (o.m * n_aie_rows) = 0
    /\ o.K % o.k = 0
    /\ o.N % (o.n * o.n_aie_cols) = 0
    /\ TransferBlockFits(o)
    /\ o.n_aie_cols <= MaxCols(o.dev)

Integral == {"i8", "i16", "i32"}
ItemSize(dtype) == CASE dtype = "i8" -> 1 [] dtype \in {"i16", "bf16"} -> 2
                     [] dtype \in {"i32", "f32"} -> 4

\* The assertions of _build_design but those on the kernel's own tile.
BuildAsserts(o) ==
    /\ (o.dtype_in \in Integral) = (o.dtype_out \in Integral)
    /\ ItemSize(o.dtype_out) >= ItemSize(o.dtype_in)
    /\ o.n_aie_cols <= MaxCols(o.dev)
    /\ o.M % (o.m * n_aie_rows) = 0 /\ o.K % o.k = 0 /\ o.N % (o.n * o.n_aie_cols) = 0

\* int(os.environ.get(..., '0')) or the default.
Or(value, default) == IF value # 0 THEN value ELSE default

Build(o) ==
    [n_aie_rows |-> n_aie_rows, n_aie_cols |-> o.n_aie_cols,
     RowBlocks |-> (o.M \div o.m) \div n_aie_rows,
     KSteps |-> o.K \div o.k,
     Reps |-> (o.N \div o.n) \div o.n_aie_cols,
     tb_max_n_rows |-> Or(o.TB_MAX_N_ROWS, IF o.c_col_maj THEN 2 ELSE 4),
     fifo_depth |-> fifo_depth,
     c_fifo_depth |-> Or(o.C_FIFO_DEPTH, 2),
     c_col_maj |-> o.c_col_maj]

\* What main() goes on to run.
Accepted(o) == ValidateShapeArgs(o) /\ BuildAsserts(o)

\* What the options and the variables are in.
Options == [M : Positive, K : Positive, N : Positive, m : Positive, k : Positive, n : Positive,
            n_aie_cols : Positive, dtype_in : {"i8", "i16", "i32", "bf16", "f32"},
            dtype_out : {"i8", "i16", "i32", "bf16", "f32"}, dev : {"npu", "npu2"},
            c_col_maj : BOOLEAN, TB_MAX_N_ROWS : Nat, C_FIFO_DEPTH : Nat]

\* A transfer block that is set has halves, as many as make up the row blocks, and a
\* column-major C one row block to a half.  The checks do not ask for it.
BlocksFit(o) ==
    o.TB_MAX_N_ROWS # 0 =>
        /\ o.TB_MAX_N_ROWS % 2 = 0
        /\ ((o.M \div o.m) \div n_aie_rows) % (o.TB_MAX_N_ROWS \div 2) = 0
        /\ o.c_col_maj => o.TB_MAX_N_ROWS = 2

\* The rows of cores are split evenly over the shims of A: 1, 2, 4 or 8 columns, 4 rows.
ShimsFit(o) == o.n_aie_cols >= n_aie_rows \/ n_aie_rows % o.n_aie_cols = 0

\* The command lines the design is made for.
FittingLines ==
    /\ n_aie_rows \in Positive /\ fifo_depth \in Positive
    /\ \A o \in CommandLines :
          o \in Options /\ (Accepted(o) => ShimsFit(o) /\ BlocksFit(o))

-----------------------------------------------------------------------------
(* The access patterns (taps) *)

tb_n_rows == design.tb_max_n_rows \div 2

\* Row blocks one drain covers: the taps of a column-major C have one each.
DrainRows == IF design.c_col_maj THEN 1 ELSE tb_n_rows

ARowTileShimMajor(d, rowBase, shim, e) ==   \* mutation
    <<d, shim * design.RowBlocks + rowBase + (e - 1) \div (design.Reps * design.KSteps),
      (e - 1) % design.KSteps>>

\* Tile e of the fills a group makes on a shim of A: for each of its row blocks,
\* all of K, as often as there are column blocks.
ARowTile(d, rowBase, shim, e) ==
    LET row == rowBase + (e - 1) \div (design.Reps * design.KSteps)
    IN  <<d, (row * n_shim_mem_A + shim) % (design.RowBlocks * n_shim_mem_A),
          (e - 1) % design.KSteps>>

AFills(d, rowBase, nRows, shim) ==
    [e \in 1 .. nRows * design.Reps * design.KSteps |-> ARowTile(d, rowBase, shim, e)]

\* On a column of B: for each row block, all its column tiles, each over all of K.
BFills(d, nRows, col) ==
    [e \in 1 .. nRows * design.Reps * design.KSteps |->
        <<d, col + design.n_aie_cols * (((e - 1) \div design.KSteps) % design.Reps),
          (e - 1) % design.KSteps>>]

CDrainsPerBlock(g, col) ==   \* mutation
    [e \in 1 .. DrainRows * design.Reps |->
        <<((g * design.tb_max_n_rows) % design.RowBlocks) + (e - 1) \div design.Reps,
          col + design.n_aie_cols * ((e - 1) % design.Reps)>>]

\* The blocks <<row block, column tile>> drain number g of a column stores, in order.
CDrains(g, col) ==
    [e \in 1 .. DrainRows * design.Reps |->
        <<g * DrainRows + (e - 1) \div design.Reps,
          col + design.n_aie_cols * ((e - 1) % design.Reps)>>]

-----------------------------------------------------------------------------
(* sequence, one run of it per dispatch.  There is one task group at a time. *)

Init == design \in {Build(o) : o \in {x \in CommandLines : Accepted(x)}} /\ Idle

Iterations == 2 * ((design.RowBlocks + design.tb_max_n_rows - 1) \div design.tb_max_n_rows)
Groups == design.RowBlocks \div DrainRows   \* len(C_tiles) // n_aie_cols

RowBase == (iter \div 2) * design.tb_max_n_rows + ((iter % 2) * design.tb_max_n_rows) \div 2
GroupRows == IF tb_n_rows < design.RowBlocks - RowBase THEN tb_n_rows
                                                       ELSE design.RowBlocks - RowBase

\* One iteration: a drain per column, and the fills for its rows.  Every iteration
\* but the first then finishes the task group.
Issue ==
    /\ Running /\ ~waiting
    /\ iter < Iterations /\ groups < Groups
    /\ streamC' = [c \in Cols |-> streamC[c] \o CDrains(groups, c)]
    /\ streamA' = [i \in Shims |-> streamA[i] \o AFills(dispatch, RowBase, GroupRows, i)]
    /\ streamB' = [c \in Cols |-> streamB[c] \o BFills(dispatch, GroupRows, c)]
    /\ tgs' = <<Ends(streamA', streamB', streamC')>>
    /\ groups' = groups + 1
    /\ IF iter > 0 THEN waiting' = TRUE /\ UNCHANGED iter
                   ELSE iter' = iter + 1 /\ UNCHANGED waiting
    /\ UNCHANGED <<design, dispatch, completed, freed, moved, coreVars, mem>>

\* Nothing is left to drain: the inner loop breaks.
Skip ==
    /\ Running /\ ~waiting
    /\ iter < Iterations /\ groups >= Groups
    /\ iter' = iter + 1
    /\ UNCHANGED <<design, dispatch, completed, groups, waiting, tgs, freed, streams, moved,
                   coreVars, mem>>

\* tg.finish() in the loop.
Finish ==
    /\ Running /\ waiting
    /\ FinishOldest
    /\ waiting' = FALSE
    /\ iter' = iter + 1
    /\ UNCHANGED completed

\* The last tg.finish(), of a group that may be empty: the dispatch is complete.
Complete ==
    /\ Running /\ ~waiting
    /\ iter >= Iterations
    /\ IF tgs = <<>>
          THEN UNCHANGED <<design, dispatch, groups, tgs, freed, streams, moved, coreVars, mem>>
          ELSE FinishOldest
    /\ completed' = dispatch
    /\ UNCHANGED <<iter, waiting>>

Host == Issue \/ Skip \/ Finish \/ Complete

Next == Begin \/ Host \/ Array \/ Finished

\* As long as something can move, something does: the command processor executes
\* the sequence, and DMA channels and cores run when their FIFOs let them.  Within
\* a dispatch every step gets some stream further, so no finer fairness is needed.
Fairness == WF_vars(Host \/ Array)

Spec == Init /\ [][Next]_vars /\ Fairness

=============================================================================
