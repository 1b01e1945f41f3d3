----------------------------- MODULE MCDesigns ------------------------------
(***************************************************************************)
(* The three GEMM designs on small arrays: the tuned one with two rows of  *)
(* cores (Tuned) and with one (Wide), the vendored one it was made from,   *)
(* and the single core.  Sizes are in tiles (m = k = n = 1).               *)
(***************************************************************************)
EXTENDS AieArray

CONSTANT WideLines   \* of Wide, see below

VARIABLE program

Options(M, K, N, cols, colMaj, env) ==
    [M |-> M, K |-> K, N |-> N, m |-> 1, k |-> 1, n |-> 1, n_aie_cols |-> cols,
     dtype_in |-> "i8", dtype_out |-> "i32", dev |-> "npu2", c_col_maj |-> colMaj,
     TB_MAX_N_ROWS |-> env[1], C_FIFO_DEPTH |-> env[2]]

\* A square array; one whose A tiles are split over the rows, with C in both layouts;
\* and a size that is refused.
TunedLines == {Options(M, 1, 2, 2, FALSE, <<0, 1>>) : M \in {2, 4}}
              \cup {Options(4, 2, 2, 1, colMaj, <<0, 1>>) : colMaj \in BOOLEAN}

\* More columns than rows.  Values of WideLines: transfer blocks of two and of four
\* row blocks; and one of three.
EvenBlocks == {Options(2, 1, 4, 2, FALSE, env) : env \in {<<2, 2>>, <<0, 1>>}}
OddBlock == {Options(4, 2, 2, 2, FALSE, <<3, 1>>)}

VendoredLines == {Options(M, 1, 2, 1, FALSE, <<3, 1>>) : M \in {3, 4}}

SingleLines == {Options(M, 1, 2, 1, FALSE, <<0, 0>>) : M \in {2, 3}}
               \cup {Options(6, 2, 1, 1, FALSE, <<0, 0>>)}

Tuned == INSTANCE WholeArray WITH n_aie_rows <- 2, fifo_depth <- 1, CommandLines <- TunedLines
Wide == INSTANCE WholeArray WITH n_aie_rows <- 1, fifo_depth <- 1, CommandLines <- WideLines
Vendored == INSTANCE VendoredArray WITH n_aie_rows <- 1, fifo_depth <- 2,
                                        CommandLines <- VendoredLines
Single == INSTANCE SingleCore WITH CommandLines <- SingleLines

\* These are lines the theorems of ArrayProofs are about; OddBlock is not.
ASSUME LinesAssumption ==
    /\ Tuned!FittingLines /\ Vendored!VendoredLinesFit /\ Single!LinesFit
    /\ Wide!FittingLines <=> WideLines # OddBlock

Init == \/ program = "tuned" /\ Tuned!Init
        \/ program = "wide" /\ Wide!Init
        \/ program = "vendored" /\ Vendored!VendoredInit
        \/ program = "single" /\ Single!Init

Steps == \/ program = "tuned" /\ (Tuned!Host \/ Array)
         \/ program = "wide" /\ (Wide!Host \/ Array)
         \/ program = "vendored"
               /\ (Vendored!VendoredSequence \/ Vendored!VendoredFifos \/ Vendored!VendoredCores)
         \/ program = "single" /\ (Single!Host \/ Single!Fifos \/ Single!Core)

\* The square array, the largest, is run once only.
Square == design.n_aie_rows = design.n_aie_cols /\ program = "tuned"
Again == Begin /\ (Square => dispatch = 0)
Once == Square /\ completed = 1 /\ UNCHANGED vars

Next == UNCHANGED program /\ (Again \/ Steps \/ Finished \/ Once)

Spec == Init /\ [][Next]_<<program, vars>> /\ WF_vars(Steps /\ UNCHANGED program)

=============================================================================
