----------------------------- MODULE MCKernels ------------------------------
(***************************************************************************)
(* Kernels on bounded inputs.  Tiles are 2 x 2 x 2 and a block has 2       *)
(* lanes; there are several blocks per row, rows per tensor and tiles per  *)
(* operand, so that every stride is taken.                                 *)
(***************************************************************************)
EXTENDS Kernels

\* A tensor of two rows of two blocks, any two codes of which differ from 0.
K == 2 * I2S_QK
N == 2
TwoCodes(at, code) ==
    [x \in 0 .. N * K - 1 |->
        IF x = at[1] THEN code[1] ELSE IF x = at[2] THEN code[2] ELSE 0]
PackCalls ==
    [kind : {"pack"}, K : {K}, N : {N},
     codes : {TwoCodes(at, code) : at \in (0 .. N * K - 1) \X (0 .. N * K - 1),
                                   code \in Codes \X Codes}]

\* Three activations and the codes they meet.
Values == {-300, -299, -2, -1, 0, 1, 3, 150}
TokenCalls == [kind : {"token"}, K : {3}, x : [0 .. 2 -> Values], codes : [0 .. 2 -> Codes]]

\* A product is linear in A and in B: it is enough to have one 1 in each.
Units(h, w) ==
    {[x \in (0 .. h - 1) \X (0 .. w - 1) |-> IF x = at THEN 1 ELSE 0] :
        at \in (0 .. h - 1) \X (0 .. w - 1)}
UnitProducts(rowA, colA, colB) ==
    [kind : {"matmul"}, rowA : {rowA}, colA : {colA}, colB : {colB},
     A : Units(rowA * MM_R, colA * MM_S), B : Units(colA * MM_S, colB * MM_T)]
MatMulCalls == UNION {UnitProducts(r, k, c) : r \in 1 .. 2, k \in 1 .. 3, c \in 1 .. 2}

\* A matrix of 2 x 2 objects of 2 tiles of 2 x 2 blocks of 2 x 3, and 2 steps in K of
\* 2 blocks of 1: an element of the output, in every layout of the operands.
LayoutOptions ==
    [M : {16}, K : {4}, N : {12}, m : {4}, k : {2}, n : {6}, r : {2}, s : {1}, t : {3},
     n_aie_rows : {2}, n_A_tiles_per_shim : {1, 2}, b_col_maj : BOOLEAN, c_col_maj : BOOLEAN]
LayoutCalls == UNION {[kind : {"layout"}, o : {o}, at : Elements(o)] : o \in LayoutOptions}

MCCalls == UNION {PackCalls, TokenCalls, MatMulCalls, LayoutCalls}

=============================================================================
