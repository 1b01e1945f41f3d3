------------------------------ MODULE MmKernel ------------------------------
(***************************************************************************)
(* The int8 x int4 microkernel of npu/kernels/mm_i8_i4.cc, and the host's  *)
(* packing for it in npu/experiments/int4_gemm.py.                         *)
(*                                                                         *)
(* Operands are tile-major: tiles of R x S, S x T and R x T values, each   *)
(* contiguous and row-major.  B holds two values per byte, and strides of  *)
(* B are in bytes.  Arrays are functions on 0 .. size - 1, matrices on     *)
(* pairs; a byte of B is the pair of its nibbles, the low one first.       *)
(***************************************************************************)
EXTENDS Integers, FiniteSetsExt

CONSTANTS MM_R, MM_S, MM_T   \* 4, 16, 16

ASSUME TileAssumption == MM_R \in Nat \ {0} /\ MM_S \in Nat \ {0} /\ MM_T \in Nat \ {0}
ASSUME NibbleAssumption == (MM_S * MM_T) % 2 = 0

size_A == MM_R * MM_S
size_B == MM_S * MM_T
size_C == MM_R * MM_T

-----------------------------------------------------------------------------
(* Host: rowA x colA tiles of A, colA x colB of B, rowA x colB of C *)

\* The value at place x of a matrix stored in h x w tiles, cols of them per row.
TileMajor(m, x, h, w, cols) ==
    LET tile == x \div (h * w)
        in == x % (h * w)
    IN  m[<<(tile \div cols) * h + in \div w, (tile % cols) * w + (in % w)>>]

pack_A(A, rowA, colA) ==
    [x \in 0 .. rowA * colA * size_A - 1 |-> TileMajor(A, x, MM_R, MM_S, colA)]

pack_B_int4(B, colA, colB) ==
    [y \in 0 .. ((colA * colB * size_B) \div 2) - 1 |->
        <<TileMajor(B, 2 * y, MM_S, MM_T, colB), TileMajor(B, 2 * y + 1, MM_S, MM_T, colB)>>]

unpack_C(c, rowA, colB) ==
    [at \in (0 .. rowA * MM_R - 1) \X (0 .. colB * MM_T - 1) |->
        c[((at[1] \div MM_R) * colB + at[2] \div MM_T) * size_C
              + (at[1] % MM_R) * MM_T + (at[2] % MM_T)]]

-----------------------------------------------------------------------------
(* Core *)

B_TILE_BYTES == size_B \div 2

\* load_v at a pointer; B's is in bytes.
LoadA(pA, at) == [x \in 0 .. size_A - 1 |-> pA[at + x]]
LoadB(pB, at) == [x \in 0 .. size_B - 1 |-> pB[at + x \div 2][(x % 2) + 1]]

\* mmul: element e of the product of two tiles.
Mmul(A0, B0, e) ==
    MapThenSumSet(LAMBDA s : A0[(e \div MM_T) * MM_S + s] * B0[s * MM_T + (e % MM_T)],
                  0 .. MM_S - 1)

PointerBNextTile(j, i, colB) == (j + i) * B_TILE_BYTES   \* mutation

\* Where pA1 and pB1 point in iteration i of the K loop of output tile (z, j).
PointerA(z, i, colA) == (z * colA + i) * size_A
PointerB(j, i, colB) == (j + i * colB) * B_TILE_BYTES

\* matmul_i8i4_core: the first product starts the sum (mul), the others add (mac).
\* What c_out held before is overwritten.
MatMulCore(pA, pB, rowA, colA, colB) ==
    [x \in 0 .. rowA * colB * size_C - 1 |->
        LET tile == x \div size_C
            z == tile \div colB
            j == tile % colB
        IN  MapThenSumSet(LAMBDA i : Mmul(LoadA(pA, PointerA(z, i, colA)),
                                          LoadB(pB, PointerB(j, i, colB)), x % size_C),
                          0 .. colA - 1)]

=============================================================================
