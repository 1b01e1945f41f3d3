------------------------------- MODULE Layout -------------------------------
(***************************************************************************)
(* Where each element goes inside the objects that AieArray moves whole:   *)
(* from the flat matrices in memory, through the taps of                   *)
(* npu/whole_array_tuned.py, the parts of the L2 objects and the 4-D       *)
(* access patterns (dims_to_stream), into the tiles the kernel works on,   *)
(* and back.  Elements are formal: a position holds the offset of the      *)
(* element in its matrix, an output the set of pairs of offsets that are   *)
(* multiplied into it.                                                     *)
(*                                                                         *)
(* o has the options M, K, N, m, k, n, n_aie_rows, b_col_maj, c_col_maj,   *)
(* the kernel's mac_dims r, s, t, and n_A_tiles_per_shim.                  *)
(***************************************************************************)
EXTENDS Integers

\* Element e of the stream of an access pattern: its dimensions are pairs of a size
\* and a stride, the outermost first; the outermost goes on to the end of the object.
Streamed(dims, e) ==
    LET s2 == dims[2][1]
        s3 == dims[3][1]
        s4 == dims[4][1]
    IN  (e \div (s2 * s3 * s4)) * dims[1][2] + ((e \div (s3 * s4)) % s2) * dims[2][2]
        + ((e \div s4) % s3) * dims[3][2] + (e % s4) * dims[4][2]

\* Element e of a tile h x w at <<i, j>> of a row-major matrix of the given width.
InTile(i, j, h, w, width, e) == (i * h + e \div w) * width + j * w + (e % w)

-----------------------------------------------------------------------------
(* The inputs *)

a_dims(o) == <<<<o.m \div o.r, o.r * o.k>>, <<o.k \div o.s, o.s>>, <<o.r, o.k>>, <<o.s, 1>>>>

b_dims(o) ==
    IF o.b_col_maj
       THEN <<<<o.n \div o.t, o.t * o.k>>, <<o.k \div o.s, o.s>>, <<o.t, o.k>>, <<o.s, 1>>>>
       ELSE <<<<o.k \div o.s, o.s * o.n>>, <<o.n \div o.t, o.t>>, <<o.s, o.n>>, <<o.t, 1>>>>

\* Position p of row i's tile, step j of K, in a core's L1: the offset in A.  The
\* object of a shim is split at multiples of m * k.
InL1A(o, i, j, p) ==
    LET part == i % o.n_A_tiles_per_shim
        e == o.m * o.k * part + Streamed(a_dims(o), p)
    IN  InTile(i \div o.n_A_tiles_per_shim, j, o.m * o.n_A_tiles_per_shim, o.k, o.K, e)

\* The same for column i's tile of B.
InL1B(o, i, j, p) ==
    LET e == Streamed(b_dims(o), p)
    IN  IF o.b_col_maj THEN InTile(i, j, o.n, o.k, o.K, e) ELSE InTile(j, i, o.k, o.n, o.N, e)

-----------------------------------------------------------------------------
(* The kernel, mm of the mlir-aie library: tiles of blocks, as in mm_i8_i4.cc.
   In a column-major operand the blocks and what is in them are transposed. *)

AtA(o, x, y) ==
    ((x \div o.r) * (o.k \div o.s) + y \div o.s) * o.r * o.s + (x % o.r) * o.s + (y % o.s)
AtB(o, y, z) ==
    IF o.b_col_maj
       THEN ((z \div o.t) * (o.k \div o.s) + y \div o.s) * o.s * o.t + (z % o.t) * o.s + (y % o.s)
       ELSE ((y \div o.s) * (o.n \div o.t) + z \div o.t) * o.s * o.t + (y % o.s) * o.t + (z % o.t)
AtC(o, x, z) ==
    IF o.c_col_maj
       THEN ((z \div o.t) * (o.m \div o.r) + x \div o.r) * o.r * o.t + (z % o.t) * o.r + (x % o.r)
       ELSE ((x \div o.r) * (o.n \div o.t) + z \div o.t) * o.r * o.t + (x % o.r) * o.t + (z % o.t)

\* The pairs of positions multiplied into position q of the output tile.
Multiplied(o, q) ==
    UNION {{<<AtA(o, c[1], y), AtB(o, y, c[2])>> : y \in 0 .. o.k - 1} :
              c \in {d \in (0 .. o.m - 1) \X (0 .. o.n - 1) : AtC(o, d[1], d[2]) = q}}

-----------------------------------------------------------------------------
(* The output *)

c_dims_row_major(o) ==   \* mutation
    <<<<o.m \div o.r, o.r * o.n>>, <<o.r, o.t>>, <<o.n \div o.t, o.r * o.t>>, <<o.t, 1>>>>
c_dims(o) ==
    IF o.c_col_maj
       THEN <<<<o.n \div o.t, o.t * o.m>>, <<o.t, o.r>>, <<o.m \div o.r, o.r * o.t>>, <<o.r, 1>>>>
       ELSE <<<<o.m \div o.r, o.r * o.n>>, <<o.r, o.t>>, <<o.n \div o.t, o.r * o.t>>, <<o.t, 1>>>>

\* Where in memory element e of the object for row block g and column tile j is stored.
Stored(o, g, j, e) ==
    IF o.c_col_maj
       THEN InTile(j, g * o.n_aie_rows + e \div (o.m * o.n), o.n, o.m, o.M, e % (o.m * o.n))
       ELSE InTile(g, j, o.m * o.n_aie_rows, o.n, o.N, e)

\* What is stored there: rows are joined at multiples of m * n.
Content(o, g, j, e) ==
    LET x == Streamed(c_dims(o), e)
        i == g * o.n_aie_rows + x \div (o.m * o.n)
    IN  UNION {{<<InL1A(o, i, y, p[1]), InL1B(o, j, y, p[2])>> :
                   p \in Multiplied(o, x % (o.m * o.n))} : y \in 0 .. (o.K \div o.k) - 1}

-----------------------------------------------------------------------------
(* _numpy_reference, and what _run_and_verify compares with *)

\* The products summed in row x and column z of A @ B.
Reference(o, x, z) ==
    {<<x * o.K + y, IF o.b_col_maj THEN z * o.K + y ELSE y * o.N + z>> : y \in 0 .. o.K - 1}

\* What the flat output has to hold at an offset: C_t is reshaped to (N, M) or (M, N).
Expected(o, at) == IF o.c_col_maj THEN Reference(o, at % o.M, at \div o.M)
                                  ELSE Reference(o, at \div o.N, at % o.N)

=============================================================================
