------------------------------ MODULE Kernels -------------------------------
(***************************************************************************)
(* Calls of the pure functions of I2S, MmKernel and Layout, one at a time, *)
(* and what each call promises.                                            *)
(***************************************************************************)
EXTENDS I2S, MmKernel, Layout

CONSTANT Calls   \* the inputs

\* What my_matmul asserts of its options: tiles divide the matrices, blocks the tiles.
Tiled(o) ==
    /\ {o.M, o.K, o.N, o.m, o.k, o.n, o.r, o.s, o.t, o.n_aie_rows, o.n_A_tiles_per_shim}
          \subseteq Nat \ {0}
    /\ o.M % (o.m * o.n_aie_rows) = 0 /\ o.K % o.k = 0 /\ o.N % o.n = 0
    /\ o.m % o.r = 0 /\ o.k % o.s = 0 /\ o.n % o.t = 0

\* The objects of the output, and their elements.
Elements(o) ==
    (0 .. (o.M \div (o.m * o.n_aie_rows)) - 1) \X (0 .. (o.N \div o.n) - 1)
        \X (0 .. o.n_aie_rows * o.m * o.n - 1)

\* A tensor of whole blocks; the activations of a token and the codes they meet; matrices
\* of whole tiles; an element of the output and the options it is computed with.
ASSUME CallsAssumption ==
    \A c \in Calls :
        /\ c.kind = "pack" =>
              /\ c.K \in Nat \ {0} /\ c.K % I2S_QK = 0 /\ c.N \in Nat
              /\ c.codes \in [0 .. c.N * c.K - 1 -> Codes]
        /\ c.kind = "token" =>
              /\ c.K \in Nat
              /\ c.x \in [0 .. c.K - 1 -> Int] /\ c.codes \in [0 .. c.K - 1 -> Codes]
        /\ c.kind = "matmul" =>
              /\ c.rowA \in Nat \ {0} /\ c.colA \in Nat \ {0} /\ c.colB \in Nat \ {0}
              /\ c.A \in [(0 .. c.rowA * MM_R - 1) \X (0 .. c.colA * MM_S - 1) -> Int]
              /\ c.B \in [(0 .. c.colA * MM_S - 1) \X (0 .. c.colB * MM_T - 1) -> Int]
        /\ c.kind = "layout" => Tiled(c.o) /\ c.at \in Elements(c.o)

VARIABLE call   \* the inputs of the call, or NoCall

NoCall == [kind |-> "none"]

\* An element of A @ B.
RowTimesColumn(A, B, r, c, n) ==
    MapThenSumSet(LAMBDA k : A[<<r, k>>] * B[<<k, c>>], 0 .. n - 1)

-----------------------------------------------------------------------------
Init == call = NoCall

Call == call = NoCall /\ call' \in Calls
Return == call # NoCall /\ call' = NoCall

Spec == Init /\ [][Call \/ Return]_call

-----------------------------------------------------------------------------
(* Properties *)

\* bitnet_i2s.h:74 calls i2s_unpack_row "the exact inverse of quantize_i2_s's packing
\* loop": unpacked row by row, a tensor packed as one stream is what it was.
UnpackInvertsPack ==
    call.kind = "pack" =>
        UnpackMatrix(Pack(call.codes, call.N * call.K), call.K, call.N) = call.codes

\* i2s_quantize_activations: no activation is further than half a step from what it
\* is quantized to, and the largest is quantized to 127 or -127, so that no value is cut.
QuantizedToNearest ==
    call.kind = "token" =>
        LET q == Quantize(call.x)
            m == AbsMax(call.x)
        IN  /\ \A k \in DOMAIN q : 2 * Magnitude(q[k] * m - 127 * call.x[k]) <= m
            /\ \A k \in DOMAIN q : Magnitude(call.x[k]) = m => Magnitude(q[k]) = 127

\* bitnet_i2s.h:39-41, the offset identity: what the CPU gets from unsigned codes and
\* the NPU from signed weights is the same number, so the tokens of a batch may be
\* divided between them.
EnginesAgree ==
    call.kind = "token" =>
        LET q == Quantize(call.x) IN CpuSum(call.codes, q) = NpuSum(call.codes, q)

\* matmul_i8i4_core on packed operands is the product of the matrices, and int4_gemm's
\* "bit-exact" comparison with A @ B succeeds for every number of tiles.
BlockedIsProduct ==
    call.kind = "matmul" =>
        LET rowA == call.rowA
            colA == call.colA
            colB == call.colB
            C == MatMulCore(pack_A(call.A, rowA, colA), pack_B_int4(call.B, colA, colB),
                            rowA, colA, colB)
        IN  unpack_C(C, rowA, colB) =
                [at \in (0 .. rowA * MM_R - 1) \X (0 .. colB * MM_T - 1) |->
                    RowTimesColumn(call.A, call.B, at[1], at[2], colA * MM_S)]

\* The access patterns, the split and the join of whole_array_tuned.py compose to the
\* identity: what is stored at each place of C is the row of A times the column of B
\* that the numpy reference has there, in all four layouts of B and C, and no place is
\* stored twice.
LayoutIsProduct ==
    call.kind = "layout" =>
        LET place(at) == Stored(call.o, at[1], at[2], at[3])
        IN  /\ place(call.at) \in 0 .. call.o.M * call.o.N - 1
            /\ Content(call.o, call.at[1], call.at[2], call.at[3])
                   = Expected(call.o, place(call.at))
            /\ \A at \in Elements(call.o) : place(at) = place(call.at) => at = call.at

=============================================================================
