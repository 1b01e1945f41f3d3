-------------------------------- MODULE I2S ---------------------------------
(***************************************************************************)
(* The I2_S codec of runtime/bitnet_i2s.c: packed rows of 2-bit codes, the *)
(* quantization of activations and the sums the two engines compute.       *)
(*                                                                         *)
(* Arrays are functions on 0 .. size - 1, a byte is a number.  A float     *)
(* activation is a whole multiple of 1e-5, the floor of the absmax, so     *)
(* that the scale is a fraction; how floats round is not modelled.         *)
(***************************************************************************)
EXTENDS Integers, FiniteSetsExt

CONSTANT Lanes   \* bytes of a block (32)

ASSUME LanesAssumption == Lanes \in Nat \ {0}

I2S_PER_BYTE == 4
I2S_QK == I2S_PER_BYTE * Lanes

\* A weight is -1, 0 or 1, its code one more.
Codes == 0 .. 2

-----------------------------------------------------------------------------
(* Packing *)

\* What shifting a code of group g to its bits, 6 - 2 * g, multiplies it by.
Shift(g) == CASE g = 0 -> 64 [] g = 1 -> 16 [] g = 2 -> 4 [] OTHER -> 1

\* The byte at b: a code of each group, all of the same lane.  Their bits are
\* disjoint, so that or is addition.
PackedByte(codes, b) ==
    LET at(g) == codes[(b \div Lanes) * I2S_QK + g * Lanes + (b % Lanes)] * Shift(g)
    IN  at(0) + at(1) + at(2) + at(3)

\* quantize_i2_s: one stream, whatever the shape of the tensor.
Pack(codes, n) == [b \in 0 .. (n \div I2S_PER_BYTE) - 1 |-> PackedByte(codes, b)]

UnpackedCodeLow(row, k) ==   \* mutation
    LET group == (k % I2S_QK) \div Lanes
    IN  (row[(k \div I2S_QK) * Lanes + (k % Lanes)] \div Shift(3 - group)) % 4

UnpackedCode(row, k) ==
    LET group == (k % I2S_QK) \div Lanes
    IN  (row[(k \div I2S_QK) * Lanes + (k % Lanes)] \div Shift(group)) % 4

\* i2s_unpack_row: whole blocks only.
UnpackRow(row, K) ==
    [k \in 0 .. (K \div I2S_QK) * I2S_QK - 1 |-> UnpackedCode(row, k)]

\* i2s_unpack_matrix: rows are K / 4 bytes apart.
UnpackMatrix(packed, K, N) ==
    LET rowBytes == K \div I2S_PER_BYTE
        row(n) == [b \in 0 .. rowBytes - 1 |-> packed[n * rowBytes + b]]
    IN  [x \in 0 .. N * K - 1 |-> UnpackRow(row(x \div K), K)[x % K]]

-----------------------------------------------------------------------------
(* Activations *)

Magnitude(i) == IF i < 0 THEN -i ELSE i

\* max(|x|, 1e-5), in units of 1e-5.
AbsMax(x) == Max({Magnitude(x[k]) : k \in DOMAIN x} \cup {1})

\* roundf(a / b): a half goes away from 0.
Rounded(a, b) ==
    LET q == (2 * Magnitude(a) + b) \div (2 * b) IN IF a < 0 THEN -q ELSE q

Clamped(v) == Max({-128, Min({127, v})})

QuantizeTruncated(x) ==   \* mutation
    [k \in DOMAIN x |-> Clamped((127 * x[k]) \div AbsMax(x))]

\* i2s_quantize_activations: q = clamp(round(x * 127 / absmax)).
Quantize(x) == [k \in DOMAIN x |-> Clamped(Rounded(127 * x[k], AbsMax(x)))]

ActSum(q) == MapThenSumSet(LAMBDA k : q[k], DOMAIN q)

-----------------------------------------------------------------------------
(* The two engines: what either multiplies by ws / scale *)

\* The CPU: a sum over unsigned codes, from which i2s_apply_epilogue takes the
\* sum of the activations.
CpuSum(codes, q) == MapThenSumSet(LAMBDA k : codes[k] * q[k], DOMAIN q) - ActSum(q)

SignedUnbiased(code) == code   \* mutation

\* i2s_codes_to_signed, and the same in build_b_kn.
Signed(code) == code - 1

\* The NPU: a sum over signed weights, converted by bitnet_xdna_epilogue as it is.
NpuSum(codes, q) == MapThenSumSet(LAMBDA k : Signed(codes[k]) * q[k], DOMAIN q)

=============================================================================
