--------------------------- MODULE KernelsProofs ----------------------------
(***************************************************************************)
(* Theorems about the pure functions.  The I2_S codec, for every number of *)
(* lanes, every tensor and all activations: unpacking inverts packing,     *)
(* activations are quantized to the nearest step, and the two engines sum  *)
(* to the same number.  The int8 x int4 kernel, for every size of tile and *)
(* number of tiles: packed, multiplied and unpacked is the product.  The   *)
(* layouts of the array, for all options that my_matmul accepts: what is   *)
(* stored at a place of C is its row of A times its column of B.           *)
(*                                                                         *)
(* Sums and maxima over a finite set are reasoned about by the smallest    *)
(* set that would refute the claim (BySmaller), loops by the smallest      *)
(* number (ByCounting).                                                    *)
(***************************************************************************)
EXTENDS Kernels, TLAPS, FiniteSetTheorems, WellFoundedInduction

-----------------------------------------------------------------------------
(* Positions: a place is a block, a group in it and a lane *)

\* A quotient and a remainder determine each other.
LEMMA DivMod ==
    ASSUME NEW a \in Int, NEW b \in Nat \ {0}
    PROVE  /\ a \div b \in Int
           /\ a % b \in 0 .. b - 1
           /\ a = b * (a \div b) + (a % b)
  OBVIOUS

LEMMA DivModUnique ==
    ASSUME NEW b \in Nat \ {0}, NEW q \in Int, NEW r \in 0 .. b - 1
    PROVE  /\ (b * q + r) \div b = q
           /\ (b * q + r) % b = r
<1> DEFINE a == b * q + r
           d == a \div b - q
<1>1. b * q \in Int /\ a \in Int
  OBVIOUS
<1>2. /\ a \div b \in Int
      /\ a % b \in 0 .. b - 1
      /\ a = b * (a \div b) + (a % b)
  BY <1>1, DivMod
<1>3. b * (a \div b) = b * q + b * d /\ d \in Int
  BY <1>2
<1>4. b * d = r - (a % b)
  BY <1>1, <1>2, <1>3
<1>5. b * d < b /\ -b < b * d
  BY <1>2, <1>4
<1>6. d = 0
  <2>1. CASE d >= 1
    <3>1. b * d >= b
      BY <1>3, <2>1
    <3> QED
      BY <1>5, <3>1
  <2>2. CASE d <= -1
    <3>1. b * d <= -b
      BY <1>3, <2>2
    <3> QED
      BY <1>5, <3>1
  <2> HIDE DEF d
  <2> QED
    BY <1>3, <2>1, <2>2
<1>7. a \div b = q
  BY <1>2, <1>6
<1>8. a % b = r
  BY <1>1, <1>2, <1>7
<1> QED
  BY <1>7, <1>8

LEMMA Distribute ==
    ASSUME NEW a \in Int, NEW b \in Int, NEW c \in Int
    PROVE  /\ a * (b + c) = a * b + a * c /\ (b + c) * a = b * a + c * a
           /\ a * b \in Int /\ a * c \in Int
  OBVIOUS

LEMMA LanesPositive == Lanes \in Nat \ {0} /\ I2S_QK \in Nat \ {0}
  BY LanesAssumption DEF I2S_QK, I2S_PER_BYTE

LEMMA BlockSize == I2S_QK = 4 * Lanes
  BY DEF I2S_QK, I2S_PER_BYTE

\* Where UnpackedCode looks for place x: byte b of the stream, whose block and lane
\* are those of x, and the group gives back the place.
LEMMA Position ==
    ASSUME NEW x \in Nat
    PROVE  LET i == x \div I2S_QK
               g == (x % I2S_QK) \div Lanes
               p == x % Lanes
               b == i * Lanes + p
           IN  /\ i \in Nat /\ g \in 0 .. 3 /\ p \in 0 .. Lanes - 1 /\ b \in Nat
               /\ b \div Lanes = i /\ b % Lanes = p
               /\ i * I2S_QK + g * Lanes + p = x
<1> DEFINE i == x \div I2S_QK
           r == x % I2S_QK
           g == r \div Lanes
           p == x % Lanes
           b == i * Lanes + p
<1>1. i \in Int /\ r \in 0 .. I2S_QK - 1 /\ x = I2S_QK * i + r
  BY LanesPositive, DivMod
<1>2. g \in Int /\ r % Lanes \in 0 .. Lanes - 1 /\ r = Lanes * g + (r % Lanes)
  <2> HIDE DEF i, r
  <2>1. r \in Int
    BY <1>1, LanesPositive
  <2> QED
    BY <2>1, LanesPositive, DivMod
<1>3. x = Lanes * (4 * i + g) + (r % Lanes)
  <2> HIDE DEF i, g, r
  <2>1. I2S_QK * i = Lanes * (4 * i)
    BY <1>1, LanesPositive, BlockSize
  <2>2. Lanes * (4 * i + g) = Lanes * (4 * i) + Lanes * g
    BY <1>1, <1>2, LanesPositive
  <2>3. Lanes * (4 * i) \in Int /\ Lanes * g \in Int
    BY <1>1, <1>2, LanesPositive
  <2> QED
    BY <1>1, <1>2, <2>1, <2>2, <2>3
<1>4. p = r % Lanes
  <2> HIDE DEF i, g, r
  <2>1. 4 * i + g \in Int
    BY <1>1, <1>2
  <2> QED
    BY <1>2, <1>3, <2>1, LanesPositive, DivModUnique
<1>5. i \in Nat
  <2>1. I2S_QK * i > -I2S_QK
    BY <1>1, LanesPositive
  <2> HIDE DEF i
  <2>2. CASE i <= -1
    <3>1. I2S_QK * i <= -I2S_QK
      BY <1>1, <2>2, LanesPositive
    <3> QED
      BY <1>1, <2>1, <3>1, LanesPositive
  <2> QED
    BY <1>1, <2>2
<1>6. g \in 0 .. 3
  <2> HIDE DEF g, r
  <2>1. Lanes * g < Lanes * 4 /\ Lanes * g > -Lanes
    BY <1>1, <1>2, LanesPositive, BlockSize
  <2>2. CASE g >= 4
    <3>1. Lanes * g >= Lanes * 4
      BY <1>2, <2>2, LanesPositive
    <3> QED
      BY <1>2, <2>1, <3>1, LanesPositive
  <2>3. CASE g <= -1
    <3>1. Lanes * g <= -Lanes
      BY <1>2, <2>3, LanesPositive
    <3> QED
      BY <1>2, <2>1, <3>1, LanesPositive
  <2> QED
    BY <1>2, <2>2, <2>3
<1>7. p \in 0 .. Lanes - 1
  BY <1>2, <1>4
<1>8. b \in Nat /\ b = Lanes * i + p
  <2> HIDE DEF i, p
  <2>1. i * Lanes \in Nat /\ i * Lanes = Lanes * i
    BY <1>5, LanesPositive
  <2> QED
    BY <1>7, <2>1
<1>9. b \div Lanes = i /\ b % Lanes = p
  <2> HIDE DEF i, p, b
  <2> QED
    BY <1>5, <1>7, <1>8, LanesPositive, DivModUnique
<1>10. i * I2S_QK + g * Lanes + p = x
  <2> HIDE DEF i, g, r, p
  <2>1. i * I2S_QK = I2S_QK * i /\ g * Lanes = Lanes * g
    BY <1>1, <1>2, LanesPositive
  <2>2. I2S_QK * i \in Int /\ Lanes * g \in Int
    BY <1>1, <1>2, LanesPositive
  <2> QED
    BY <1>1, <1>2, <1>4, <1>7, <2>1, <2>2
<1> HIDE DEF i, g, p, b
<1> QED
  BY <1>5, <1>6, <1>7, <1>8, <1>9, <1>10 DEF i, g, p, b

-----------------------------------------------------------------------------
(* Bytes *)

\* The codes of a byte do not overlap: each can be taken out again.
LEMMA CodeInByte ==
    ASSUME NEW c0 \in Codes, NEW c1 \in Codes, NEW c2 \in Codes, NEW c3 \in Codes
    PROVE  LET byte == c0 * 64 + c1 * 16 + c2 * 4 + c3 * 1
           IN  /\ (byte \div 64) % 4 = c0 /\ (byte \div 16) % 4 = c1
               /\ (byte \div 4) % 4 = c2 /\ (byte \div 1) % 4 = c3
  BY DEF Codes

\* What UnpackedCode finds at any place of a stream that Pack made.
LEMMA UnpackedPlace ==
    ASSUME NEW blocks \in Nat,
           NEW codes \in [0 .. blocks * I2S_QK - 1 -> Codes],
           NEW x \in 0 .. blocks * I2S_QK - 1
    PROVE  /\ (x \div I2S_QK) * Lanes + (x % Lanes)
                 \in 0 .. ((blocks * I2S_QK) \div I2S_PER_BYTE) - 1
           /\ UnpackedCode(Pack(codes, blocks * I2S_QK), x) = codes[x]
<1> DEFINE n == blocks * I2S_QK
           i == x \div I2S_QK
           g == (x % I2S_QK) \div Lanes
           p == x % Lanes
           b == i * Lanes + p
           at(h) == codes[i * I2S_QK + h * Lanes + p]
<1>1. n \in Nat /\ x \in Nat
  BY LanesPositive
<1>2. /\ i \in Nat /\ g \in 0 .. 3 /\ p \in 0 .. Lanes - 1 /\ b \in Nat
      /\ b \div Lanes = i /\ b % Lanes = p
      /\ i * I2S_QK + g * Lanes + p = x
  BY <1>1, Position
<1>3. i <= blocks - 1
  <2>1. g * Lanes \in Nat
    <3> HIDE DEF g
    <3> QED
      BY <1>2, LanesPositive
  <2> HIDE DEF i, g, p
  <2>2. i * I2S_QK < blocks * I2S_QK /\ i * I2S_QK \in Nat
    BY <1>1, <1>2, <2>1, LanesPositive
  <2>3. CASE i >= blocks
    <3>1. i * I2S_QK >= blocks * I2S_QK
      BY <1>2, <2>3, LanesPositive
    <3> QED
      BY <1>2, <2>2, <3>1, LanesPositive
  <2> QED
    BY <1>2, <2>3
<1>4. \A h \in 0 .. 3 : at(h) \in Codes
  <2> SUFFICES ASSUME NEW h \in 0 .. 3
               PROVE  i * I2S_QK + h * Lanes + p \in 0 .. n - 1
    OBVIOUS
  <2> HIDE DEF i, g, p
  <2>1. h * Lanes + p \in 0 .. I2S_QK - 1
    BY <1>2, LanesPositive, BlockSize
  <2>2. i * I2S_QK \in Nat /\ i * I2S_QK <= blocks * I2S_QK - I2S_QK
    <3>1. i * I2S_QK <= (blocks - 1) * I2S_QK
      BY <1>2, <1>3, LanesPositive
    <3>2. (blocks - 1) * I2S_QK = blocks * I2S_QK - I2S_QK
      BY LanesPositive
    <3> QED
      BY <1>2, <3>1, <3>2, LanesPositive
  <2> QED
    BY <1>1, <1>2, <2>1, <2>2, LanesPositive
<1>5. b \in 0 .. (n \div I2S_PER_BYTE) - 1
  <2>1. n \div I2S_PER_BYTE = blocks * Lanes
    <3>1. blocks * I2S_QK = 4 * (blocks * Lanes)
      BY LanesPositive, BlockSize
    <3>2. blocks * Lanes \in Nat
      BY LanesPositive
    <3> QED
      BY <3>1, <3>2 DEF I2S_PER_BYTE
  <2> HIDE DEF i, g, p, n
  <2>2. i * Lanes <= blocks * Lanes - Lanes
    <3>1. i * Lanes <= (blocks - 1) * Lanes
      BY <1>2, <1>3, LanesPositive
    <3>2. (blocks - 1) * Lanes = blocks * Lanes - Lanes
      BY LanesPositive
    <3> QED
      BY <3>1, <3>2
  <2>3. i * Lanes \in Nat /\ blocks * Lanes \in Nat
    BY <1>2, LanesPositive
  <2> QED
    BY <1>2, <2>1, <2>2, <2>3, LanesPositive
<1>6. Pack(codes, n)[b] = at(0) * 64 + at(1) * 16 + at(2) * 4 + at(3) * 1
  <2>1. Pack(codes, n)[b] = PackedByte(codes, b)
    BY <1>5 DEF Pack
  <2> HIDE DEF b
  <2> QED
    BY <1>2, <2>1 DEF PackedByte, Shift
<1>7. (Pack(codes, n)[b] \div Shift(g)) % 4 = at(g)
  <2>1. /\ at(0) \in Codes /\ at(1) \in Codes /\ at(2) \in Codes /\ at(3) \in Codes
    BY <1>4
  <2>2. g = 0 \/ g = 1 \/ g = 2 \/ g = 3
    BY <1>2
  <2> HIDE DEF g, at, b
  <2> QED
    BY <1>6, <2>1, <2>2, CodeInByte DEF Shift
<1>8. at(g) = codes[x]
  BY <1>2
<1> QED
  BY <1>5, <1>7, <1>8 DEF UnpackedCode

-----------------------------------------------------------------------------
(* Theorems *)

\* bitnet_i2s.h:74, "the exact inverse of quantize_i2_s's packing loop", for every
\* number of blocks and of lanes.
THEOREM RowUnpackInvertsPack ==
    ASSUME NEW blocks \in Nat,
           NEW codes \in [0 .. blocks * I2S_QK - 1 -> Codes]
    PROVE  UnpackRow(Pack(codes, blocks * I2S_QK), blocks * I2S_QK) = codes
<1> DEFINE n == blocks * I2S_QK
<1>1. (n \div I2S_QK) * I2S_QK = n
  <2>1. n = I2S_QK * blocks + 0
    BY LanesPositive
  <2>2. n \div I2S_QK = blocks
    <3> HIDE DEF n
    <3> QED
      BY <2>1, LanesPositive, DivModUnique
  <2> QED
    BY <2>2
<1>2. UnpackRow(Pack(codes, n), n) = [k \in 0 .. n - 1 |-> UnpackedCode(Pack(codes, n), k)]
  BY <1>1 DEF UnpackRow
<1>3. \A k \in 0 .. n - 1 : UnpackedCode(Pack(codes, n), k) = codes[k]
  BY UnpackedPlace
<1> HIDE DEF n
<1>4. codes = [k \in 0 .. n - 1 |-> codes[k]]
  BY DEF n
<1> QED
  BY <1>2, <1>3, <1>4 DEF n

\* The same of a tensor, packed as one stream and unpacked row by row: as long as
\* rows are whole blocks, a stride of K / 4 bytes finds the start of each.
THEOREM MatrixUnpackInvertsPack ==
    ASSUME NEW blocks \in Nat \ {0}, NEW N \in Nat,
           NEW codes \in [0 .. N * (blocks * I2S_QK) - 1 -> Codes]
    PROVE  LET K == blocks * I2S_QK
           IN  UnpackMatrix(Pack(codes, N * K), K, N) = codes
<1> DEFINE K == blocks * I2S_QK
           bytes == blocks * Lanes
           packed == Pack(codes, N * K)
           row(j) == [b \in 0 .. bytes - 1 |-> packed[j * bytes + b]]
<1>1. K \in Nat \ {0} /\ bytes \in Nat \ {0} /\ K = 4 * bytes
  <2>1. blocks * I2S_QK > 0 /\ blocks * Lanes > 0
    BY LanesPositive
  <2>2. blocks * I2S_QK = 4 * (blocks * Lanes)
    BY LanesPositive, BlockSize
  <2> QED
    BY <2>1, <2>2, LanesPositive
<1>2. K \div I2S_PER_BYTE = bytes
  <2> HIDE DEF K, bytes
  <2> QED
    BY <1>1 DEF I2S_PER_BYTE
<1>3. (K \div I2S_QK) * I2S_QK = K
  <2>1. K = I2S_QK * blocks + 0
    BY LanesPositive
  <2>2. K \div I2S_QK = blocks
    <3> HIDE DEF K
    <3> QED
      BY <2>1, LanesPositive, DivModUnique
  <2> QED
    BY <2>2
<1>4. N * K = (N * blocks) * I2S_QK /\ N * blocks \in Nat /\ N * K \in Nat
  BY LanesPositive
<1>5. ASSUME NEW x \in 0 .. N * K - 1
      PROVE  UnpackRow(row(x \div K), K)[x % K] = codes[x]
  <2> DEFINE j == x \div K
             k == x % K
             i == k \div I2S_QK
  <2>1. j \in Int /\ k \in 0 .. K - 1 /\ x = K * j + k /\ x \in Nat
    <3>1. K \in Nat \ {0}
      BY <1>1
    <3>2. x \in Nat /\ x \in Int
      BY <1>4
    <3> HIDE DEF K
    <3> QED
      BY <3>1, <3>2, DivMod, Zenon
  <2>2. /\ i \in Nat /\ k % Lanes \in 0 .. Lanes - 1
        /\ k = I2S_QK * i + (k % I2S_QK) /\ k % I2S_QK \in 0 .. I2S_QK - 1
    <3>1. k \in Nat
      BY <2>1
    <3>2. k = I2S_QK * i + (k % I2S_QK) /\ k % I2S_QK \in 0 .. I2S_QK - 1
      <4> HIDE DEF k
      <4> QED
        BY <3>1, LanesPositive, DivMod
    <3> HIDE DEF k
    <3> QED
      BY <3>1, <3>2, Position
  <2> HIDE DEF k, j
  \* The block of x in the tensor, and its places in the block and in the lanes.
  <2>3. x = I2S_QK * (j * blocks + i) + (k % I2S_QK)
    <3>1. K * j = I2S_QK * (j * blocks)
      BY <2>1, LanesPositive
    <3>2. j * blocks \in Int
      BY <2>1
    <3>3. /\ I2S_QK * (j * blocks + i) = I2S_QK * (j * blocks) + I2S_QK * i
          /\ I2S_QK * (j * blocks) \in Int /\ I2S_QK * i \in Int
      <4> HIDE DEF i
      <4>1. I2S_QK \in Int /\ i \in Int
        BY <2>2, LanesPositive
      <4> DEFINE y == j * blocks
      <4>2. y \in Int
        BY <3>2
      <4> HIDE DEF y
      <4>3. /\ I2S_QK * (y + i) = I2S_QK * y + I2S_QK * i
            /\ I2S_QK * y \in Int /\ I2S_QK * i \in Int
        BY <4>1, <4>2, Distribute
      <4> QED
        BY <4>3 DEF y
    <3> HIDE DEF K, i
    <3> QED
      BY <2>1, <2>2, <3>1, <3>3
  <2>4. x \div I2S_QK = j * blocks + i /\ x % I2S_QK = k % I2S_QK
    <3>1. j * blocks + i \in Int
      BY <2>1, <2>2
    <3> HIDE DEF K, i
    <3> QED
      BY <2>2, <2>3, <3>1, LanesPositive, DivModUnique
  <2>5. x % Lanes = k % Lanes
    <3>1. k \in Int /\ k \div Lanes \in Int /\ k = Lanes * (k \div Lanes) + (k % Lanes)
      BY <2>1, LanesPositive, DivMod
    <3>2. K * j = Lanes * (4 * blocks * j)
      BY <2>1, LanesPositive, BlockSize
    <3>3. x = Lanes * (4 * blocks * j + (k \div Lanes)) + (k % Lanes)
      <4>1. Lanes * (4 * blocks * j + (k \div Lanes))
              = Lanes * (4 * blocks * j) + Lanes * (k \div Lanes)
        BY <2>1, <3>1, LanesPositive
      <4>2. Lanes * (4 * blocks * j) \in Int /\ Lanes * (k \div Lanes) \in Int
        BY <2>1, <3>1, LanesPositive
      <4> HIDE DEF K, i
      <4> QED
        BY <2>1, <2>2, <3>1, <3>2, <4>1, <4>2
    <3>4. 4 * blocks * j + (k \div Lanes) \in Int
      BY <2>1, <3>1
    <3> HIDE DEF K, i
    <3> QED
      BY <2>2, <3>3, <3>4, LanesPositive, DivModUnique
  <2>6. i * Lanes + (k % Lanes) \in 0 .. bytes - 1
    <3>1. i <= blocks - 1
      <4>1. I2S_QK * i < I2S_QK * blocks
        <5>1. I2S_QK * i \in Int /\ K = I2S_QK * blocks
          BY <2>2, LanesPositive
        <5> HIDE DEF K, i
        <5> QED
          BY <2>1, <2>2, <5>1, <1>1, LanesPositive
      <4> HIDE DEF i
      <4>2. CASE i >= blocks
        <5>1. I2S_QK * i >= I2S_QK * blocks
          BY <2>2, <4>2, LanesPositive
        <5> QED
          BY <2>2, <4>1, <5>1, LanesPositive
      <4> QED
        BY <2>2, <4>2
    <3>2. i * Lanes <= (blocks - 1) * Lanes
      <4> HIDE DEF i
      <4> QED
        BY <2>2, <3>1, LanesPositive
    <3>3. (blocks - 1) * Lanes = blocks * Lanes - Lanes
      BY LanesPositive
    <3>4. i * Lanes \in Nat
      <4> HIDE DEF i
      <4> QED
        BY <2>2, LanesPositive
    <3>5. k % Lanes \in 0 .. Lanes - 1 /\ blocks * Lanes \in Int
      BY <2>2, LanesPositive
    <3> HIDE DEF i
    <3> QED
      BY <3>2, <3>3, <3>4, <3>5, LanesPositive
  <2>7. row(j)[i * Lanes + (k % Lanes)]
           = packed[(x \div I2S_QK) * Lanes + (x % Lanes)]
    <3>1. row(j)[i * Lanes + (k % Lanes)] = packed[j * bytes + (i * Lanes + (k % Lanes))]
      <4> HIDE DEF bytes, packed, i
      <4> QED
        BY <2>6
    <3>2. j * bytes + (i * Lanes + (k % Lanes)) = (j * blocks + i) * Lanes + (k % Lanes)
      <4>1. j * blocks \in Int /\ (j * blocks) * Lanes = j * (blocks * Lanes)
        BY <2>1, LanesPositive
      <4> HIDE DEF i
      <4>2. (j * blocks + i) * Lanes = (j * blocks) * Lanes + i * Lanes
        BY <2>2, <4>1, LanesPositive, Distribute
      <4>3. (j * blocks) * Lanes \in Int /\ i * Lanes \in Int
        BY <2>2, <4>1, LanesPositive
      <4>4. k % Lanes \in Int
        BY <2>2, LanesPositive
      <4> QED
        BY <4>1, <4>2, <4>3, <4>4
    <3> QED
      BY <2>4, <2>5, <3>1, <3>2
  <2>8. UnpackedCode(row(j), k) = UnpackedCode(packed, x)
    <3> HIDE DEF row, packed
    <3> QED
      BY <2>4, <2>7 DEF UnpackedCode
  <2>9. UnpackedCode(packed, x) = codes[x]
    <3>1. codes \in [0 .. (N * blocks) * I2S_QK - 1 -> Codes]
      BY <1>4
    <3>2. x \in 0 .. (N * blocks) * I2S_QK - 1
      BY <1>4
    <3> QED
      BY <1>4, <3>1, <3>2, UnpackedPlace
  <2>10. UnpackRow(row(j), K)[k] = UnpackedCode(row(j), k)
    <3> HIDE DEF K, row
    <3> QED
      BY <1>3, <2>1 DEF UnpackRow
  <2> QED
    BY <2>8, <2>9, <2>10 DEF j, k
<1>6. UnpackMatrix(packed, K, N)
        = [x \in 0 .. N * K - 1 |-> UnpackRow(row(x \div K), K)[x % K]]
  <2> HIDE DEF K, bytes, packed
  <2> QED
    BY <1>2 DEF UnpackMatrix
<1>7. UnpackMatrix(packed, K, N) = [x \in 0 .. N * K - 1 |-> codes[x]]
  <2> HIDE DEF K, row, packed
  <2> QED
    BY <1>5, <1>6
<1> QED
  BY <1>7

-----------------------------------------------------------------------------
(* Finite sets *)

\* What holds of a set whenever it holds of its smaller subsets holds of a finite set: the
\* smallest subset that is not in G would be.
LEMMA BySmaller ==
    ASSUME NEW S, IsFiniteSet(S), NEW G,
           \A T \in SUBSET S : (\A U \in SUBSET T : U # T => U \in G) => T \in G
    PROVE  S \in G
<1> DEFINE W == (SUBSET S) \ G
<1>. SUFFICES ASSUME S \notin G PROVE FALSE
  OBVIOUS
<1>1. IsWellFoundedOn(StrictSubsetOrdering(S), FiniteSubsetsOf(S))
  BY FS_StrictSubsetOrderingWellFounded
<1>2. W \subseteq FiniteSubsetsOf(S) /\ W # {}
  BY FS_FiniteSubsetsOfFinite
<1>3. PICK T \in W : \A U \in W : ~(<<U, T>> \in StrictSubsetOrdering(S))
  <2>. HIDE DEF W
  <2>. QED BY <1>1, <1>2, WFMin
<1>4. ASSUME NEW U \in SUBSET T, U # T PROVE U \in G
  BY <1>3, <1>4 DEF StrictSubsetOrdering
<1>. QED BY <1>4

Chosen(S) == CHOOSE x \in S : TRUE

LEMMA ChosenIn == ASSUME NEW S, S # {} PROVE Chosen(S) \in S
BY DEF Chosen

\* It is enough that it holds of the empty set, and of a set whenever it does without the
\* element that is chosen of it.
LEMMA ByOne ==
    ASSUME NEW S, IsFiniteSet(S), NEW G, {} \in G,
           \A T \in SUBSET S : T # {} /\ T \ {Chosen(T)} \in G => T \in G
    PROVE  S \in G
<1>1. ASSUME NEW T \in SUBSET S, \A U \in SUBSET T : U # T => U \in G PROVE T \in G
  <2>1. CASE T # {}
    <3>1. T \ {Chosen(T)} \in SUBSET T /\ T \ {Chosen(T)} # T
      BY <2>1, ChosenIn
    <3>. QED BY <1>1, <2>1, <3>1
  <2>. QED BY <2>1
<1>. QED BY <1>1, BySmaller

\* A finite set of numbers has a largest one.
LEMMA Largest ==
    ASSUME NEW S, IsFiniteSet(S), S \subseteq Int, S # {}
    PROVE  Max(S) \in S /\ \A y \in S : y <= Max(S)
<1> DEFINE Has(T) == \E x \in T : \A y \in T : x >= y
           G == {T \in SUBSET S : T # {} => Has(T)}
<1>1. {} \in G
  OBVIOUS
<1>2. ASSUME NEW T \in SUBSET S, T # {}, T \ {Chosen(T)} \in G PROVE T \in G
  <2> DEFINE x == Chosen(T)
  <2>1. x \in T /\ x \in Int
    BY <1>2, ChosenIn
  <2>. HIDE DEF x
  <2>2. CASE T \ {x} = {}
    <3>1. \A y \in T : x >= y
      BY <2>1, <2>2
    <3>. QED BY <2>1, <3>1
  <2>3. CASE T \ {x} # {}
    <3>1. PICK m \in T \ {x} : \A y \in T \ {x} : m >= y
      BY <1>2, <2>3 DEF x
    <3>2. m \in Int
      BY <3>1
    <3>3. CASE x >= m
      <4>1. \A y \in T : x >= y
        BY <2>1, <3>1, <3>2, <3>3
      <4>. QED BY <2>1, <4>1
    <3>4. CASE m >= x
      <4>1. \A y \in T : m >= y
        BY <2>1, <3>1, <3>2, <3>4
      <4>. QED BY <3>1, <4>1
    <3>. QED BY <2>1, <3>2, <3>3, <3>4
  <2>. QED BY <2>2, <2>3
<1>3. S \in G
  <2>. HIDE DEF G
  <2>. QED BY <1>1, <1>2, ByOne
<1>4. Max(S) \in S /\ \A y \in S : Max(S) >= y
  BY <1>3 DEF Max
<1>. QED BY <1>4

-----------------------------------------------------------------------------
(* Sums *)

\* g has the sum of f over every subset of S.
Sums(f, S, g) ==
    g = [T \in SUBSET S |-> IF T = {} THEN 0 ELSE f[Chosen(T)] + g[T \ {Chosen(T)}]]

Total(f, S) == (CHOOSE g : Sums(f, S, g))[S]

LEMMA SumsAt ==
    ASSUME NEW f, NEW S, NEW g, Sums(f, S, g), NEW T \in SUBSET S
    PROVE  /\ T = {} => g[T] = 0
           /\ T # {} => g[T] = f[Chosen(T)] + g[T \ {Chosen(T)}]
<1> DEFINE body(U) == IF U = {} THEN 0 ELSE f[Chosen(U)] + g[U \ {Chosen(U)}]
<1>1. g = [U \in SUBSET S |-> body(U)]
  BY DEF Sums
<1>2. g[T] = body(T)
  <2>. HIDE DEF body
  <2>. QED BY <1>1
<1>. QED BY <1>2

\* The sum does not depend on the set whose subsets are summed.
LEMMA SumsAgree ==
    ASSUME NEW f, NEW A, NEW B, NEW g, NEW h, Sums(f, A, g), Sums(f, B, h),
           NEW S, IsFiniteSet(S), S \subseteq A, S \subseteq B
    PROVE  g[S] = h[S]
<1> DEFINE G == {T \in SUBSET S : g[T] = h[T]}
<1>1. {} \in G
  <2>1. g[{}] = 0 /\ h[{}] = 0
    BY SumsAt
  <2>. QED BY <2>1
<1>2. ASSUME NEW T \in SUBSET S, T # {}, T \ {Chosen(T)} \in G PROVE T \in G
  <2> DEFINE U == T \ {Chosen(T)}
  <2>1. T \in SUBSET A /\ T \in SUBSET B
    OBVIOUS
  <2>2. g[T] = f[Chosen(T)] + g[U]
    BY <1>2, <2>1, SumsAt
  <2>3. h[T] = f[Chosen(T)] + h[U]
    BY <1>2, <2>1, SumsAt
  <2>. QED BY <1>2, <2>2, <2>3
<1>3. S \in G
  <2>. HIDE DEF G
  <2>. QED BY <1>1, <1>2, ByOne
<1>. QED BY <1>3

\* There are such sums: a set's are made of those of its smaller subsets.
LEMMA SumsExist == ASSUME NEW f, NEW S, IsFiniteSet(S) PROVE \E g : Sums(f, S, g)
<1> DEFINE below(U) == CHOOSE g : Sums(f, U, g)
           G == {T \in SUBSET S : \E g : Sums(f, T, g)}
<1>1. ASSUME NEW T \in SUBSET S, \A U \in SUBSET T : U # T => U \in G PROVE T \in G
  <2> DEFINE sum == [U \in SUBSET T |-> below(U)[U]]
             body(U, g) == IF U = {} THEN 0 ELSE f[Chosen(U)] + g[U \ {Chosen(U)}]
             whole == [U \in SUBSET T |-> body(U, sum)]
  <2>1. ASSUME NEW U \in SUBSET T, U # T PROVE Sums(f, U, below(U))
    <3>1. \E g : Sums(f, U, g)
      BY <1>1, <2>1
    <3>. QED BY <3>1
  <2>. HIDE DEF below
  <2>2. ASSUME NEW U \in SUBSET T, U # T PROVE whole[U] = sum[U]
    <3> DEFINE V == U \ {Chosen(U)}
    <3>1. Sums(f, U, below(U)) /\ U \in SUBSET U
      BY <2>1, <2>2
    <3>2. CASE U # {}
      <4>1. V \in SUBSET T /\ V # T /\ V \subseteq U
        BY <3>2, ChosenIn
      <4>2. Sums(f, V, below(V))
        BY <2>1, <4>1
      <4>3. IsFiniteSet(V)
        <5>1. V \in SUBSET S
          OBVIOUS
        <5>. QED BY <5>1, FS_Subset
      <4>4. below(U)[V] = below(V)[V]
        BY <3>1, <4>1, <4>2, <4>3, SumsAgree
      <4>5. below(U)[U] = f[Chosen(U)] + below(U)[V]
        BY <3>1, <3>2, SumsAt
      <4>6. sum[V] = below(V)[V] /\ sum[U] = below(U)[U]
        BY <4>1
      <4>7. whole[U] = f[Chosen(U)] + sum[V]
        BY <3>2
      <4>. QED BY <4>4, <4>5, <4>6, <4>7
    <3>3. CASE U = {}
      <4>1. below(U)[U] = 0
        BY <3>1, <3>3, SumsAt
      <4>. QED BY <3>3, <4>1
    <3>. QED BY <3>2, <3>3
  <2>3. ASSUME NEW U \in SUBSET T PROVE body(U, sum) = body(U, whole)
    <3>1. CASE U # {}
      <4>1. U \ {Chosen(U)} \in SUBSET T /\ U \ {Chosen(U)} # T
        BY <3>1, ChosenIn
      <4>2. whole[U \ {Chosen(U)}] = sum[U \ {Chosen(U)}]
        BY <2>2, <4>1
      <4>. QED BY <4>2
    <3>. QED BY <3>1
  <2>4. whole = [U \in SUBSET T |-> body(U, whole)]
    <3>1. [U \in SUBSET T |-> body(U, sum)] = [U \in SUBSET T |-> body(U, whole)]
      <4>. HIDE DEF body, whole, sum
      <4>. QED BY <2>3
    <3>. QED BY <3>1
  <2>5. Sums(f, T, whole)
    <3>. HIDE DEF whole
    <3>. QED BY <2>4 DEF Sums
  <2>. QED BY <2>5
<1>2. S \in G
  <2>. HIDE DEF G
  <2>. QED BY <1>1, BySmaller
<1>. QED BY <1>2

LEMMA TotalOf ==
    ASSUME NEW f, NEW S, IsFiniteSet(S)
    PROVE  /\ Total(f, {}) = 0
           /\ S # {} => Total(f, S) = f[Chosen(S)] + Total(f, S \ {Chosen(S)})
<1> DEFINE g(T) == CHOOSE h : Sums(f, T, h)
<1>1. ASSUME NEW T \in SUBSET S PROVE Sums(f, T, g(T)) /\ IsFiniteSet(T)
  <2>1. IsFiniteSet(T)
    BY FS_Subset
  <2>. QED BY <2>1, SumsExist
<1>2. Total(f, {}) = 0
  <2>1. Sums(f, {}, g({}))
    BY <1>1
  <2>2. g({})[{}] = 0
    BY <2>1, SumsAt
  <2>. QED BY <2>2 DEF Total
<1>3. ASSUME S # {} PROVE Total(f, S) = f[Chosen(S)] + Total(f, S \ {Chosen(S)})
  <2> DEFINE V == S \ {Chosen(S)}
  <2>1. Sums(f, S, g(S)) /\ Sums(f, V, g(V)) /\ IsFiniteSet(V)
    BY <1>1
  <2>2. g(S)[S] = f[Chosen(S)] + g(S)[V]
    BY <1>3, <2>1, SumsAt
  <2>3. g(S)[V] = g(V)[V]
    BY <2>1, SumsAgree
  <2>. QED BY <2>2, <2>3 DEF Total
<1>. QED BY <1>2, <1>3

\* A sum of integers is one.
LEMMA TotalInt ==
    ASSUME NEW S, IsFiniteSet(S), NEW f, \A x \in S : f[x] \in Int
    PROVE  Total(f, S) \in Int
<1> DEFINE G == {T \in SUBSET S : Total(f, T) \in Int}
<1>1. {} \in G
  <2>1. Total(f, {}) = 0
    BY TotalOf
  <2>. QED BY <2>1
<1>2. ASSUME NEW T \in SUBSET S, T # {}, T \ {Chosen(T)} \in G PROVE T \in G
  <2>1. IsFiniteSet(T) /\ f[Chosen(T)] \in Int
    BY <1>2, FS_Subset, ChosenIn
  <2>2. Total(f, T) = f[Chosen(T)] + Total(f, T \ {Chosen(T)})
    BY <1>2, <2>1, TotalOf
  <2>. QED BY <1>2, <2>1, <2>2
<1>3. S \in G
  <2>. HIDE DEF G
  <2>. QED BY <1>1, <1>2, ByOne
<1>. QED BY <1>3

\* The sum of a difference is the difference of the sums.
LEMMA TotalMinus ==
    ASSUME NEW S, IsFiniteSet(S), NEW f, NEW g, NEW h,
           \A x \in S : f[x] \in Int /\ g[x] \in Int /\ h[x] = f[x] - g[x]
    PROVE  Total(h, S) = Total(f, S) - Total(g, S)
<1> DEFINE G == {T \in SUBSET S : Total(h, T) = Total(f, T) - Total(g, T)}
<1>1. {} \in G
  <2>1. Total(f, {}) = 0 /\ Total(g, {}) = 0 /\ Total(h, {}) = 0
    BY TotalOf
  <2>. QED BY <2>1
<1>2. ASSUME NEW T \in SUBSET S, T # {}, T \ {Chosen(T)} \in G PROVE T \in G
  <2> DEFINE c == Chosen(T)
             U == T \ {c}
  <2>1. IsFiniteSet(T) /\ IsFiniteSet(U) /\ c \in S
    BY <1>2, FS_Subset, ChosenIn
  <2>2. /\ Total(f, T) = f[c] + Total(f, U)
        /\ Total(g, T) = g[c] + Total(g, U)
        /\ Total(h, T) = h[c] + Total(h, U)
    BY <1>2, <2>1, TotalOf
  <2>3. Total(h, U) = Total(f, U) - Total(g, U)
    BY <1>2
  <2>4. Total(f, U) \in Int /\ Total(g, U) \in Int
    <3>1. \A x \in U : f[x] \in Int /\ g[x] \in Int
      OBVIOUS
    <3>. QED BY <2>1, <3>1, TotalInt
  <2>5. f[c] \in Int /\ g[c] \in Int /\ h[c] = f[c] - g[c]
    BY <2>1
  <2>. HIDE DEF c, U
  <2>6. Total(h, T) = Total(f, T) - Total(g, T)
    BY <2>2, <2>3, <2>4, <2>5
  <2>. QED BY <2>6
<1>3. S \in G
  <2>. HIDE DEF G
  <2>. QED BY <1>1, <1>2, ByOne
<1>. QED BY <1>3


-----------------------------------------------------------------------------
(* Activations *)

\* What AbsMax returns is at least 1, bounds every activation, and if it is not 1 it is
\* the magnitude of one of them.
LEMMA AbsMaxBounds ==
    ASSUME NEW D, IsFiniteSet(D), NEW x \in [D -> Int]
    PROVE  /\ AbsMax(x) \in Nat \ {0}
           /\ \A k \in D : Magnitude(x[k]) <= AbsMax(x)
<1> DEFINE mag == [k \in D |-> Magnitude(x[k])]
           S == {mag[k] : k \in D}
           T == S \cup {1}
<1>1. IsFiniteSet(S)
  <2>1. mag \in Surjection(D, S)
    BY DEF Surjection
  <2>. HIDE DEF mag, S
  <2>. QED BY <2>1, FS_Surjection
<1>2. IsFiniteSet(T)
  <2>. HIDE DEF S
  <2>. QED BY <1>1, FS_AddElement
<1>3. T \subseteq Int /\ 1 \in T /\ \A k \in D : Magnitude(x[k]) \in T
  BY DEF Magnitude
<1>4. AbsMax(x) = Max(T)
  <2>1. {Magnitude(x[k]) : k \in DOMAIN x} \cup {1} = T
    OBVIOUS
  <2>. HIDE DEF T
  <2>. QED BY <2>1 DEF AbsMax
<1>5. Max(T) \in T /\ \A y \in T : y <= Max(T)
  <2>. HIDE DEF T
  <2>. QED BY <1>2, <1>3, Largest
<1>. HIDE DEF T
<1>6. AbsMax(x) \in Int /\ 1 <= AbsMax(x)
  BY <1>3, <1>4, <1>5
<1>7. \A k \in D : Magnitude(x[k]) <= AbsMax(x)
  BY <1>3, <1>4, <1>5
<1>. QED BY <1>6, <1>7

\* The larger and the smaller of two numbers.
LEMMA MaxOfTwo == ASSUME NEW a \in Int, NEW b \in Int PROVE Max({a, b}) = IF a >= b THEN a ELSE b
<1>1. CASE a >= b
  <2>1. \A z \in {a, b} : (\A y \in {a, b} : z >= y) <=> z = a
    BY <1>1
  <2>. QED BY <1>1, <2>1 DEF Max
<1>2. CASE ~(a >= b)
  <2>1. \A z \in {a, b} : (\A y \in {a, b} : z >= y) <=> z = b
    BY <1>2
  <2>. QED BY <1>2, <2>1 DEF Max
<1>. QED BY <1>1, <1>2

LEMMA MinOfTwo == ASSUME NEW a \in Int, NEW b \in Int PROVE Min({a, b}) = IF a <= b THEN a ELSE b
<1>1. CASE a <= b
  <2>1. \A z \in {a, b} : (\A y \in {a, b} : z <= y) <=> z = a
    BY <1>1
  <2>. QED BY <1>1, <2>1 DEF Min
<1>2. CASE ~(a <= b)
  <2>1. \A z \in {a, b} : (\A y \in {a, b} : z <= y) <=> z = b
    BY <1>2
  <2>. QED BY <1>2, <2>1 DEF Min
<1>. QED BY <1>1, <1>2

\* A value of int8 is left alone, and what is returned is always one.
LEMMA ClampedInt8 ==
    ASSUME NEW v \in Int
    PROVE  /\ Clamped(v) \in -128 .. 127
           /\ v \in -128 .. 127 => Clamped(v) = v
<1>1. Min({127, v}) = IF 127 <= v THEN 127 ELSE v
  BY MinOfTwo
<1>2. Max({-128, Min({127, v})}) = IF -128 >= Min({127, v}) THEN -128 ELSE Min({127, v})
  BY <1>1, MaxOfTwo
<1>. QED BY <1>1, <1>2 DEF Clamped

\* Rounding an activation that m bounds: the step is the nearest, it fits int8, and only
\* what is as large as m goes to the last one.
LEMMA RoundedNearest ==
    ASSUME NEW a \in Int, NEW m \in Nat \ {0}, Magnitude(a) <= m
    PROVE  LET q == Rounded(127 * a, m)
           IN  /\ q \in -127 .. 127
               /\ 2 * Magnitude(q * m - 127 * a) <= m
               /\ Magnitude(a) = m => Magnitude(q) = 127
<1> DEFINE n == Magnitude(a)
           p == (2 * (127 * n) + m) \div (2 * m)
           r == (2 * (127 * n) + m) % (2 * m)
<1>1. n \in Nat /\ Magnitude(127 * a) = 127 * n /\ (127 * a < 0 <=> a < 0)
  BY DEF Magnitude
<1>2. Rounded(127 * a, m) = IF a < 0 THEN -p ELSE p
  BY <1>1 DEF Rounded
<1>3. p \in Int /\ r \in 0 .. 2 * m - 1 /\ 2 * (127 * n) + m = (2 * m) * p + r
  <2> DEFINE u == 2 * (127 * n) + m
             w == 2 * m
  <2>1. u \in Int /\ w \in Nat \ {0}
    BY <1>1
  <2>. HIDE DEF u, w
  <2>2. u \div w \in Int /\ u % w \in 0 .. w - 1 /\ u = w * (u \div w) + (u % w)
    BY <2>1, DivMod
  <2>. QED BY <2>2 DEF u, w
<1>. HIDE DEF p, r, n
<1>4. p * m \in Int /\ (2 * m) * p = 2 * (p * m) /\ (-p) * m = -(p * m)
  BY <1>3
<1>5. PICK t \in Int : t = p * m
  BY <1>4
<1>6. 254 * n + m = 2 * t + r
  BY <1>1, <1>3, <1>4, <1>5
<1>7. 2 * Magnitude(t - 127 * n) <= m
  BY <1>1, <1>3, <1>5, <1>6 DEF Magnitude
<1>8. p >= 0
  <2>1. CASE p <= -1
    <3>1. p * m <= -m
      BY <1>3, <2>1
    <3>. QED BY <1>1, <1>3, <1>5, <1>6, <3>1
  <2>. QED BY <1>3, <2>1
<1>9. p <= 127
  <2>1. CASE p >= 128
    <3>1. p * m >= 128 * m
      BY <1>3, <2>1
    <3>2. n <= m
      BY DEF n
    <3>. QED BY <1>1, <1>3, <1>5, <1>6, <3>1, <3>2
  <2>. QED BY <1>3, <2>1
<1>10. n = m => p = 127
  <2>1. SUFFICES ASSUME n = m, p <= 126 PROVE FALSE
    BY <1>3, <1>9
  <2>2. p * m <= 126 * m
    BY <1>3, <2>1
  <2>. QED BY <1>1, <1>3, <1>5, <1>6, <2>1, <2>2
<1>11. CASE a < 0
  <2>1. n = -a /\ Rounded(127 * a, m) = -p
    BY <1>2, <1>11 DEF n, Magnitude
  <2>2. (-p) * m - 127 * a = -(t - 127 * n)
    BY <1>4, <1>5, <2>1
  <2>3. Magnitude(-(t - 127 * n)) = Magnitude(t - 127 * n)
    BY <1>1 DEF Magnitude
  <2>4. Magnitude(-p) = p
    BY <1>3, <1>8 DEF Magnitude
  <2>5. -p \in -127 .. 127
    BY <1>3, <1>8, <1>9
  <2>. QED BY <1>7, <1>10, <2>1, <2>2, <2>3, <2>4, <2>5 DEF n
<1>12. CASE ~(a < 0)
  <2>1. n = a /\ Rounded(127 * a, m) = p
    BY <1>2, <1>12 DEF n, Magnitude
  <2>2. p * m - 127 * a = t - 127 * n
    BY <1>5, <2>1
  <2>3. Magnitude(p) = p
    BY <1>3, <1>8 DEF Magnitude
  <2>4. p \in -127 .. 127
    BY <1>3, <1>8, <1>9
  <2>. QED BY <1>7, <1>10, <2>1, <2>2, <2>3, <2>4 DEF n
<1>. QED BY <1>11, <1>12

\* Quantize never has a value to cut: what it returns of activation k is what Rounded did.
LEMMA Quantized ==
    ASSUME NEW D, IsFiniteSet(D), NEW x \in [D -> Int]
    PROVE  LET q == Quantize(x)
               m == AbsMax(x)
           IN  /\ q \in [D -> -127 .. 127]
               /\ \A k \in D : /\ 2 * Magnitude(q[k] * m - 127 * x[k]) <= m
                               /\ Magnitude(x[k]) = m => Magnitude(q[k]) = 127
<1> DEFINE q == Quantize(x)
           m == AbsMax(x)
<1>1. m \in Nat \ {0} /\ \A k \in D : Magnitude(x[k]) <= m
  BY AbsMaxBounds
<1>2. q = [k \in D |-> Clamped(Rounded(127 * x[k], m))]
  BY DEF Quantize
<1>3. ASSUME NEW k \in D
      PROVE  /\ q[k] \in -127 .. 127
             /\ 2 * Magnitude(q[k] * m - 127 * x[k]) <= m
             /\ Magnitude(x[k]) = m => Magnitude(q[k]) = 127
  <2> DEFINE v == Rounded(127 * x[k], m)
  <2>1. q[k] = Clamped(v)
    BY <1>2
  <2>. HIDE DEF m, q
  <2>2. /\ v \in -127 .. 127
        /\ 2 * Magnitude(v * m - 127 * x[k]) <= m
        /\ Magnitude(x[k]) = m => Magnitude(v) = 127
    <3>1. x[k] \in Int
      OBVIOUS
    <3>. QED BY <1>1, <3>1, RoundedNearest
  <2>. HIDE DEF v
  <2>3. Clamped(v) = v
    <3>1. v \in Int /\ v \in -128 .. 127
      BY <2>2
    <3>. QED BY <3>1, ClampedInt8
  <2>. QED BY <2>1, <2>2, <2>3
<1>. HIDE DEF m
<1>4. q \in [D -> -127 .. 127]
  <2>1. DOMAIN q = D /\ q = [k \in D |-> q[k]]
    BY <1>2
  <2>. HIDE DEF q
  <2>. QED BY <1>3, <2>1
<1>. HIDE DEF q
<1>. QED BY <1>3, <1>4 DEF q, m

-----------------------------------------------------------------------------
(* The sums of the two engines *)

LEMMA CodesTotal ==
    ASSUME NEW codes, NEW q
    PROVE  MapThenSumSet(LAMBDA k : codes[k] * q[k], DOMAIN q)
             = Total([k \in DOMAIN q |-> codes[k] * q[k]], DOMAIN q)
<1> DEFINE D == DOMAIN q
           f == [k \in D |-> codes[k] * q[k]]
           body(h) == [s \in SUBSET D |->
                          IF s = {} THEN 0
                          ELSE codes[Chosen(s)] * q[Chosen(s)] + h[s \ {Chosen(s)}]]
<1>1. MapThenSumSet(LAMBDA k : codes[k] * q[k], D) = (CHOOSE h : h = body(h))[D]
  BY DEF MapThenSumSet, MapThenFoldSet, Chosen
<1>2. ASSUME NEW h PROVE Sums(f, D, h) <=> h = body(h)
  <2>1. ASSUME NEW s \in SUBSET D, s # {}
        PROVE  f[Chosen(s)] = codes[Chosen(s)] * q[Chosen(s)]
    BY <2>1, ChosenIn
  <2>2. body(h) = [s \in SUBSET D |->
                     IF s = {} THEN 0 ELSE f[Chosen(s)] + h[s \ {Chosen(s)}]]
    <3>. HIDE DEF f, D
    <3>. QED BY <2>1
  <2>. HIDE DEF body, f, D
  <2>. QED BY <2>2 DEF Sums
<1>. HIDE DEF body
<1>3. (CHOOSE h : Sums(f, D, h)) = (CHOOSE h : h = body(h))
  BY <1>2
<1>. QED BY <1>1, <1>3 DEF Total

LEMMA SignedTotal ==
    ASSUME NEW codes, NEW q
    PROVE  NpuSum(codes, q) = Total([k \in DOMAIN q |-> Signed(codes[k]) * q[k]], DOMAIN q)
<1> DEFINE D == DOMAIN q
           f == [k \in D |-> Signed(codes[k]) * q[k]]
           body(h) == [s \in SUBSET D |->
                          IF s = {} THEN 0
                          ELSE Signed(codes[Chosen(s)]) * q[Chosen(s)] + h[s \ {Chosen(s)}]]
<1>1. NpuSum(codes, q) = (CHOOSE h : h = body(h))[D]
  BY DEF NpuSum, MapThenSumSet, MapThenFoldSet, Chosen
<1>2. ASSUME NEW h PROVE Sums(f, D, h) <=> h = body(h)
  <2>1. ASSUME NEW s \in SUBSET D, s # {}
        PROVE  f[Chosen(s)] = Signed(codes[Chosen(s)]) * q[Chosen(s)]
    BY <2>1, ChosenIn
  <2>2. body(h) = [s \in SUBSET D |->
                     IF s = {} THEN 0 ELSE f[Chosen(s)] + h[s \ {Chosen(s)}]]
    <3>. HIDE DEF f, D
    <3>. QED BY <2>1
  <2>. HIDE DEF body, f, D
  <2>. QED BY <2>2 DEF Sums
<1>. HIDE DEF body
<1>3. (CHOOSE h : Sums(f, D, h)) = (CHOOSE h : h = body(h))
  BY <1>2
<1>. QED BY <1>1, <1>3 DEF Total

LEMMA ActTotal == ASSUME NEW q PROVE ActSum(q) = Total(q, DOMAIN q)
<1> DEFINE D == DOMAIN q
           body(h) == [s \in SUBSET D |->
                          IF s = {} THEN 0 ELSE q[Chosen(s)] + h[s \ {Chosen(s)}]]
<1>1. ActSum(q) = (CHOOSE h : h = body(h))[D]
  BY DEF ActSum, MapThenSumSet, MapThenFoldSet, Chosen
<1>2. \A h : Sums(q, D, h) <=> h = body(h)
  BY DEF Sums
<1>. HIDE DEF body
<1>. QED BY <1>1, <1>2 DEF Total

\* The offset identity of bitnet_i2s.h:39-41, for every token and every row of codes.
LEMMA OffsetIdentity ==
    ASSUME NEW D, IsFiniteSet(D), NEW codes \in [D -> Codes], NEW q \in [D -> Int]
    PROVE  CpuSum(codes, q) = NpuSum(codes, q)
<1> DEFINE f == [k \in D |-> codes[k] * q[k]]
           h == [k \in D |-> Signed(codes[k]) * q[k]]
<1>1. ASSUME NEW k \in D PROVE f[k] \in Int /\ q[k] \in Int /\ h[k] = f[k] - q[k]
  <2>1. codes[k] \in Int /\ q[k] \in Int
    BY DEF Codes
  <2>2. (codes[k] - 1) * q[k] = codes[k] * q[k] - q[k] /\ codes[k] * q[k] \in Int
    BY <2>1
  <2>. QED BY <2>1, <2>2 DEF Signed
<1>2. Total(h, D) = Total(f, D) - Total(q, D)
  <2>. HIDE DEF f, h
  <2>. QED BY <1>1, TotalMinus
<1>3. DOMAIN q = D
  OBVIOUS
<1>. QED BY <1>2, <1>3, CodesTotal, SignedTotal, ActTotal DEF CpuSum

-----------------------------------------------------------------------------
(* Theorems about the calls *)

\* Between calls there are no inputs, and in one there are those it was given.
CallsInv == call = NoCall \/ call \in Calls

LEMMA CallsInvariance == Spec => []CallsInv
<1>1. Init => CallsInv
  BY DEF Init, CallsInv
<1>2. CallsInv /\ [Call \/ Return]_call => CallsInv'
  BY DEF CallsInv, Call, Return
<1>. QED BY <1>1, <1>2, PTL DEF Spec

\* bitnet_i2s.h:74: in every call of the codec, for every size of tensor, unpacking row by
\* row gives back the codes that were packed as one stream.
THEOREM EveryTensorUnpacked == Spec => []UnpackInvertsPack
<1>1. CallsInv => UnpackInvertsPack
  <2> SUFFICES ASSUME CallsInv, call.kind = "pack"
               PROVE  UnpackMatrix(Pack(call.codes, call.N * call.K), call.K, call.N)
                        = call.codes
    BY DEF UnpackInvertsPack
  <2>1. call \in Calls
    BY DEF CallsInv, NoCall
  <2>2. /\ call.K \in Nat \ {0} /\ call.K % I2S_QK = 0 /\ call.N \in Nat
        /\ call.codes \in [0 .. call.N * call.K - 1 -> Codes]
    BY <2>1, CallsAssumption
  <2>3. PICK blocks \in Nat \ {0} : call.K = blocks * I2S_QK
    <3> DEFINE b == call.K \div I2S_QK
    <3>1. b \in Int /\ call.K = I2S_QK * b + (call.K % I2S_QK)
      <4>1. call.K \in Int
        BY <2>2
      <4>. QED BY <4>1, LanesPositive, DivMod, Zenon
    <3>. HIDE DEF b
    <3>2. I2S_QK * b \in Int /\ call.K = b * I2S_QK
      BY <2>2, <3>1, LanesPositive
    <3>3. CASE b <= 0
      <4>1. b * I2S_QK <= 0
        BY <3>1, <3>3, LanesPositive
      <4>. QED BY <2>2, <3>2, <4>1
    <3>. QED BY <3>1, <3>2, <3>3
  <2>. QED BY <2>2, <2>3, MatrixUnpackInvertsPack
<1>. QED BY <1>1, CallsInvariance, PTL

\* The tokens of the calls: finitely many activations, as many codes.
LEMMA TokenOf ==
    ASSUME CallsInv, call.kind = "token"
    PROVE  LET D == 0 .. call.K - 1
           IN  IsFiniteSet(D) /\ call.x \in [D -> Int] /\ call.codes \in [D -> Codes]
<1>1. call \in Calls
  BY DEF CallsInv, NoCall
<1>2. /\ call.K \in Nat
      /\ call.x \in [0 .. call.K - 1 -> Int] /\ call.codes \in [0 .. call.K - 1 -> Codes]
  BY <1>1, CallsAssumption
<1>3. 0 \in Int /\ call.K - 1 \in Int
  BY <1>2
<1>. QED BY <1>2, <1>3, FS_Interval

\* i2s_quantize_activations: in every call, whatever the activations are, each is
\* within half a step of what it is quantized to, and the largest is not cut.
THEOREM TokensQuantizedToNearest == Spec => []QuantizedToNearest
<1>1. CallsInv => QuantizedToNearest
  <2> SUFFICES ASSUME CallsInv, call.kind = "token"
               PROVE  LET q == Quantize(call.x)
                          m == AbsMax(call.x)
                      IN  /\ \A k \in DOMAIN q : 2 * Magnitude(q[k] * m - 127 * call.x[k]) <= m
                          /\ \A k \in DOMAIN q : Magnitude(call.x[k]) = m
                                                   => Magnitude(q[k]) = 127
    BY DEF QuantizedToNearest
  <2> DEFINE D == 0 .. call.K - 1
             q == Quantize(call.x)
             m == AbsMax(call.x)
  <2>1. IsFiniteSet(D) /\ call.x \in [D -> Int]
    BY TokenOf
  <2>. HIDE DEF D
  <2>2. /\ q \in [D -> -127 .. 127]
        /\ \A k \in D : /\ 2 * Magnitude(q[k] * m - 127 * call.x[k]) <= m
                        /\ Magnitude(call.x[k]) = m => Magnitude(q[k]) = 127
    BY <2>1, Quantized
  <2>3. DOMAIN q = D
    <3>. HIDE DEF q
    <3>. QED BY <2>2
  <2>. HIDE DEF q, m
  <2>4. /\ \A k \in DOMAIN q : 2 * Magnitude(q[k] * m - 127 * call.x[k]) <= m
        /\ \A k \in DOMAIN q : Magnitude(call.x[k]) = m => Magnitude(q[k]) = 127
    BY <2>2, <2>3
  <2>. QED BY <2>4 DEF q, m
<1>. QED BY <1>1, CallsInvariance, PTL

\* The engine a token is given to does not change its sums: in every call, what the CPU
\* makes of unsigned codes is what the NPU makes of signed weights.
THEOREM TokensSummedAlike == Spec => []EnginesAgree
<1>1. CallsInv => EnginesAgree
  <2> SUFFICES ASSUME CallsInv, call.kind = "token"
               PROVE  CpuSum(call.codes, Quantize(call.x)) = NpuSum(call.codes, Quantize(call.x))
    BY DEF EnginesAgree
  <2> DEFINE D == 0 .. call.K - 1
             q == Quantize(call.x)
  <2>1. IsFiniteSet(D) /\ call.x \in [D -> Int] /\ call.codes \in [D -> Codes]
    BY TokenOf
  <2>. HIDE DEF D
  <2>2. q \in [D -> -127 .. 127]
    BY <2>1, Quantized
  <2>. HIDE DEF q
  <2>3. q \in [D -> Int]
    BY <2>2
  <2>4. CpuSum(call.codes, q) = NpuSum(call.codes, q)
    BY <2>1, <2>3, OffsetIdentity
  <2>. QED BY <2>4 DEF q
<1>. QED BY <1>1, CallsInvariance, PTL

-----------------------------------------------------------------------------
(* Sums over 0 .. n - 1 *)

\* What holds of 0 and of a number whenever it holds of the one before holds of all: the
\* smallest that is not in G would be.
LEMMA ByCounting ==
    ASSUME NEW G, 0 \in G, \A n \in Nat : n \in G => n + 1 \in G
    PROVE  \A n \in Nat : n \in G
<1> DEFINE W == Nat \ G
<1>. SUFFICES ASSUME W # {} PROVE FALSE
  OBVIOUS
<1>1. PICK n \in W : \A k \in W : ~(<<k, n>> \in OpToRel(<, Nat))
  <2>1. W \subseteq Nat
    OBVIOUS
  <2>. HIDE DEF W
  <2>. QED BY <2>1, NatLessThanWellFounded, WFMin
<1>2. n # 0 /\ n \in Nat
  OBVIOUS
<1>3. n - 1 \in Nat /\ n - 1 < n /\ n = (n - 1) + 1
  BY <1>2
<1>4. n - 1 \notin W
  BY <1>1, <1>2, <1>3 DEF OpToRel
<1>5. n - 1 \in G
  BY <1>3, <1>4
<1>6. (n - 1) + 1 \in G
  BY <1>3, <1>5
<1>. QED BY <1>3, <1>6

\* The sum of two functions that agree is the same.
LEMMA TotalSame ==
    ASSUME NEW S, IsFiniteSet(S), NEW f, NEW g, \A x \in S : f[x] = g[x]
    PROVE  Total(f, S) = Total(g, S)
<1> DEFINE G == {T \in SUBSET S : Total(f, T) = Total(g, T)}
<1>1. {} \in G
  <2>1. Total(f, {}) = 0 /\ Total(g, {}) = 0
    BY TotalOf
  <2>. QED BY <2>1
<1>2. ASSUME NEW T \in SUBSET S, T # {}, T \ {Chosen(T)} \in G PROVE T \in G
  <2>1. IsFiniteSet(T) /\ f[Chosen(T)] = g[Chosen(T)]
    BY <1>2, FS_Subset, ChosenIn
  <2>2. /\ Total(f, T) = f[Chosen(T)] + Total(f, T \ {Chosen(T)})
        /\ Total(g, T) = g[Chosen(T)] + Total(g, T \ {Chosen(T)})
    BY <1>2, <2>1, TotalOf
  <2>. QED BY <1>2, <2>1, <2>2
<1>3. S \in G
  <2>. HIDE DEF G
  <2>. QED BY <1>1, <1>2, ByOne
<1>. QED BY <1>3

\* The sum does not depend on the order in which elements are chosen: any can be first.
LEMMA TotalWithout ==
    ASSUME NEW S, IsFiniteSet(S), NEW f, \A x \in S : f[x] \in Int, NEW a \in S
    PROVE  Total(f, S) = f[a] + Total(f, S \ {a})
<1> DEFINE First(T) == \A x \in T : Total(f, T) = f[x] + Total(f, T \ {x})
           G == {T \in SUBSET S : First(T)}
<1>1. ASSUME NEW T \in SUBSET S, \A U \in SUBSET T : U # T => U \in G,
             NEW x \in T
      PROVE  Total(f, T) = f[x] + Total(f, T \ {x})
  <2> DEFINE c == Chosen(T)
  <2>1. IsFiniteSet(T) /\ T # {} /\ c \in T
    BY FS_Subset, ChosenIn
  <2>2. Total(f, T) = f[c] + Total(f, T \ {c})
    BY <2>1, TotalOf
  <2>. HIDE DEF c
  <2>3. CASE x = c
    BY <2>2, <2>3
  <2>4. CASE x # c
    <3>1. T \ {c} \in SUBSET T /\ T \ {c} # T /\ x \in T \ {c}
      BY <2>1, <2>4
    <3>2. T \ {x} \in SUBSET T /\ T \ {x} # T /\ c \in T \ {x}
      BY <2>1, <2>4
    <3>3. Total(f, T \ {c}) = f[x] + Total(f, (T \ {c}) \ {x})
      BY <1>1, <3>1
    <3>4. Total(f, T \ {x}) = f[c] + Total(f, (T \ {x}) \ {c})
      BY <1>1, <3>2
    <3>5. (T \ {c}) \ {x} = (T \ {x}) \ {c}
      OBVIOUS
    <3>6. Total(f, (T \ {c}) \ {x}) \in Int
      <4>1. IsFiniteSet((T \ {c}) \ {x})
        BY <2>1, FS_Subset
      <4>. QED BY <4>1, TotalInt
    <3>7. f[x] \in Int /\ f[c] \in Int
      BY <2>1
    <3>8. PICK t \in Int : t = Total(f, (T \ {c}) \ {x})
      BY <3>6
    <3>9. Total(f, T) = f[c] + (f[x] + t) /\ Total(f, T \ {x}) = f[c] + t
      BY <2>2, <3>3, <3>4, <3>5, <3>8
    <3>. QED BY <3>7, <3>9
  <2>. QED BY <2>3, <2>4
<1>2. S \in G
  <2>1. \A T \in SUBSET S : (\A U \in SUBSET T : U # T => U \in G) => T \in G
    BY <1>1
  <2>. HIDE DEF G
  <2>. QED BY <2>1, BySmaller
<1>. QED BY <1>2

\* The last element of an interval.
LEMMA TotalLast ==
    ASSUME NEW n \in Nat, NEW f, \A x \in 0 .. n : f[x] \in Int
    PROVE  Total(f, 0 .. n) = Total(f, 0 .. n - 1) + f[n]
<1>1. IsFiniteSet(0 .. n) /\ IsFiniteSet(0 .. n - 1)
  BY FS_Interval
<1>2. n \in 0 .. n /\ (0 .. n) \ {n} = 0 .. n - 1
  OBVIOUS
<1>3. Total(f, 0 .. n) = f[n] + Total(f, (0 .. n) \ {n})
  BY <1>1, <1>2, TotalWithout
<1>4. \A x \in 0 .. n - 1 : f[x] \in Int
  OBVIOUS
<1>5. Total(f, 0 .. n - 1) \in Int
  BY <1>1, <1>4, TotalInt
<1>6. f[n] \in Int
  BY <1>2
<1>7. Total(f, 0 .. n) = f[n] + Total(f, 0 .. n - 1)
  BY <1>2, <1>3
<1>. QED BY <1>5, <1>6, <1>7

LEMMA TotalNone == ASSUME NEW f PROVE Total(f, 0 .. -1) = 0
<1>1. 0 .. -1 = {}
  OBVIOUS
<1>2. IsFiniteSet({})
  BY FS_EmptySet
<1>. QED BY <1>1, <1>2, TotalOf

\* A sum over an interval, cut in two.
LEMMA TotalTwo ==
    ASSUME NEW m \in Nat, NEW n \in Nat,
           NEW all, NEW first, NEW last,
           all = 0 .. m + n - 1, first = 0 .. m - 1, last = 0 .. n - 1,
           NEW f, NEW g, \A x \in all : f[x] \in Int, \A x \in last : g[x] = f[m + x]
    PROVE  Total(f, all) = Total(f, first) + Total(g, last)
<1> DEFINE Cut(k) == Total(f, 0 .. m + k - 1) = Total(f, 0 .. m - 1) + Total(g, 0 .. k - 1)
           G == {k \in Nat : k <= n => Cut(k)}
<1>0. Total(f, 0 .. m - 1) \in Int
  <2>1. IsFiniteSet(0 .. m - 1) /\ \A x \in 0 .. m - 1 : f[x] \in Int
    BY FS_Interval
  <2>. QED BY <2>1, TotalInt
<1>1. 0 \in G
  <2>1. 0 .. m + 0 - 1 = 0 .. m - 1 /\ 0 .. 0 - 1 = 0 .. -1
    OBVIOUS
  <2>. QED BY <1>0, <2>1, TotalNone
<1>2. ASSUME NEW k \in Nat, k \in G PROVE k + 1 \in G
  <2>. SUFFICES ASSUME k + 1 <= n PROVE Cut(k + 1)
    OBVIOUS
  <2>1. Total(f, 0 .. m + k - 1) = Total(f, 0 .. m - 1) + Total(g, 0 .. k - 1)
    BY <1>2
  <2>2. Total(f, 0 .. m + k) = Total(f, 0 .. m + k - 1) + f[m + k]
    <3>1. m + k \in Nat /\ \A x \in 0 .. m + k : f[x] \in Int
      OBVIOUS
    <3>. QED BY <3>1, TotalLast
  <2>3. \A x \in 0 .. k : g[x] \in Int
    <3>1. \A x \in 0 .. k : x \in 0 .. n - 1 /\ m + x \in 0 .. m + n - 1
      OBVIOUS
    <3>. QED BY <3>1
  <2>4. Total(g, 0 .. k) = Total(g, 0 .. k - 1) + g[k]
    BY <2>3, TotalLast
  <2>5. Total(g, 0 .. k - 1) \in Int
    <3>1. IsFiniteSet(0 .. k - 1)
      BY FS_Interval
    <3>2. \A x \in 0 .. k - 1 : g[x] \in Int
      BY <2>3
    <3>. QED BY <3>1, <3>2, TotalInt
  <2>6. g[k] = f[m + k] /\ g[k] \in Int
    BY <2>3
  <2>7. m + (k + 1) - 1 = m + k /\ (k + 1) - 1 = k
    OBVIOUS
  <2>. QED BY <1>0, <2>1, <2>2, <2>4, <2>5, <2>6, <2>7
<1>3. n \in G
  <2>1. \A k \in Nat : k \in G => k + 1 \in G
    BY <1>2
  <2>. HIDE DEF G
  <2>. QED BY <1>1, <2>1, ByCounting
<1>. QED BY <1>3

\* A sum over rows of w elements is the sum of the rows' sums.
LEMMA TotalRows ==
    ASSUME NEW rows \in Nat, NEW w \in Nat \ {0}, NEW f,
           \A x \in 0 .. rows * w - 1 : f[x] \in Int
    PROVE  Total(f, 0 .. rows * w - 1)
             = Total([i \in 0 .. rows - 1 |->
                         Total([s \in 0 .. w - 1 |-> f[i * w + s]], 0 .. w - 1)],
                     0 .. rows - 1)
<1> DEFINE row(i) == [s \in 0 .. w - 1 |-> f[i * w + s]]
           sum == [i \in 0 .. rows - 1 |-> Total(row(i), 0 .. w - 1)]
           Cut(k) == Total(f, 0 .. k * w - 1) = Total(sum, 0 .. k - 1)
           G == {k \in Nat : k <= rows => Cut(k)}
<1>1. 0 \in G
  <2>1. 0 .. 0 * w - 1 = 0 .. -1 /\ 0 .. 0 - 1 = 0 .. -1
    OBVIOUS
  <2>. QED BY <2>1, TotalNone
<1>2. ASSUME NEW k \in Nat, k \in G, k + 1 <= rows PROVE Cut(k + 1)
  <2>1. Cut(k)
    BY <1>2
  <2>2. k * w \in Nat /\ (k + 1) * w = k * w + w /\ (k + 1) * w <= rows * w
    <3>1. \A a, b \in Nat : a <= b => a * w <= b * w
      OBVIOUS
    <3>. QED BY <1>2, <3>1
  <2>3. PICK m \in Nat : m = k * w
    BY <2>2
  <2>4. \A x \in 0 .. m + w - 1 : f[x] \in Int
    <3>1. rows * w \in Nat /\ m + w <= rows * w
      BY <2>2, <2>3
    <3>. QED BY <3>1
  <2>5. \A s \in 0 .. w - 1 : row(k)[s] = f[m + s]
    BY <2>3
  <2>6. Total(f, 0 .. m + w - 1) = Total(f, 0 .. m - 1) + Total(row(k), 0 .. w - 1)
    <3> DEFINE r == row(k)
               all == 0 .. m + w - 1
               first == 0 .. m - 1
               last == 0 .. w - 1
    <3>1. w \in Nat /\ \A s \in last : r[s] = f[m + s]
      BY <2>5
    <3>. HIDE DEF r, row, sum, G
    <3>2. Total(f, all) = Total(f, first) + Total(r, last)
      <4>1. \A x \in all : f[x] \in Int
        BY <2>4
      <4>2. all = 0 .. m + w - 1 /\ first = 0 .. m - 1 /\ last = 0 .. w - 1
        OBVIOUS
      <4>. HIDE DEF all, first, last
      <4>. QED BY <3>1, <4>1, <4>2, TotalTwo
    <3>. QED BY <3>2 DEF r, row
  <2>7. \A i \in 0 .. k : sum[i] = Total(row(i), 0 .. w - 1) /\ sum[i] \in Int
    <3>. TAKE i \in 0 .. k
    <3>1. sum[i] = Total(row(i), 0 .. w - 1)
      BY <1>2
    <3>2. \A s \in 0 .. w - 1 : row(i)[s] \in Int
      <4>. TAKE s \in 0 .. w - 1
      <4>1. i * w \in Nat /\ i * w <= k * w
        <5>1. \A a, b \in Nat : a <= b => a * w \in Nat /\ a * w <= b * w
          OBVIOUS
        <5>. QED BY <5>1
      <4>2. i * w + s \in 0 .. m + w - 1
        BY <2>3, <4>1
      <4>. QED BY <2>4, <4>2
    <3>3. IsFiniteSet(0 .. w - 1)
      BY FS_Interval
    <3>4. Total(row(i), 0 .. w - 1) \in Int
      <4>. HIDE DEF row
      <4>. QED BY <3>2, <3>3, TotalInt
    <3>. QED BY <3>1, <3>4
  <2>8. Total(sum, 0 .. k) = Total(sum, 0 .. k - 1) + sum[k]
    <3>. HIDE DEF sum
    <3>. QED BY <2>7, TotalLast
  <2>9. sum[k] = Total(row(k), 0 .. w - 1)
    <3>1. k \in 0 .. k
      OBVIOUS
    <3>. HIDE DEF sum, row
    <3>. QED BY <2>7, <3>1
  <2>. HIDE DEF row, sum
  <2>10. (k + 1) * w - 1 = m + w - 1 /\ (k + 1) - 1 = k
    BY <2>2, <2>3
  <2>. QED BY <2>1, <2>3, <2>6, <2>8, <2>9, <2>10
<1>3. rows \in G
  <2>1. \A k \in Nat : k \in G => k + 1 \in G
    BY <1>2
  <2>. HIDE DEF G
  <2>. QED BY <1>1, <2>1, ByCounting
<1>. QED BY <1>3

-----------------------------------------------------------------------------
(* Places in a tiled matrix *)

\* Row a and column b of h rows of w are a place among h * w, and no other row and column
\* have it.
LEMMA Below ==
    ASSUME NEW h \in Nat, NEW w \in Nat \ {0}, NEW a \in 0 .. h - 1, NEW b \in 0 .. w - 1
    PROVE  /\ a * w + b \in 0 .. h * w - 1
           /\ (a * w + b) \div w = a /\ (a * w + b) % w = b
<1>1. a * w \in Nat /\ h * w \in Nat /\ a * w = w * a
  OBVIOUS
<1>2. (a + 1) * w <= h * w /\ (a + 1) * w = a * w + w
  <2>1. \A c, d \in Nat : c <= d => c * w <= d * w
    OBVIOUS
  <2>2. a + 1 \in Nat /\ a + 1 <= h
    OBVIOUS
  <2>. QED BY <2>1, <2>2
<1>3. a * w + b \in 0 .. h * w - 1
  BY <1>1, <1>2
<1>4. (w * a + b) \div w = a /\ (w * a + b) % w = b
  <2>1. a \in Int
    OBVIOUS
  <2>. QED BY <2>1, DivModUnique
<1>. QED BY <1>1, <1>3, <1>4

\* The row and the column of a place.
LEMMA Within ==
    ASSUME NEW h \in Nat, NEW w \in Nat \ {0}, NEW x \in 0 .. h * w - 1
    PROVE  /\ x \div w \in 0 .. h - 1 /\ x % w \in 0 .. w - 1
           /\ x = (x \div w) * w + (x % w)
<1>0. h * w \in Nat /\ x \in Nat /\ x < h * w
  <2>1. h * w \in Nat
    OBVIOUS
  <2>. QED BY <2>1
<1> DEFINE q == x \div w
           r == x % w
<1>1. q \in Int /\ r \in 0 .. w - 1 /\ x = w * q + r
  BY <1>0, DivMod
<1>. HIDE DEF q, r
<1>2. w * q \in Int /\ w * q = q * w
  BY <1>1
<1>3. q >= 0
  <2>1. CASE q <= -1
    <3>1. q * w <= -w
      BY <1>1, <2>1
    <3>. QED BY <1>0, <1>1, <1>2, <3>1
  <2>. QED BY <1>1, <2>1
<1>4. q < h
  <2>1. CASE q >= h
    <3>1. q * w >= h * w
      BY <1>1, <2>1
    <3>. QED BY <1>0, <1>1, <1>2, <3>1
  <2>. QED BY <1>1, <2>1
<1>5. q \in 0 .. h - 1 /\ x = q * w + r
  BY <1>1, <1>2, <1>3, <1>4
<1>. QED BY <1>1, <1>5 DEF q, r

\* The place of row a and column b of tile (t, u).
TilePlace(t, u, a, b, h, w, cols) == (t * cols + u) * (h * w) + (a * w + b)

\* Tile (t, u) has what rows t * h .. and columns u * w .. of the matrix have.
LEMMA TileHolds ==
    ASSUME NEW h, NEW w, NEW cols, NEW t, NEW u, NEW a, NEW b, NEW m,
           h \in Nat \ {0}, w \in Nat \ {0}, cols \in Nat \ {0},
           t \in Nat, u \in 0 .. cols - 1, a \in 0 .. h - 1, b \in 0 .. w - 1
    PROVE  TileMajor(m, TilePlace(t, u, a, b, h, w, cols), h, w, cols)
             = m[<<t * h + a, u * w + b>>]
<1> DEFINE x == TilePlace(t, u, a, b, h, w, cols)
           hw == h * w
           tile == t * cols + u
           place == a * w + b
<1>1. hw \in Nat \ {0}
  <2>1. h * w > 0
    OBVIOUS
  <2>. QED BY <2>1
<1>2. place \in 0 .. hw - 1 /\ place \div w = a /\ place % w = b
  <2>1. h \in Nat
    OBVIOUS
  <2>. QED BY <2>1, Below
<1>3. tile \in Nat /\ tile \div cols = t /\ tile % cols = u
  <2>1. t + 1 \in Nat /\ t \in 0 .. (t + 1) - 1
    OBVIOUS
  <2>2. /\ tile \in 0 .. (t + 1) * cols - 1
        /\ tile \div cols = t /\ tile % cols = u
    BY <2>1, Below
  <2>3. tile \in Nat
    <3>. HIDE DEF tile
    <3>. QED BY <2>2
  <2>. QED BY <2>2, <2>3
<1>. HIDE DEF hw, tile, place
<1>4. x \div hw = tile /\ x % hw = place
  <2>1. x = tile * hw + place
    BY DEF hw, tile, place, TilePlace
  <2>2. tile * hw = hw * tile /\ tile \in Int
    BY <1>1, <1>3
  <2>. HIDE DEF x
  <2>. QED BY <1>1, <1>2, <2>1, <2>2, DivModUnique
<1>5. TileMajor(m, x, h, w, cols)
        = m[<<((x \div hw) \div cols) * h + (x % hw) \div w,
              ((x \div hw) % cols) * w + ((x % hw) % w)>>]
  BY DEF TileMajor, hw
<1>. QED BY <1>2, <1>3, <1>4, <1>5 DEF x

LEMMA TileSizes ==
    /\ MM_R \in Nat \ {0} /\ MM_S \in Nat \ {0} /\ MM_T \in Nat \ {0}
    /\ size_A \in Nat \ {0} /\ size_B \in Nat \ {0} /\ size_C \in Nat \ {0}
    /\ B_TILE_BYTES \in Nat \ {0} /\ size_B = 2 * B_TILE_BYTES
<1>1. MM_R \in Nat \ {0} /\ MM_S \in Nat \ {0} /\ MM_T \in Nat \ {0}
  BY TileAssumption
<1>2. \A a, b \in Nat \ {0} : a * b \in Nat \ {0}
  <2>. TAKE a, b \in Nat \ {0}
  <2>1. a * b > 0
    OBVIOUS
  <2>. QED BY <2>1
<1>3. MM_R * MM_S \in Nat \ {0} /\ MM_S * MM_T \in Nat \ {0} /\ MM_R * MM_T \in Nat \ {0}
  BY <1>1, <1>2
<1>4. PICK n \in Nat \ {0} : n = MM_S * MM_T
  BY <1>3
<1>5. n % 2 = 0
  BY <1>4, NibbleAssumption
<1>6. n \div 2 \in Nat \ {0} /\ n = 2 * (n \div 2)
  BY <1>4, <1>5
<1>. QED BY <1>1, <1>3, <1>4, <1>6 DEF size_A, size_B, size_C, B_TILE_BYTES

-----------------------------------------------------------------------------
(* What the core reads *)

\* The tile of A at pA1 is the one of its row of tiles and of the iteration.
LEMMA ReadA ==
    ASSUME NEW rowA, NEW colA, NEW A, NEW z, NEW i, NEW a, NEW s,
           rowA \in Nat \ {0}, colA \in Nat \ {0}, z \in 0 .. rowA - 1, i \in 0 .. colA - 1,
           a \in 0 .. MM_R - 1, s \in 0 .. MM_S - 1
    PROVE  LoadA(pack_A(A, rowA, colA), PointerA(z, i, colA))[a * MM_S + s]
             = A[<<z * MM_R + a, i * MM_S + s>>]
<1> DEFINE tile == z * colA + i
           tiles == rowA * colA
           e == a * MM_S + s
           x == tile * size_A + e
<1>1. tile \in 0 .. tiles - 1 /\ tiles \in Nat
  BY Below
<1>2. e \in 0 .. size_A - 1
  BY TileSizes, Below DEF size_A
<1>3. x \in 0 .. tiles * size_A - 1
  <2>. HIDE DEF tile, tiles, e
  <2>. QED BY <1>1, <1>2, TileSizes, Below
<1>4. LoadA(pack_A(A, rowA, colA), PointerA(z, i, colA))[e] = pack_A(A, rowA, colA)[x]
  <2>. HIDE DEF e
  <2>. QED BY <1>2 DEF LoadA, PointerA
<1>5. pack_A(A, rowA, colA)[x] = TileMajor(A, x, MM_R, MM_S, colA)
  <2>. HIDE DEF x
  <2>. QED BY <1>3 DEF pack_A
<1>6. TileMajor(A, x, MM_R, MM_S, colA) = A[<<z * MM_R + a, i * MM_S + s>>]
  <2>1. x = TilePlace(z, i, a, s, MM_R, MM_S, colA) /\ z \in Nat
    BY DEF size_A, TilePlace
  <2>. HIDE DEF x, tile, tiles, e
  <2>2. TileMajor(A, TilePlace(z, i, a, s, MM_R, MM_S, colA), MM_R, MM_S, colA)
          = A[<<z * MM_R + a, i * MM_S + s>>]
    BY <2>1, TileAssumption, TileHolds
  <2>. QED BY <2>1, <2>2
<1>. QED BY <1>4, <1>5, <1>6

\* The tile of B at pB1: the iteration is its row of tiles.  The two values of a byte are
\* neighbours, so that no tile begins within one.
LEMMA ReadB ==
    ASSUME NEW colA, NEW colB, NEW B, NEW i, NEW j, NEW s, NEW b,
           colA \in Nat \ {0}, colB \in Nat \ {0}, i \in 0 .. colA - 1, j \in 0 .. colB - 1,
           s \in 0 .. MM_S - 1, b \in 0 .. MM_T - 1
    PROVE  LoadB(pack_B_int4(B, colA, colB), PointerB(j, i, colB))[s * MM_T + b]
             = B[<<i * MM_S + s, j * MM_T + b>>]
<1> DEFINE tile == i * colB + j
           tiles == colA * colB
           y == s * MM_T + b
           p == tile * B_TILE_BYTES + y \div 2
           at(k) == TileMajor(B, k, MM_S, MM_T, colB)
           packed == pack_B_int4(B, colA, colB)
<1>1. tile \in 0 .. tiles - 1 /\ tiles \in Nat
  BY Below
<1>2. y \in 0 .. size_B - 1
  BY TileSizes, Below DEF size_B
<1>3. y \div 2 \in 0 .. B_TILE_BYTES - 1 /\ y = 2 * (y \div 2) + (y % 2) /\ y % 2 \in {0, 1}
  <2>. HIDE DEF y
  <2>. QED BY <1>2, TileSizes
<1>4. p \in 0 .. tiles * B_TILE_BYTES - 1
  <2>. HIDE DEF tile, tiles, y
  <2>1. B_TILE_BYTES \in Nat \ {0}
    BY TileSizes
  <2>. QED BY <1>1, <1>3, <2>1, Below
<1>5. (tiles * size_B) \div 2 = tiles * B_TILE_BYTES
  <2>. HIDE DEF tiles
  <2>1. tiles * size_B = 2 * (tiles * B_TILE_BYTES) /\ tiles * B_TILE_BYTES \in Nat
    BY <1>1, TileSizes
  <2>. QED BY <2>1
<1>6. packed = [k \in 0 .. tiles * B_TILE_BYTES - 1 |-> <<at(2 * k), at(2 * k + 1)>>]
  BY <1>5 DEF pack_B_int4
<1>7. LoadB(packed, PointerB(j, i, colB))[y] = packed[p][(y % 2) + 1]
  <2>1. PointerB(j, i, colB) = tile * B_TILE_BYTES
    <3>1. j + i * colB = i * colB + j
      <4>1. i * colB \in Int /\ j \in Int
        OBVIOUS
      <4>. QED BY <4>1
    <3>. QED BY <3>1 DEF PointerB
  <2>. HIDE DEF packed, y, tile
  <2>. QED BY <1>2, <2>1 DEF LoadB
<1>. HIDE DEF p, packed, y, at
<1>8. packed[p] = <<at(2 * p), at(2 * p + 1)>>
  BY <1>4, <1>6
<1>9. packed[p][(y % 2) + 1] = at(2 * p + (y % 2))
  <2>1. CASE y % 2 = 0
    <3>1. p \in Int
      BY <1>4
    <3>2. (y % 2) + 1 = 1 /\ 2 * p + (y % 2) = 2 * p
      BY <2>1, <3>1
    <3>. QED BY <1>8, <3>2
  <2>2. CASE y % 2 = 1
    <3>1. (y % 2) + 1 = 2 /\ 2 * p + (y % 2) = 2 * p + 1
      BY <2>2
    <3>. QED BY <1>8, <3>1
  <2>. QED BY <1>3, <2>1, <2>2
<1>10. 2 * p + (y % 2) = tile * size_B + y
  <2>. HIDE DEF tile
  <2>1. tile * size_B = 2 * (tile * B_TILE_BYTES) /\ tile * B_TILE_BYTES \in Int
    BY <1>1, TileSizes
  <2>2. p = tile * B_TILE_BYTES + y \div 2
    BY DEF p
  <2>3. PICK t \in Int : t = tile * B_TILE_BYTES
    BY <2>1
  <2>. QED BY <1>3, <2>1, <2>2, <2>3
<1>11. at(tile * size_B + y) = B[<<i * MM_S + s, j * MM_T + b>>]
  <2> DEFINE x == tile * size_B + y
  <2>1. x = TilePlace(i, j, s, b, MM_S, MM_T, colB) /\ i \in Nat
    BY DEF size_B, y, TilePlace
  <2>. HIDE DEF x
  <2>. HIDE DEF tile, tiles
  <2>2. TileMajor(B, TilePlace(i, j, s, b, MM_S, MM_T, colB), MM_S, MM_T, colB)
          = B[<<i * MM_S + s, j * MM_T + b>>]
    <3>. HIDE DEF x, at
    <3>. QED BY <2>1, TileAssumption, TileHolds
  <2>3. at(x) = TileMajor(B, x, MM_S, MM_T, colB)
    BY DEF at
  <2>. QED BY <2>1, <2>2, <2>3 DEF x
<1>. QED BY <1>7, <1>9, <1>10, <1>11 DEF y, packed

-----------------------------------------------------------------------------
(* The sums of the core *)

LEMMA MmulTotal ==
    ASSUME NEW A0, NEW B0, NEW e
    PROVE  Mmul(A0, B0, e)
             = Total([s \in 0 .. MM_S - 1 |->
                         A0[(e \div MM_T) * MM_S + s] * B0[s * MM_T + (e % MM_T)]],
                     0 .. MM_S - 1)
<1> DEFINE D == 0 .. MM_S - 1
           term(s) == A0[(e \div MM_T) * MM_S + s] * B0[s * MM_T + (e % MM_T)]
           f == [s \in D |-> term(s)]
           body(h) == [S \in SUBSET D |->
                          IF S = {} THEN 0 ELSE term(Chosen(S)) + h[S \ {Chosen(S)}]]
<1>1. Mmul(A0, B0, e) = (CHOOSE h : h = body(h))[D]
  BY DEF Mmul, MapThenSumSet, MapThenFoldSet, Chosen
<1>2. ASSUME NEW h PROVE Sums(f, D, h) <=> h = body(h)
  <2>1. ASSUME NEW S \in SUBSET D, S # {} PROVE f[Chosen(S)] = term(Chosen(S))
    BY <2>1, ChosenIn
  <2>2. body(h) = [S \in SUBSET D |->
                     IF S = {} THEN 0 ELSE f[Chosen(S)] + h[S \ {Chosen(S)}]]
    <3>. HIDE DEF f, D, term
    <3>. QED BY <2>1
  <2>. HIDE DEF body, f, D
  <2>. QED BY <2>2 DEF Sums
<1>. HIDE DEF body
<1>3. (CHOOSE h : Sums(f, D, h)) = (CHOOSE h : h = body(h))
  BY <1>2
<1>. QED BY <1>1, <1>3 DEF Total

\* The place of element e of output tile (z, j).
CorePlace(z, j, e, colB) == (z * colB + j) * size_C + e

\* What the iterations of the K loop add to it.
Products(pA, pB, z, j, e, colA, colB) ==
    [i \in 0 .. colA - 1 |-> Mmul(LoadA(pA, PointerA(z, i, colA)),
                                  LoadB(pB, PointerB(j, i, colB)), e)]

\* An element of the output: the iterations' products of its tiles.
LEMMA CoreTotal ==
    ASSUME NEW pA, NEW pB, NEW rowA, NEW colA, NEW colB, NEW z, NEW j, NEW e,
           rowA \in Nat \ {0}, colA \in Nat \ {0}, colB \in Nat \ {0},
           z \in 0 .. rowA - 1, j \in 0 .. colB - 1, e \in 0 .. size_C - 1
    PROVE  MatMulCore(pA, pB, rowA, colA, colB)[CorePlace(z, j, e, colB)]
             = Total(Products(pA, pB, z, j, e, colA, colB), 0 .. colA - 1)
<1> DEFINE tile == z * colB + j
           x == tile * size_C + e
           D == 0 .. colA - 1
           term(v, k, d, i) == Mmul(LoadA(pA, PointerA(v, i, colA)),
                                    LoadB(pB, PointerB(k, i, colB)), d)
           here(i) == term((x \div size_C) \div colB, (x \div size_C) % colB, x % size_C, i)
           f == [i \in D |-> here(i)]
           body(h) == [S \in SUBSET D |->
                          IF S = {} THEN 0 ELSE here(Chosen(S)) + h[S \ {Chosen(S)}]]
<1>1. /\ tile \in 0 .. rowA * colB - 1 /\ rowA * colB \in Nat
      /\ tile \div colB = z /\ tile % colB = j
  BY Below
<1>2. /\ x \in 0 .. rowA * colB * size_C - 1
      /\ x \div size_C = tile /\ x % size_C = e
  <2> DEFINE tiles == rowA * colB
  <2>1. /\ x \in 0 .. tiles * size_C - 1
        /\ x \div size_C = tile /\ x % size_C = e
    <3>. HIDE DEF tile, tiles
    <3>. QED BY <1>1, TileSizes, Below DEF tiles
  <2>. QED BY <2>1
<1>. HIDE DEF x, tile
<1>3. MatMulCore(pA, pB, rowA, colA, colB)[x] = (CHOOSE h : h = body(h))[D]
  BY <1>2 DEF MatMulCore, MapThenSumSet, MapThenFoldSet, Chosen
<1>4. ASSUME NEW h PROVE Sums(f, D, h) <=> h = body(h)
  <2>1. ASSUME NEW S \in SUBSET D, S # {} PROVE f[Chosen(S)] = here(Chosen(S))
    <3>. HIDE DEF here, D
    <3>. QED BY <2>1, ChosenIn
  <2>2. body(h) = [S \in SUBSET D |->
                     IF S = {} THEN 0 ELSE f[Chosen(S)] + h[S \ {Chosen(S)}]]
    <3>. HIDE DEF f, D, here
    <3>. QED BY <2>1
  <2>. HIDE DEF body, f, D
  <2>. QED BY <2>2 DEF Sums
<1>5. MatMulCore(pA, pB, rowA, colA, colB)[x] = Total(f, D)
  <2>. HIDE DEF body, f, D
  <2>1. (CHOOSE h : Sums(f, D, h)) = (CHOOSE h : h = body(h))
    BY <1>4
  <2>. QED BY <1>3, <2>1 DEF Total
<1>6. f = [i \in D |-> term(z, j, e, i)]
  <2>1. ASSUME NEW i \in D PROVE here(i) = term(z, j, e, i)
    <3>. HIDE DEF term, D
    <3>. QED BY <1>1, <1>2
  <2>. HIDE DEF term, here, D
  <2>. QED BY <2>1
<1>7. Products(pA, pB, z, j, e, colA, colB) = [i \in D |-> term(z, j, e, i)]
  BY DEF Products
<1>8. CorePlace(z, j, e, colB) = x
  BY DEF x, tile, CorePlace
<1>. HIDE DEF f
<1>. QED BY <1>5, <1>6, <1>7, <1>8

\* An element of the product that the core is compared with.
LEMMA ProductTotal ==
    ASSUME NEW A, NEW B, NEW n, NEW r, NEW c
    PROVE  RowTimesColumn(A, B, r, c, n)
             = Total([k \in 0 .. n - 1 |-> A[<<r, k>>] * B[<<k, c>>]], 0 .. n - 1)
<1> DEFINE D == 0 .. n - 1
           term(k) == A[<<r, k>>] * B[<<k, c>>]
           f == [k \in D |-> term(k)]
           body(h) == [S \in SUBSET D |->
                          IF S = {} THEN 0 ELSE term(Chosen(S)) + h[S \ {Chosen(S)}]]
<1>1. RowTimesColumn(A, B, r, c, n) = (CHOOSE h : h = body(h))[D]
  BY DEF RowTimesColumn, MapThenSumSet, MapThenFoldSet, Chosen
<1>2. ASSUME NEW h PROVE Sums(f, D, h) <=> h = body(h)
  <2>1. ASSUME NEW S \in SUBSET D, S # {} PROVE f[Chosen(S)] = term(Chosen(S))
    BY <2>1, ChosenIn
  <2>2. body(h) = [S \in SUBSET D |->
                     IF S = {} THEN 0 ELSE f[Chosen(S)] + h[S \ {Chosen(S)}]]
    <3>. HIDE DEF f, D, term
    <3>. QED BY <2>1
  <2>. HIDE DEF body, f, D
  <2>. QED BY <2>2 DEF Sums
<1>. HIDE DEF body
<1>3. (CHOOSE h : Sums(f, D, h)) = (CHOOSE h : h = body(h))
  BY <1>2
<1>. QED BY <1>1, <1>3 DEF Total

\* What int4_gemm.py compares with A @ B.
Blocked(A, B, rowA, colA, colB) ==
    unpack_C(MatMulCore(pack_A(A, rowA, colA), pack_B_int4(B, colA, colB), rowA, colA, colB),
             rowA, colB)

\* The iterations of the K loop, and the products of mmul in each, add up a row of A times
\* a column of B.
LEMMA ElementOfProduct ==
    ASSUME NEW rowA, NEW colA, NEW colB, NEW A, NEW B, NEW r, NEW c,
           rowA \in Nat \ {0}, colA \in Nat \ {0}, colB \in Nat \ {0},
           r \in 0 .. rowA * MM_R - 1, c \in 0 .. colB * MM_T - 1,
           \A k \in 0 .. colA * MM_S - 1 : A[<<r, k>>] \in Int /\ B[<<k, c>>] \in Int
    PROVE  Blocked(A, B, rowA, colA, colB)[<<r, c>>]
             = RowTimesColumn(A, B, r, c, colA * MM_S)
<1> DEFINE pA == pack_A(A, rowA, colA)
           pB == pack_B_int4(B, colA, colB)
           C == MatMulCore(pA, pB, rowA, colA, colB)
           z == r \div MM_R
           a == r % MM_R
           j == c \div MM_T
           b == c % MM_T
           e == a * MM_T + b
           D == 0 .. colA * MM_S - 1
           f == [k \in D |-> A[<<r, k>>] * B[<<k, c>>]]
           tileA(i) == LoadA(pA, PointerA(z, i, colA))
           tileB(i) == LoadB(pB, PointerB(j, i, colB))
           loop == Products(pA, pB, z, j, e, colA, colB)
<1>1. z \in 0 .. rowA - 1 /\ a \in 0 .. MM_R - 1 /\ r = z * MM_R + a
  BY TileSizes, Within
<1>2. j \in 0 .. colB - 1 /\ b \in 0 .. MM_T - 1 /\ c = j * MM_T + b
  BY TileSizes, Within
<1>. HIDE DEF z, a, j, b
<1>3. e \in 0 .. size_C - 1 /\ e \div MM_T = a /\ e % MM_T = b
  BY <1>1, <1>2, TileSizes, Below DEF size_C
<1>4. unpack_C(C, rowA, colB)[<<r, c>>] = C[(z * colB + j) * size_C + e]
  <2>1. unpack_C(C, rowA, colB)[<<r, c>>] = C[(z * colB + j) * size_C + a * MM_T + b]
    <3>. HIDE DEF C
    <3>. QED BY DEF unpack_C, z, a, j, b
  <2>2. (z * colB + j) * size_C + a * MM_T + b = (z * colB + j) * size_C + e
    <3>1. \A u, v, w \in Int : (u + v) + w = u + (v + w)
      OBVIOUS
    <3>2. (z * colB + j) * size_C \in Int /\ a * MM_T \in Int /\ b \in Int
      <4>1. \A u, v \in Int : u * v \in Int /\ u + v \in Int
        OBVIOUS
      <4>2. /\ z \in Int /\ colB \in Int /\ j \in Int /\ size_C \in Int
            /\ a \in Int /\ MM_T \in Int /\ b \in Int
        BY <1>1, <1>2, TileSizes
      <4>. QED BY <4>1, <4>2, Zenon
    <3>. QED BY <3>1, <3>2
  <2>. QED BY <2>1, <2>2
<1>5. C[(z * colB + j) * size_C + e] = Total(loop, 0 .. colA - 1)
  <2>. HIDE DEF pA, pB, e, D, f
  <2>1. MatMulCore(pA, pB, rowA, colA, colB)[CorePlace(z, j, e, colB)]
          = Total(Products(pA, pB, z, j, e, colA, colB), 0 .. colA - 1)
    BY <1>1, <1>2, <1>3, CoreTotal
  <2>. QED BY <2>1 DEF CorePlace
<1>6. ASSUME NEW i \in 0 .. colA - 1
      PROVE  Mmul(tileA(i), tileB(i), e)
               = Total([s \in 0 .. MM_S - 1 |-> f[i * MM_S + s]], 0 .. MM_S - 1)
  <2> DEFINE g == [s \in 0 .. MM_S - 1 |->
                     tileA(i)[(e \div MM_T) * MM_S + s] * tileB(i)[s * MM_T + (e % MM_T)]]
             h == [s \in 0 .. MM_S - 1 |-> f[i * MM_S + s]]
  <2>1. Mmul(tileA(i), tileB(i), e) = Total(g, 0 .. MM_S - 1)
    <3>. HIDE DEF tileA, tileB, e
    <3>. QED BY MmulTotal
  <2>2. ASSUME NEW s \in 0 .. MM_S - 1 PROVE g[s] = h[s]
    <3>1. tileA(i)[a * MM_S + s] = A[<<r, i * MM_S + s>>]
      <4>1. LoadA(pack_A(A, rowA, colA), PointerA(z, i, colA))[a * MM_S + s]
              = A[<<z * MM_R + a, i * MM_S + s>>]
        <5>. HIDE DEF C, D, e, f, g, h, pA, pB, tileA, tileB
        <5>. QED BY <1>1, ReadA
      <4>. QED BY <1>1, <4>1
    <3>2. tileB(i)[s * MM_T + b] = B[<<i * MM_S + s, c>>]
      <4>1. LoadB(pack_B_int4(B, colA, colB), PointerB(j, i, colB))[s * MM_T + b]
              = B[<<i * MM_S + s, j * MM_T + b>>]
        <5>. HIDE DEF C, D, e, f, g, h, pA, pB, tileA, tileB
        <5>. QED BY <1>2, ReadB
      <4>. QED BY <1>2, <4>1
    <3>3. i * MM_S + s \in D
      BY TileSizes, Below
    <3>4. f[i * MM_S + s] = A[<<r, i * MM_S + s>>] * B[<<i * MM_S + s, c>>]
      <4>. HIDE DEF D
      <4>. QED BY <3>3
    <3>. HIDE DEF tileA, tileB, f, e
    <3>. QED BY <1>3, <3>1, <3>2, <3>4
  <2>3. IsFiniteSet(0 .. MM_S - 1)
    BY TileSizes, FS_Interval
  <2>. HIDE DEF g, h
  <2>4. Total(g, 0 .. MM_S - 1) = Total(h, 0 .. MM_S - 1)
    BY <2>2, <2>3, TotalSame
  <2>. QED BY <2>1, <2>4 DEF h
<1>7. \A k \in D : f[k] \in Int
  <2>. TAKE k \in D
  <2>1. A[<<r, k>>] \in Int /\ B[<<k, c>>] \in Int
    OBVIOUS
  <2>. QED BY <2>1
<1> DEFINE rows == [i \in 0 .. colA - 1 |->
                      Total([s \in 0 .. MM_S - 1 |-> f[i * MM_S + s]], 0 .. MM_S - 1)]
<1>8. Total(f, D) = Total(rows, 0 .. colA - 1)
  <2>. HIDE DEF f
  <2>. QED BY <1>7, TileSizes, TotalRows
<1>9. Total(loop, 0 .. colA - 1) = Total(rows, 0 .. colA - 1)
  <2>1. \A i \in 0 .. colA - 1 : loop[i] = rows[i]
    <3>1. \A i \in 0 .. colA - 1 : loop[i] = Mmul(tileA(i), tileB(i), e)
      <4>. HIDE DEF pA, pB, e, f
      <4>. QED BY DEF Products
    <3>. HIDE DEF f, tileA, tileB, e, loop
    <3>. QED BY <1>6, <3>1
  <2>2. IsFiniteSet(0 .. colA - 1)
    BY FS_Interval
  <2>. HIDE DEF loop, rows
  <2>. QED BY <2>1, <2>2, TotalSame
<1>10. Total(f, D) = RowTimesColumn(A, B, r, c, colA * MM_S)
  BY ProductTotal
<1>11. Blocked(A, B, rowA, colA, colB) = unpack_C(C, rowA, colB)
  BY DEF Blocked
<1>. HIDE DEF C, f, D, rows, loop
<1>. QED BY <1>4, <1>5, <1>8, <1>9, <1>10, <1>11

\* mm_i8_i4.cc and int4_gemm.py: in every call, for every number and size of tiles, the
\* core computes from packed operands the product of the matrices that were packed.
THEOREM EveryProductBlocked == Spec => []BlockedIsProduct
<1>1. CallsInv => BlockedIsProduct
  <2> SUFFICES ASSUME CallsInv, call.kind = "matmul" PROVE BlockedIsProduct
    BY DEF BlockedIsProduct
  <2> DEFINE rowA == call.rowA
             colA == call.colA
             colB == call.colB
             A == call.A
             B == call.B
             C == Blocked(A, B, rowA, colA, colB)
             places == (0 .. rowA * MM_R - 1) \X (0 .. colB * MM_T - 1)
             sum(at) == RowTimesColumn(A, B, at[1], at[2], colA * MM_S)
  <2>1. call \in Calls
    BY DEF CallsInv, NoCall
  <2>2. /\ rowA \in Nat \ {0} /\ colA \in Nat \ {0} /\ colB \in Nat \ {0}
        /\ A \in [(0 .. rowA * MM_R - 1) \X (0 .. colA * MM_S - 1) -> Int]
        /\ B \in [(0 .. colA * MM_S - 1) \X (0 .. colB * MM_T - 1) -> Int]
    BY <2>1, CallsAssumption
  <2>3. ASSUME NEW at \in places PROVE C[at] = sum(at)
    <3>1. at = <<at[1], at[2]>> /\ at[1] \in 0 .. rowA * MM_R - 1 /\ at[2] \in 0 .. colB * MM_T - 1
      OBVIOUS
    <3>. HIDE DEF rowA, colA, colB, A, B
    <3>2. ASSUME NEW r \in 0 .. rowA * MM_R - 1, NEW c \in 0 .. colB * MM_T - 1
          PROVE  C[<<r, c>>] = RowTimesColumn(A, B, r, c, colA * MM_S)
      <4>1. \A k \in 0 .. colA * MM_S - 1 : A[<<r, k>>] \in Int /\ B[<<k, c>>] \in Int
        BY <2>2, <3>2
      <4>. HIDE DEF C
      <4>2. Blocked(A, B, rowA, colA, colB)[<<r, c>>] = RowTimesColumn(A, B, r, c, colA * MM_S)
        BY <2>2, <3>2, <4>1, ElementOfProduct
      <4>. QED BY <4>2 DEF C
    <3>3. C[<<at[1], at[2]>>] = sum(at)
      BY <3>1, <3>2
    <3>. QED BY <3>1, <3>3
  <2>4. C = [at \in places |-> C[at]]
    <3>. HIDE DEF rowA, colB
    <3>. QED BY DEF unpack_C, Blocked
  <2>5. C = [at \in places |-> sum(at)]
    <3>. HIDE DEF C, rowA, colB, places, sum
    <3>. QED BY <2>3, <2>4
  <2>. QED BY <2>5 DEF BlockedIsProduct, Blocked
<1>. QED BY <1>1, CallsInvariance, PTL

-----------------------------------------------------------------------------
(* Access patterns *)

\* A place of four digits, the last in a base of s4, the one before it of s3.
Digits(i1, i2, i3, i4, s2, s3, s4) == ((i1 * s2 + i2) * s3 + i3) * s4 + i4

Based(i1, i2, i3, i4, s2, s3, s4) ==
    /\ s2 \in Nat \ {0} /\ s3 \in Nat \ {0} /\ s4 \in Nat \ {0}
    /\ i1 \in Nat /\ i2 \in 0 .. s2 - 1 /\ i3 \in 0 .. s3 - 1 /\ i4 \in 0 .. s4 - 1

\* A number as a quotient and the rest.
LEMMA QuotientRest ==
    ASSUME NEW q, NEW r, NEW w, w \in Nat \ {0}, q \in Nat, r \in 0 .. w - 1
    PROVE  (q * w + r) \div w = q /\ (q * w + r) % w = r
<1>1. q \in Int /\ q * w = w * q
  OBVIOUS
<1>. QED BY <1>1, DivModUnique

LEMMA DigitsOf ==
    ASSUME NEW i1, NEW i2, NEW i3, NEW i4, NEW s2, NEW s3, NEW s4,
           Based(i1, i2, i3, i4, s2, s3, s4)
    PROVE  LET e == Digits(i1, i2, i3, i4, s2, s3, s4)
           IN  /\ e % s4 = i4
               /\ (e \div s4) % s3 = i3
               /\ (e \div (s3 * s4)) % s2 = i2
               /\ e \div (s2 * s3 * s4) = i1
<1> DEFINE e == Digits(i1, i2, i3, i4, s2, s3, s4)
           u == i1 * s2 + i2
           v == u * s3 + i3
<1>b. /\ s2 \in Nat \ {0} /\ s3 \in Nat \ {0} /\ s4 \in Nat \ {0}
      /\ i1 \in Nat /\ i2 \in 0 .. s2 - 1 /\ i3 \in 0 .. s3 - 1 /\ i4 \in 0 .. s4 - 1
  BY DEF Based
<1>0. \A a, b \in Nat : a * b \in Nat /\ a + b \in Nat
  OBVIOUS
<1>1. u \in Nat /\ u \div s2 = i1 /\ u % s2 = i2
  <2>2. u \div s2 = i1 /\ u % s2 = i2
    BY <1>b, QuotientRest
  <2>3. i1 * s2 \in Nat
    BY <1>b, <1>0
  <2>. QED BY <1>b, <2>2, <2>3
<1>2. v \in Nat /\ v \div s3 = u /\ v % s3 = i3
  <2>. HIDE DEF u
  <2>2. v \div s3 = u /\ v % s3 = i3
    BY <1>b, <1>1, QuotientRest
  <2>3. u * s3 \in Nat
    BY <1>b, <1>0, <1>1
  <2>. QED BY <1>b, <2>2, <2>3
<1>3. e \div s4 = v /\ e % s4 = i4
  <2>1. e = v * s4 + i4
    BY DEF Digits
  <2>. HIDE DEF u, v, e
  <2>. QED BY <1>b, <1>2, <2>1, QuotientRest
<1>4. e \div (s3 * s4) = u
  <2>1. e = u * (s3 * s4) + (i3 * s4 + i4)
    <3>. HIDE DEF u
    <3>1. (u * s3 + i3) * s4 + i4 = u * (s3 * s4) + (i3 * s4 + i4)
      <4>1. u \in Int /\ s3 \in Int /\ s4 \in Int /\ i3 \in Int /\ i4 \in Int
        BY <1>b, <1>1
      <4>. QED BY <1>b, <4>1
    <3>. QED BY <1>b, <3>1 DEF Digits, u
  <2>2. i3 * s4 + i4 \in 0 .. s3 * s4 - 1
    BY <1>b, Below
  <2>. HIDE DEF e, u, v
  <2> DEFINE w == s3 * s4
             rest == i3 * s4 + i4
  <2>3. w \in Nat \ {0}
    <3>1. s3 * s4 > 0
      BY <1>b
    <3>. QED BY <1>b, <3>1
  <2>5. e = u * w + rest /\ rest \in 0 .. w - 1
    BY <1>b, <2>1, <2>2
  <2>. HIDE DEF w, rest
  <2>6. e \div w = u
    BY <1>b, <1>1, <2>3, <2>5, QuotientRest
  <2>. QED BY <1>b, <2>6 DEF w
<1>5. e \div (s2 * s3 * s4) = i1
  <2> DEFINE w == s3 * s4
             ww == s2 * w
             y == i3 * s4 + i4
             rest == i2 * w + y
  <2>1. w \in Nat \ {0} /\ y \in 0 .. w - 1
    <3>1. s3 * s4 > 0
      BY <1>b
    <3>. QED BY <1>b, <3>1, Below
  <2>2. e = i1 * ww + rest
    <3>1. ((i1 * s2 + i2) * s3 + i3) * s4 + i4 = i1 * (s2 * (s3 * s4)) + (i2 * (s3 * s4) + (i3 * s4 + i4))
      <4>1. /\ i1 \in Int /\ i2 \in Int /\ i3 \in Int /\ i4 \in Int
            /\ s2 \in Int /\ s3 \in Int /\ s4 \in Int
        BY <1>b
      <4>. QED BY <1>b, <4>1
    <3>. QED BY <1>b, <3>1 DEF Digits
  <2>3. s2 * s3 * s4 = ww
    BY <1>b
  <2>. HIDE DEF e, u, v, w, y
  <2>4. rest \in 0 .. ww - 1
    BY <1>b, <2>1, Below
  <2>5. ww \in Nat \ {0}
    <3>1. s2 * w > 0
      BY <1>b, <2>1
    <3>. QED BY <1>b, <3>1, <2>1
  <2>. HIDE DEF ww, rest
  <2>7. e \div ww = i1
    BY <1>b, <2>2, <2>4, <2>5, QuotientRest
  <2>. QED BY <1>b, <2>3, <2>7
<1>. HIDE DEF e, u, v
<1>6. (e \div s4) % s3 = i3 /\ (e \div (s3 * s4)) % s2 = i2
  BY <1>b, <1>1, <1>2, <1>3, <1>4
<1>. QED BY <1>b, <1>3, <1>5, <1>6 DEF e

\* Digits determine the place and are determined by it.
LEMMA DigitsUnique ==
    ASSUME NEW i1, NEW i2, NEW i3, NEW i4, NEW j1, NEW j2, NEW j3, NEW j4,
           NEW s2, NEW s3, NEW s4,
           Based(i1, i2, i3, i4, s2, s3, s4), Based(j1, j2, j3, j4, s2, s3, s4),
           Digits(i1, i2, i3, i4, s2, s3, s4) = Digits(j1, j2, j3, j4, s2, s3, s4)
    PROVE  i1 = j1 /\ i2 = j2 /\ i3 = j3 /\ i4 = j4
<1> DEFINE e == Digits(i1, i2, i3, i4, s2, s3, s4)
<1>1. /\ e % s4 = i4 /\ (e \div s4) % s3 = i3
      /\ (e \div (s3 * s4)) % s2 = i2 /\ e \div (s2 * s3 * s4) = i1
  BY DigitsOf
<1>2. /\ e % s4 = j4 /\ (e \div s4) % s3 = j3
      /\ (e \div (s3 * s4)) % s2 = j2 /\ e \div (s2 * s3 * s4) = j1
  BY DigitsOf
<1>. HIDE DEF e
<1>. QED BY <1>1, <1>2

\* A stream takes the place of its digits to the sum of their strides.
LEMMA StreamedAt ==
    ASSUME NEW i1, NEW i2, NEW i3, NEW i4, NEW s1, NEW s2, NEW s3, NEW s4,
           NEW t1, NEW t2, NEW t3, NEW t4, Based(i1, i2, i3, i4, s2, s3, s4)
    PROVE  Streamed(<<<<s1, t1>>, <<s2, t2>>, <<s3, t3>>, <<s4, t4>>>>,
                    Digits(i1, i2, i3, i4, s2, s3, s4))
             = i1 * t1 + i2 * t2 + i3 * t3 + i4 * t4
<1> DEFINE e == Digits(i1, i2, i3, i4, s2, s3, s4)
           dims == <<<<s1, t1>>, <<s2, t2>>, <<s3, t3>>, <<s4, t4>>>>
<1>1. /\ e % s4 = i4 /\ (e \div s4) % s3 = i3
      /\ (e \div (s3 * s4)) % s2 = i2 /\ e \div (s2 * s3 * s4) = i1
  BY DigitsOf
<1>. HIDE DEF e
<1>2. Streamed(dims, e) = (e \div (s2 * s3 * s4)) * t1 + ((e \div (s3 * s4)) % s2) * t2
                            + ((e \div s4) % s3) * t3 + (e % s4) * t4
  BY DEF Streamed
<1>. QED BY <1>1, <1>2 DEF e

-----------------------------------------------------------------------------
(* Layouts: G row blocks and J column tiles of C, Y steps in K; a tile is m1 x k1 blocks
   of A, k1 x n1 of B *)

Fits(o, G, J, Y, m1, k1, n1) ==
    /\ G \in Nat \ {0} /\ J \in Nat \ {0} /\ Y \in Nat \ {0}
    /\ m1 \in Nat \ {0} /\ k1 \in Nat \ {0} /\ n1 \in Nat \ {0}
    /\ o.r \in Nat \ {0} /\ o.s \in Nat \ {0} /\ o.t \in Nat \ {0}
    /\ o.m \in Nat \ {0} /\ o.k \in Nat \ {0} /\ o.n \in Nat \ {0}
    /\ o.M \in Nat \ {0} /\ o.K \in Nat \ {0} /\ o.N \in Nat \ {0}
    /\ o.n_aie_rows \in Nat \ {0} /\ o.n_A_tiles_per_shim \in Nat \ {0}
    /\ o.m = m1 * o.r /\ o.k = k1 * o.s /\ o.n = n1 * o.t
    /\ o.m \div o.r = m1 /\ o.k \div o.s = k1 /\ o.n \div o.t = n1
    /\ o.M = G * (o.m * o.n_aie_rows) /\ o.N = J * o.n /\ o.K = Y * o.k
    /\ o.M \div (o.m * o.n_aie_rows) = G /\ o.N \div o.n = J /\ o.K \div o.k = Y

LEMMA Whole ==
    ASSUME NEW a, NEW b, a \in Nat \ {0}, b \in Nat \ {0}, a % b = 0
    PROVE  a \div b \in Nat \ {0} /\ a = (a \div b) * b
<1> DEFINE q == a \div b
<1>1. q \in Int /\ a = b * q + (a % b)
  BY DivMod
<1>. HIDE DEF q
<1>2. a = q * b
  BY <1>1
<1>3. CASE q <= 0
  <2>1. q * b <= 0
    BY <1>1, <1>3
  <2>. QED BY <1>2, <2>1
<1>. QED BY <1>1, <1>2, <1>3 DEF q

\* The options of every call are of this shape.
LEMMA TiledFits ==
    ASSUME NEW o, Tiled(o)
    PROVE  Fits(o, o.M \div (o.m * o.n_aie_rows), o.N \div o.n, o.K \div o.k,
                o.m \div o.r, o.k \div o.s, o.n \div o.t)
<1>1. /\ o.r \in Nat \ {0} /\ o.s \in Nat \ {0} /\ o.t \in Nat \ {0}
      /\ o.m \in Nat \ {0} /\ o.k \in Nat \ {0} /\ o.n \in Nat \ {0}
      /\ o.M \in Nat \ {0} /\ o.K \in Nat \ {0} /\ o.N \in Nat \ {0}
      /\ o.n_aie_rows \in Nat \ {0} /\ o.n_A_tiles_per_shim \in Nat \ {0}
  BY DEF Tiled
<1>2. o.m * o.n_aie_rows \in Nat \ {0}
  <2>1. o.m * o.n_aie_rows > 0
    BY <1>1
  <2>. QED BY <1>1, <2>1
<1>3. /\ o.M % (o.m * o.n_aie_rows) = 0 /\ o.K % o.k = 0 /\ o.N % o.n = 0
      /\ o.m % o.r = 0 /\ o.k % o.s = 0 /\ o.n % o.t = 0
  BY DEF Tiled
<1>4. /\ o.M \div (o.m * o.n_aie_rows) \in Nat \ {0}
      /\ o.M = (o.M \div (o.m * o.n_aie_rows)) * (o.m * o.n_aie_rows)
  BY <1>1, <1>2, <1>3, Whole
<1>5. o.N \div o.n \in Nat \ {0} /\ o.N = (o.N \div o.n) * o.n
  BY <1>1, <1>3, Whole
<1>6. o.K \div o.k \in Nat \ {0} /\ o.K = (o.K \div o.k) * o.k
  BY <1>1, <1>3, Whole
<1>7. o.m \div o.r \in Nat \ {0} /\ o.m = (o.m \div o.r) * o.r
  BY <1>1, <1>3, Whole
<1>8. o.k \div o.s \in Nat \ {0} /\ o.k = (o.k \div o.s) * o.s
  BY <1>1, <1>3, Whole
<1>9. o.n \div o.t \in Nat \ {0} /\ o.n = (o.n \div o.t) * o.t
  BY <1>1, <1>3, Whole
<1>. QED BY <1>1, <1>4, <1>5, <1>6, <1>7, <1>8, <1>9 DEF Fits

\* A number below h * w, as a digit in a base of w and the rest.
LEMMA TwoDigits ==
    ASSUME NEW h, NEW w, NEW x, h \in Nat, w \in Nat \ {0}, x \in 0 .. h * w - 1
    PROVE  /\ x \div w \in 0 .. h - 1 /\ x % w \in 0 .. w - 1
           /\ x = (x \div w) * w + (x % w)
  BY Within

\* What streaming A puts at the place where the kernel looks for row x and step y of its
\* tile is row x and step y.
LEMMA KernelReadsA ==
    ASSUME NEW o, NEW G, NEW J, NEW Y, NEW m1, NEW k1, NEW n1, NEW x, NEW y,
           Fits(o, G, J, Y, m1, k1, n1), x \in 0 .. o.m - 1, y \in 0 .. o.k - 1
    PROVE  Streamed(a_dims(o), AtA(o, x, y)) = x * o.k + y
<1> DEFINE r == o.r
           s == o.s
           k == o.k
<1>1. /\ r \in Nat \ {0} /\ s \in Nat \ {0} /\ k \in Nat \ {0}
      /\ m1 \in Nat \ {0} /\ k1 \in Nat \ {0}
      /\ o.m = m1 * r /\ k = k1 * s /\ k \div s = k1
  BY DEF Fits
<1>2. PICK x1 \in 0 .. m1 - 1, x2 \in 0 .. r - 1 :
          x1 = x \div r /\ x2 = x % r /\ x = x1 * r + x2
  <2>1. x \in 0 .. m1 * r - 1 /\ m1 \in Nat
    BY <1>1
  <2>. HIDE DEF r
  <2>2. x \div r \in 0 .. m1 - 1 /\ x % r \in 0 .. r - 1 /\ x = (x \div r) * r + (x % r)
    BY <1>1, <2>1, TwoDigits
  <2>. QED BY <2>2
<1>3. PICK y1 \in 0 .. k1 - 1, y2 \in 0 .. s - 1 :
          y1 = y \div s /\ y2 = y % s /\ y = y1 * s + y2
  <2>1. y \in 0 .. k1 * s - 1 /\ k1 \in Nat
    BY <1>1
  <2>. HIDE DEF s
  <2>2. y \div s \in 0 .. k1 - 1 /\ y % s \in 0 .. s - 1 /\ y = (y \div s) * s + (y % s)
    BY <1>1, <2>1, TwoDigits
  <2>. QED BY <2>2
<1>4. AtA(o, x, y) = Digits(x1, y1, x2, y2, k1, r, s)
  <2>1. AtA(o, x, y) = (x1 * k1 + y1) * r * s + x2 * s + y2
    BY <1>1, <1>2, <1>3 DEF AtA
  <2>. HIDE DEF r, s, k
  <2>2. (x1 * k1 + y1) * r * s + x2 * s + y2 = ((x1 * k1 + y1) * r + x2) * s + y2
    BY <1>1
  <2>. QED BY <2>1, <2>2 DEF Digits
<1>5. a_dims(o) = <<<<m1, r * k>>, <<k1, s>>, <<r, k>>, <<s, 1>>>>
  BY DEF a_dims, Fits
<1>. HIDE DEF r, s, k
<1>6. Streamed(<<<<m1, r * k>>, <<k1, s>>, <<r, k>>, <<s, 1>>>>,
               Digits(x1, y1, x2, y2, k1, r, s))
        = x1 * (r * k) + y1 * s + x2 * k + y2 * 1
  <2>1. Based(x1, y1, x2, y2, k1, r, s)
    BY <1>1 DEF Based
  <2>. QED BY <2>1, StreamedAt
<1>7. x1 * (r * k) + y1 * s + x2 * k + y2 * 1 = (x1 * r + x2) * k + (y1 * s + y2)
  BY <1>1
<1>. QED BY <1>2, <1>3, <1>4, <1>5, <1>6, <1>7 DEF k

\* The same of B, whose tile is transposed when B is column-major.
LEMMA KernelReadsB ==
    ASSUME NEW o, NEW G, NEW J, NEW Y, NEW m1, NEW k1, NEW n1, NEW y, NEW z,
           Fits(o, G, J, Y, m1, k1, n1), y \in 0 .. o.k - 1, z \in 0 .. o.n - 1
    PROVE  Streamed(b_dims(o), AtB(o, y, z))
             = IF o.b_col_maj THEN z * o.k + y ELSE y * o.n + z
<1> DEFINE s == o.s
           t == o.t
           k == o.k
           n == o.n
<1>1. /\ s \in Nat \ {0} /\ t \in Nat \ {0} /\ k \in Nat \ {0} /\ n \in Nat \ {0}
      /\ k1 \in Nat \ {0} /\ n1 \in Nat \ {0}
      /\ k = k1 * s /\ k \div s = k1 /\ n = n1 * t /\ n \div t = n1
  BY DEF Fits
<1>2. PICK y1 \in 0 .. k1 - 1, y2 \in 0 .. s - 1 :
          y1 = y \div s /\ y2 = y % s /\ y = y1 * s + y2
  <2>1. y \in 0 .. k1 * s - 1 /\ k1 \in Nat
    BY <1>1
  <2>. HIDE DEF s
  <2>2. y \div s \in 0 .. k1 - 1 /\ y % s \in 0 .. s - 1 /\ y = (y \div s) * s + (y % s)
    BY <1>1, <2>1, TwoDigits
  <2>. QED BY <2>2
<1>3. PICK z1 \in 0 .. n1 - 1, z2 \in 0 .. t - 1 :
          z1 = z \div t /\ z2 = z % t /\ z = z1 * t + z2
  <2>1. z \in 0 .. n1 * t - 1 /\ n1 \in Nat
    BY <1>1
  <2>. HIDE DEF t
  <2>2. z \div t \in 0 .. n1 - 1 /\ z % t \in 0 .. t - 1 /\ z = (z \div t) * t + (z % t)
    BY <1>1, <2>1, TwoDigits
  <2>. QED BY <2>2
<1>4. CASE o.b_col_maj
  <2>1. AtB(o, y, z) = Digits(z1, y1, z2, y2, k1, t, s)
    <3>1. AtB(o, y, z) = (z1 * k1 + y1) * s * t + z2 * s + y2
      BY <1>1, <1>2, <1>3, <1>4 DEF AtB
    <3>. HIDE DEF s, t, k, n
    <3>2. (z1 * k1 + y1) * s * t + z2 * s + y2 = ((z1 * k1 + y1) * t + z2) * s + y2
      BY <1>1
    <3>. QED BY <3>1, <3>2 DEF Digits
  <2>2. b_dims(o) = <<<<n1, t * k>>, <<k1, s>>, <<t, k>>, <<s, 1>>>>
    BY <1>4 DEF b_dims, Fits
  <2>. HIDE DEF s, t, k, n
  <2>3. Streamed(<<<<n1, t * k>>, <<k1, s>>, <<t, k>>, <<s, 1>>>>,
                 Digits(z1, y1, z2, y2, k1, t, s))
          = z1 * (t * k) + y1 * s + z2 * k + y2 * 1
    <3>1. Based(z1, y1, z2, y2, k1, t, s)
      BY <1>1 DEF Based
    <3>. QED BY <3>1, StreamedAt
  <2>4. z1 * (t * k) + y1 * s + z2 * k + y2 * 1 = (z1 * t + z2) * k + (y1 * s + y2)
    BY <1>1
  <2>. QED BY <1>2, <1>3, <1>4, <2>1, <2>2, <2>3, <2>4 DEF k
<1>5. CASE ~o.b_col_maj
  <2>1. AtB(o, y, z) = Digits(y1, z1, y2, z2, n1, s, t)
    <3>1. AtB(o, y, z) = (y1 * n1 + z1) * s * t + y2 * t + z2
      BY <1>1, <1>2, <1>3, <1>5 DEF AtB
    <3>. HIDE DEF s, t, k, n
    <3>2. (y1 * n1 + z1) * s * t + y2 * t + z2 = ((y1 * n1 + z1) * s + y2) * t + z2
      BY <1>1
    <3>. QED BY <3>1, <3>2 DEF Digits
  <2>2. b_dims(o) = <<<<k1, s * n>>, <<n1, t>>, <<s, n>>, <<t, 1>>>>
    BY <1>5 DEF b_dims, Fits
  <2>. HIDE DEF s, t, k, n
  <2>3. Streamed(<<<<k1, s * n>>, <<n1, t>>, <<s, n>>, <<t, 1>>>>,
                 Digits(y1, z1, y2, z2, n1, s, t))
          = y1 * (s * n) + z1 * t + y2 * n + z2 * 1
    <3>1. Based(y1, z1, y2, z2, n1, s, t)
      BY <1>1 DEF Based
    <3>. QED BY <3>1, StreamedAt
  <2>4. y1 * (s * n) + z1 * t + y2 * n + z2 * 1 = (y1 * s + y2) * n + (z1 * t + z2)
    BY <1>1
  <2>. QED BY <1>2, <1>3, <1>5, <2>1, <2>2, <2>3, <2>4 DEF n
<1>. QED BY <1>4, <1>5

-----------------------------------------------------------------------------
(* The output tile *)

\* The element of an object of C at row x and column z of the tile of part.
CElement(o, part, x, z) ==
    IF o.c_col_maj THEN part * (o.m * o.n) + (z * o.m + x) ELSE (part * o.m + x) * o.n + z

\* Where the kernel leaves row x and column z of a tile is where streaming the object of
\* the tiles of all rows looks for it.
LEMMA JoinReadsC ==
    ASSUME NEW o, NEW G, NEW J, NEW Y, NEW m1, NEW k1, NEW n1, NEW part, NEW x, NEW z,
           Fits(o, G, J, Y, m1, k1, n1), part \in Nat, x \in 0 .. o.m - 1, z \in 0 .. o.n - 1
    PROVE  Streamed(c_dims(o), CElement(o, part, x, z)) = part * (o.m * o.n) + AtC(o, x, z)
<1> DEFINE r == o.r
           t == o.t
           m == o.m
           n == o.n
<1>1. /\ r \in Nat \ {0} /\ t \in Nat \ {0} /\ m \in Nat \ {0} /\ n \in Nat \ {0}
      /\ m1 \in Nat \ {0} /\ n1 \in Nat \ {0}
      /\ m = m1 * r /\ m \div r = m1 /\ n = n1 * t /\ n \div t = n1
  BY DEF Fits
<1>2. PICK x1 \in 0 .. m1 - 1, x2 \in 0 .. r - 1 :
          x1 = x \div r /\ x2 = x % r /\ x = x1 * r + x2
  <2>1. x \in 0 .. m1 * r - 1 /\ m1 \in Nat
    BY <1>1
  <2>. HIDE DEF r
  <2>2. x \div r \in 0 .. m1 - 1 /\ x % r \in 0 .. r - 1 /\ x = (x \div r) * r + (x % r)
    BY <1>1, <2>1, TwoDigits
  <2>. QED BY <2>2
<1>3. PICK z1 \in 0 .. n1 - 1, z2 \in 0 .. t - 1 :
          z1 = z \div t /\ z2 = z % t /\ z = z1 * t + z2
  <2>1. z \in 0 .. n1 * t - 1 /\ n1 \in Nat
    BY <1>1
  <2>. HIDE DEF t
  <2>2. z \div t \in 0 .. n1 - 1 /\ z % t \in 0 .. t - 1 /\ z = (z \div t) * t + (z % t)
    BY <1>1, <2>1, TwoDigits
  <2>. QED BY <2>2
<1>4. CASE o.c_col_maj
  <2>1. AtC(o, x, z) = (z1 * m1 + x1) * r * t + z2 * r + x2
    BY <1>1, <1>2, <1>3, <1>4 DEF AtC
  <2>2. c_dims(o) = <<<<n1, t * m>>, <<t, r>>, <<m1, r * t>>, <<r, 1>>>>
    BY <1>4 DEF c_dims, Fits
  <2>3. CElement(o, part, x, z) = part * (m * n) + (z * m + x)
    BY <1>4 DEF CElement
  <2>. HIDE DEF r, t, m, n
  <2>4. CElement(o, part, x, z) = Digits(part * n1 + z1, z2, x1, x2, t, m1, r)
    <3>1. part * ((m1 * r) * (n1 * t)) + ((z1 * t + z2) * (m1 * r) + (x1 * r + x2))
            = (((part * n1 + z1) * t + z2) * m1 + x1) * r + x2
      BY <1>1
    <3>. QED BY <1>1, <1>2, <1>3, <2>3, <3>1 DEF Digits
  <2>5. Streamed(<<<<n1, t * m>>, <<t, r>>, <<m1, r * t>>, <<r, 1>>>>,
                 Digits(part * n1 + z1, z2, x1, x2, t, m1, r))
          = (part * n1 + z1) * (t * m) + z2 * r + x1 * (r * t) + x2 * 1
    <3>1. Based(part * n1 + z1, z2, x1, x2, t, m1, r)
      <4>1. part * n1 \in Nat
        BY <1>1
      <4>2. part * n1 + z1 \in Nat
        BY <4>1
      <4>. QED BY <1>1, <4>2 DEF Based
    <3>. QED BY <3>1, StreamedAt
  <2>6. (part * n1 + z1) * (t * (m1 * r)) + z2 * r + x1 * (r * t) + x2 * 1
          = part * ((m1 * r) * (n1 * t)) + ((z1 * m1 + x1) * r * t + z2 * r + x2)
    BY <1>1
  <2>. QED BY <1>1, <2>1, <2>2, <2>4, <2>5, <2>6 DEF m, n
<1>5. CASE ~o.c_col_maj
  <2>1. AtC(o, x, z) = (x1 * n1 + z1) * r * t + x2 * t + z2
    BY <1>1, <1>2, <1>3, <1>5 DEF AtC
  <2>2. c_dims(o) = <<<<m1, r * n>>, <<r, t>>, <<n1, r * t>>, <<t, 1>>>>
    BY <1>5 DEF c_dims, Fits
  <2>3. CElement(o, part, x, z) = (part * m + x) * n + z
    BY <1>5 DEF CElement
  <2>. HIDE DEF r, t, m, n
  <2>4. CElement(o, part, x, z) = Digits(part * m1 + x1, x2, z1, z2, r, n1, t)
    <3>1. (part * (m1 * r) + (x1 * r + x2)) * (n1 * t) + (z1 * t + z2)
            = (((part * m1 + x1) * r + x2) * n1 + z1) * t + z2
      BY <1>1
    <3>. QED BY <1>1, <1>2, <1>3, <2>3, <3>1 DEF Digits
  <2>5. Streamed(<<<<m1, r * n>>, <<r, t>>, <<n1, r * t>>, <<t, 1>>>>,
                 Digits(part * m1 + x1, x2, z1, z2, r, n1, t))
          = (part * m1 + x1) * (r * n) + x2 * t + z1 * (r * t) + z2 * 1
    <3>1. Based(part * m1 + x1, x2, z1, z2, r, n1, t)
      <4>1. part * m1 \in Nat
        BY <1>1
      <4>2. part * m1 + x1 \in Nat
        BY <4>1
      <4>. QED BY <1>1, <4>2 DEF Based
    <3>. QED BY <3>1, StreamedAt
  <2>6. (part * m1 + x1) * (r * (n1 * t)) + x2 * t + z1 * (r * t) + z2 * 1
          = part * ((m1 * r) * (n1 * t)) + ((x1 * n1 + z1) * r * t + x2 * t + z2)
    BY <1>1
  <2>. QED BY <1>1, <2>1, <2>2, <2>4, <2>5, <2>6 DEF m, n
<1>. QED BY <1>4, <1>5

\* The kernel leaves every row and column of the tile in a place of its own.
LEMMA KernelWritesC ==
    ASSUME NEW o, NEW G, NEW J, NEW Y, NEW m1, NEW k1, NEW n1,
           NEW x, NEW z, NEW v, NEW w,
           Fits(o, G, J, Y, m1, k1, n1), x \in 0 .. o.m - 1, z \in 0 .. o.n - 1,
           v \in 0 .. o.m - 1, w \in 0 .. o.n - 1
    PROVE  /\ AtC(o, x, z) \in 0 .. o.m * o.n - 1
           /\ AtC(o, x, z) = AtC(o, v, w) => x = v /\ z = w
<1> DEFINE r == o.r
           t == o.t
<1>1. /\ r \in Nat \ {0} /\ t \in Nat \ {0}
      /\ m1 \in Nat \ {0} /\ n1 \in Nat \ {0}
      /\ o.m = m1 * r /\ o.m \div r = m1 /\ o.n = n1 * t /\ o.n \div t = n1
  BY DEF Fits
<1>2. ASSUME NEW y \in 0 .. o.m - 1
      PROVE  y \div r \in 0 .. m1 - 1 /\ y % r \in 0 .. r - 1 /\ y = (y \div r) * r + (y % r)
  <2>1. y \in 0 .. m1 * r - 1 /\ m1 \in Nat
    BY <1>1
  <2>. HIDE DEF r
  <2>. QED BY <1>1, <2>1, TwoDigits
<1>3. ASSUME NEW y \in 0 .. o.n - 1
      PROVE  y \div t \in 0 .. n1 - 1 /\ y % t \in 0 .. t - 1 /\ y = (y \div t) * t + (y % t)
  <2>1. y \in 0 .. n1 * t - 1 /\ n1 \in Nat
    BY <1>1
  <2>. HIDE DEF t
  <2>. QED BY <1>1, <2>1, TwoDigits
<1>4. PICK x1 \in 0 .. m1 - 1, x2 \in 0 .. r - 1 :
          x1 = x \div r /\ x2 = x % r /\ x = x1 * r + x2
  BY <1>2
<1>5. PICK v1 \in 0 .. m1 - 1, v2 \in 0 .. r - 1 :
          v1 = v \div r /\ v2 = v % r /\ v = v1 * r + v2
  BY <1>2
<1>6. PICK z1 \in 0 .. n1 - 1, z2 \in 0 .. t - 1 :
          z1 = z \div t /\ z2 = z % t /\ z = z1 * t + z2
  BY <1>3
<1>7. PICK w1 \in 0 .. n1 - 1, w2 \in 0 .. t - 1 :
          w1 = w \div t /\ w2 = w % t /\ w = w1 * t + w2
  BY <1>3
<1>8. CASE o.c_col_maj
  <2>1. /\ AtC(o, x, z) = (z1 * m1 + x1) * r * t + z2 * r + x2
        /\ AtC(o, v, w) = (w1 * m1 + v1) * r * t + w2 * r + v2
    BY <1>1, <1>4, <1>5, <1>6, <1>7, <1>8 DEF AtC
  <2>. HIDE DEF r, t
  <2>2. /\ AtC(o, x, z) = Digits(z1, x1, z2, x2, m1, t, r)
        /\ AtC(o, v, w) = Digits(w1, v1, w2, v2, m1, t, r)
    <3>1. (z1 * m1 + x1) * r * t + z2 * r + x2 = ((z1 * m1 + x1) * t + z2) * r + x2
      BY <1>1
    <3>2. (w1 * m1 + v1) * r * t + w2 * r + v2 = ((w1 * m1 + v1) * t + w2) * r + v2
      BY <1>1
    <3>. QED BY <2>1, <3>1, <3>2 DEF Digits
  <2>3. Based(z1, x1, z2, x2, m1, t, r) /\ Based(w1, v1, w2, v2, m1, t, r)
    BY <1>1 DEF Based
  <2>4. AtC(o, x, z) = AtC(o, v, w) => z1 = w1 /\ x1 = v1 /\ z2 = w2 /\ x2 = v2
    BY <2>2, <2>3, DigitsUnique
  <2>5. AtC(o, x, z) \in 0 .. ((n1 * m1) * t) * r - 1
    <3>1. z1 * m1 + x1 \in 0 .. n1 * m1 - 1 /\ n1 * m1 \in Nat
      BY <1>1, Below
    <3>2. (z1 * m1 + x1) * t + z2 \in 0 .. (n1 * m1) * t - 1 /\ (n1 * m1) * t \in Nat
      <4> DEFINE a == z1 * m1 + x1
                 b == n1 * m1
      <4>1. a \in 0 .. b - 1 /\ b \in Nat
        BY <3>1
      <4>. HIDE DEF a, b
      <4>2. a * t + z2 \in 0 .. b * t - 1 /\ b * t \in Nat
        BY <1>1, <4>1, Below
      <4>. QED BY <4>2 DEF a, b
    <3> DEFINE a == (z1 * m1 + x1) * t + z2
               b == (n1 * m1) * t
    <3>3. a \in 0 .. b - 1 /\ b \in Nat
      BY <3>2
    <3>. HIDE DEF a, b
    <3>4. a * r + x2 \in 0 .. b * r - 1
      BY <1>1, <3>3, Below
    <3>. QED BY <2>2, <3>4 DEF a, b, Digits
  <2>6. ((n1 * m1) * t) * r = (m1 * r) * (n1 * t)
    BY <1>1
  <2>. QED BY <1>1, <1>4, <1>5, <1>6, <1>7, <2>4, <2>5, <2>6
<1>9. CASE ~o.c_col_maj
  <2>1. /\ AtC(o, x, z) = (x1 * n1 + z1) * r * t + x2 * t + z2
        /\ AtC(o, v, w) = (v1 * n1 + w1) * r * t + v2 * t + w2
    BY <1>1, <1>4, <1>5, <1>6, <1>7, <1>9 DEF AtC
  <2>. HIDE DEF r, t
  <2>2. /\ AtC(o, x, z) = Digits(x1, z1, x2, z2, n1, r, t)
        /\ AtC(o, v, w) = Digits(v1, w1, v2, w2, n1, r, t)
    <3>1. (x1 * n1 + z1) * r * t + x2 * t + z2 = ((x1 * n1 + z1) * r + x2) * t + z2
      BY <1>1
    <3>2. (v1 * n1 + w1) * r * t + v2 * t + w2 = ((v1 * n1 + w1) * r + v2) * t + w2
      BY <1>1
    <3>. QED BY <2>1, <3>1, <3>2 DEF Digits
  <2>3. Based(x1, z1, x2, z2, n1, r, t) /\ Based(v1, w1, v2, w2, n1, r, t)
    BY <1>1 DEF Based
  <2>4. AtC(o, x, z) = AtC(o, v, w) => z1 = w1 /\ x1 = v1 /\ z2 = w2 /\ x2 = v2
    BY <2>2, <2>3, DigitsUnique
  <2>5. AtC(o, x, z) \in 0 .. ((m1 * n1) * r) * t - 1
    <3>1. x1 * n1 + z1 \in 0 .. m1 * n1 - 1 /\ m1 * n1 \in Nat
      BY <1>1, Below
    <3>2. (x1 * n1 + z1) * r + x2 \in 0 .. (m1 * n1) * r - 1 /\ (m1 * n1) * r \in Nat
      <4> DEFINE a == x1 * n1 + z1
                 b == m1 * n1
      <4>1. a \in 0 .. b - 1 /\ b \in Nat
        BY <3>1
      <4>. HIDE DEF a, b
      <4>2. a * r + x2 \in 0 .. b * r - 1 /\ b * r \in Nat
        BY <1>1, <4>1, Below
      <4>. QED BY <4>2 DEF a, b
    <3> DEFINE a == (x1 * n1 + z1) * r + x2
               b == (m1 * n1) * r
    <3>3. a \in 0 .. b - 1 /\ b \in Nat
      BY <3>2
    <3>. HIDE DEF a, b
    <3>4. a * t + z2 \in 0 .. b * t - 1
      BY <1>1, <3>3, Below
    <3>. QED BY <2>2, <3>4 DEF a, b, Digits
  <2>6. ((m1 * n1) * r) * t = (m1 * r) * (n1 * t)
    BY <1>1
  <2>. QED BY <1>1, <1>4, <1>5, <1>6, <1>7, <2>4, <2>5, <2>6
<1>. QED BY <1>8, <1>9


-----------------------------------------------------------------------------
(* The output, from memory to memory *)

\* The row and the column of C of an element of an object.
CRow(o, g, part, x) == (g * o.n_aie_rows + part) * o.m + x
CColumn(o, j, z) == j * o.n + z

\* The place of row a and column b of a tile.
TileAt(i, j, h, w, width, a, b) == (i * h + a) * width + (j * w + b)

LEMMA TileToMatrix ==
    ASSUME NEW i, NEW j, NEW h, NEW w, NEW width, NEW e,
           w \in Nat \ {0}, e \in Nat, i \in Int, j \in Int, h \in Int, width \in Int
    PROVE  InTile(i, j, h, w, width, e) = TileAt(i, j, h, w, width, e \div w, e % w)
<1>1. InTile(i, j, h, w, width, e) = (i * h + e \div w) * width + j * w + (e % w)
  BY DEF InTile
<1>2. PICK a \in Int, b \in Int : a = e \div w /\ b = e % w
  OBVIOUS
<1>3. (i * h + a) * width + j * w + b = (i * h + a) * width + (j * w + b)
  OBVIOUS
<1>. QED BY <1>1, <1>2, <1>3 DEF TileAt

\* Every element of an object is of a row and a column of the tile of a part.
LEMMA EveryCElement ==
    ASSUME NEW o, NEW G, NEW J, NEW Y, NEW m1, NEW k1, NEW n1, NEW e,
           Fits(o, G, J, Y, m1, k1, n1), e \in 0 .. o.n_aie_rows * o.m * o.n - 1
    PROVE  \E part \in 0 .. o.n_aie_rows - 1, x \in 0 .. o.m - 1, z \in 0 .. o.n - 1 :
               e = CElement(o, part, x, z)
<1> DEFINE rows == o.n_aie_rows
           m == o.m
           n == o.n
<1>1. rows \in Nat \ {0} /\ m \in Nat \ {0} /\ n \in Nat \ {0}
  BY DEF Fits
<1>. HIDE DEF rows, m, n
<1>2. e \in 0 .. (rows * m) * n - 1
  BY DEF rows, m, n
<1>3. rows * m \in Nat /\ m * n \in Nat \ {0} /\ (rows * m) * n = rows * (m * n) /\ m * n = n * m
  <2>1. m * n > 0
    BY <1>1
  <2>. QED BY <1>1, <2>1
<1>4. CASE o.c_col_maj
  <2> DEFINE w == m * n
             part == e \div w
             d == e % w
  <2>1. w \in Nat \ {0} /\ e \in 0 .. rows * w - 1 /\ w = n * m
    BY <1>2, <1>3
  <2>. HIDE DEF w
  <2>2. part \in 0 .. rows - 1 /\ d \in 0 .. w - 1 /\ e = part * w + d
    BY <1>1, <2>1, TwoDigits
  <2>. HIDE DEF part, d
  <2>3. d \in 0 .. n * m - 1
    BY <2>1, <2>2
  <2>4. d \div m \in 0 .. n - 1 /\ d % m \in 0 .. m - 1 /\ d = (d \div m) * m + (d % m)
    BY <1>1, <2>3, TwoDigits
  <2>5. PICK z \in 0 .. n - 1, x \in 0 .. m - 1 : d = z * m + x
    BY <2>4
  <2>6. e = CElement(o, part, x, z)
    BY <1>4, <2>2, <2>5 DEF CElement, w, m, n
  <2>. QED BY <2>2, <2>5, <2>6 DEF rows, m, n
<1>5. CASE ~o.c_col_maj
  <2> DEFINE hh == rows * m
             a == e \div n
             z == e % n
  <2>1. hh \in Nat /\ e \in 0 .. hh * n - 1
    BY <1>2, <1>3
  <2>. HIDE DEF hh
  <2>2. a \in 0 .. hh - 1 /\ z \in 0 .. n - 1 /\ e = a * n + z
    BY <1>1, <2>1, TwoDigits
  <2>. HIDE DEF a, z
  <2>3. a \in 0 .. rows * m - 1
    BY <2>2 DEF hh
  <2>4. a \div m \in 0 .. rows - 1 /\ a % m \in 0 .. m - 1 /\ a = (a \div m) * m + (a % m)
    BY <1>1, <2>3, TwoDigits
  <2>5. PICK part \in 0 .. rows - 1, x \in 0 .. m - 1 : a = part * m + x
    BY <2>4
  <2>6. e = CElement(o, part, x, z)
    BY <1>5, <2>2, <2>5 DEF CElement, m, n
  <2>. QED BY <2>2, <2>5, <2>6 DEF rows, m, n
<1>. QED BY <1>4, <1>5

\* Its row and its column are of C.
LEMMA InC ==
    ASSUME NEW o, NEW G, NEW J, NEW Y, NEW m1, NEW k1, NEW n1,
           NEW g, NEW j, NEW part, NEW x, NEW z,
           Fits(o, G, J, Y, m1, k1, n1), g \in 0 .. G - 1, j \in 0 .. J - 1,
           part \in 0 .. o.n_aie_rows - 1, x \in 0 .. o.m - 1, z \in 0 .. o.n - 1
    PROVE  CRow(o, g, part, x) \in 0 .. o.M - 1 /\ CColumn(o, j, z) \in 0 .. o.N - 1
<1> DEFINE rows == o.n_aie_rows
           m == o.m
           n == o.n
           i == g * rows + part
           h == G * rows
<1>1. /\ rows \in Nat \ {0} /\ m \in Nat \ {0} /\ n \in Nat \ {0} /\ G \in Nat /\ J \in Nat
      /\ o.M = G * (m * rows) /\ o.N = J * n
  BY DEF Fits
<1>2. part \in 0 .. rows - 1 /\ x \in 0 .. m - 1 /\ z \in 0 .. n - 1
  OBVIOUS
<1>3. CRow(o, g, part, x) = i * m + x /\ CColumn(o, j, z) = j * n + z
  BY DEF CRow, CColumn
<1>. HIDE DEF rows, m, n
<1>4. i \in 0 .. h - 1 /\ h \in Nat
  <2>1. i \in 0 .. h - 1
    BY <1>1, <1>2, Below
  <2>. QED BY <1>1, <2>1
<1>5. G * (m * rows) = h * m
  BY <1>1
<1>. HIDE DEF i, h
<1>6. i * m + x \in 0 .. h * m - 1
  BY <1>1, <1>2, <1>4, Below
<1>7. j * n + z \in 0 .. J * n - 1
  BY <1>1, <1>2, Below
<1>. QED BY <1>1, <1>3, <1>5, <1>6, <1>7

\* The taps of C take it there.
LEMMA StoredAt ==
    ASSUME NEW o, NEW G, NEW J, NEW Y, NEW m1, NEW k1, NEW n1,
           NEW g, NEW j, NEW part, NEW x, NEW z,
           Fits(o, G, J, Y, m1, k1, n1), g \in 0 .. G - 1, j \in 0 .. J - 1,
           part \in 0 .. o.n_aie_rows - 1, x \in 0 .. o.m - 1, z \in 0 .. o.n - 1
    PROVE  Stored(o, g, j, CElement(o, part, x, z))
             = IF o.c_col_maj THEN CColumn(o, j, z) * o.M + CRow(o, g, part, x)
                              ELSE CRow(o, g, part, x) * o.N + CColumn(o, j, z)
<1> DEFINE rows == o.n_aie_rows
           m == o.m
           n == o.n
           M == o.M
           N == o.N
           e == CElement(o, part, x, z)
<1>1. /\ rows \in Nat \ {0} /\ m \in Nat \ {0} /\ n \in Nat \ {0}
      /\ M \in Nat \ {0} /\ N \in Nat \ {0}
  BY DEF Fits
<1>2. part \in 0 .. rows - 1 /\ x \in 0 .. m - 1 /\ z \in 0 .. n - 1 /\ g \in Nat /\ j \in Nat
  OBVIOUS
<1>3. CASE o.c_col_maj
  <2> DEFINE w == m * n
             d == z * m + x
             i == g * rows + part
  <2>1. Stored(o, g, j, e) = InTile(j, g * rows + e \div w, n, m, M, e % w)
    BY <1>3 DEF Stored
  <2>2. e = part * w + d
    BY <1>3 DEF CElement
  <2>3. CRow(o, g, part, x) = i * m + x /\ CColumn(o, j, z) = j * n + z
    BY DEF CRow, CColumn
  <2>. HIDE DEF rows, m, n, M, N, e
  <2>4. d \in 0 .. w - 1 /\ w \in Nat \ {0}
    <3>1. d \in 0 .. n * m - 1
      BY <1>1, <1>2, Below
    <3>2. m * n > 0 /\ m * n = n * m
      BY <1>1
    <3>. QED BY <1>1, <3>1, <3>2
  <2>. HIDE DEF w, d
  <2>5. e \div w = part /\ e % w = d
    BY <1>2, <2>2, <2>4, QuotientRest
  <2>6. i \in Int
    BY <1>1, <1>2
  <2>7. Stored(o, g, j, e) = InTile(j, i, n, m, M, d)
    BY <2>1, <2>5
  <2>8. d = z * m + x
    BY DEF d
  <2>. HIDE DEF i
  <2>9. InTile(j, i, n, m, M, d) = (j * n + z) * M + (i * m + x)
    <3>1. z \in Nat /\ x \in 0 .. m - 1 /\ j \in Int /\ n \in Int /\ M \in Int /\ d \in Nat
      BY <1>1, <1>2, <2>4
    <3>2. d \div m = z /\ d % m = x
      BY <1>1, <2>8, <3>1, QuotientRest
    <3>3. InTile(j, i, n, m, M, d) = TileAt(j, i, n, m, M, d \div m, d % m)
      BY <1>1, <2>6, <3>1, TileToMatrix
    <3>. QED BY <3>2, <3>3 DEF TileAt
  <2>. QED BY <1>3, <2>3, <2>7, <2>9 DEF e, M
<1>4. CASE ~o.c_col_maj
  <2> DEFINE a == part * m + x
             h == m * rows
  <2>1. Stored(o, g, j, e) = InTile(g, j, h, n, N, e)
    BY <1>4 DEF Stored
  <2>2. e = a * n + z
    BY <1>4 DEF CElement
  <2>3. CRow(o, g, part, x) = (g * rows + part) * m + x /\ CColumn(o, j, z) = j * n + z
    BY DEF CRow, CColumn
  <2>. HIDE DEF rows, m, n, M, N, e
  <2>4. a \in Nat /\ h \in Int
    <3>1. part * m \in Nat
      BY <1>1, <1>2
    <3>. QED BY <1>1, <1>2, <3>1
  <2>5. g * h + a = (g * rows + part) * m + x
    BY <1>1, <1>2
  <2>. HIDE DEF a, h
  <2>6. InTile(g, j, h, n, N, e) = (g * h + a) * N + (j * n + z)
    <3>1. z \in 0 .. n - 1 /\ g \in Int /\ j \in Int /\ N \in Int
      BY <1>1, <1>2
    <3>2. a * n \in Nat
      BY <1>1, <2>4
    <3>3. e \in Nat
      BY <2>2, <3>1, <3>2
    <3>4. e \div n = a /\ e % n = z
      BY <1>1, <2>2, <2>4, <3>1, QuotientRest
    <3>5. InTile(g, j, h, n, N, e) = TileAt(g, j, h, n, N, e \div n, e % n)
      BY <1>1, <2>4, <3>1, <3>3, TileToMatrix
    <3>. QED BY <3>4, <3>5 DEF TileAt
  <2>. QED BY <1>4, <2>1, <2>3, <2>5, <2>6 DEF e, N
<1>. QED BY <1>3, <1>4

\* No two elements of the objects are stored at the same place.
LEMMA StoredUnique ==
    ASSUME NEW o, NEW G, NEW J, NEW Y, NEW m1, NEW k1, NEW n1,
           NEW g, NEW j, NEW part, NEW x, NEW z, NEW f, NEW i, NEW other, NEW v, NEW w,
           Fits(o, G, J, Y, m1, k1, n1),
           g \in 0 .. G - 1, j \in 0 .. J - 1,
           part \in 0 .. o.n_aie_rows - 1, x \in 0 .. o.m - 1, z \in 0 .. o.n - 1,
           f \in 0 .. G - 1, i \in 0 .. J - 1,
           other \in 0 .. o.n_aie_rows - 1, v \in 0 .. o.m - 1, w \in 0 .. o.n - 1,
           Stored(o, g, j, CElement(o, part, x, z)) = Stored(o, f, i, CElement(o, other, v, w))
    PROVE  g = f /\ j = i /\ part = other /\ x = v /\ z = w
<1> DEFINE row1 == CRow(o, g, part, x)
           col1 == CColumn(o, j, z)
           row2 == CRow(o, f, other, v)
           col2 == CColumn(o, i, w)
<1>1. /\ o.n_aie_rows \in Nat \ {0} /\ o.m \in Nat \ {0} /\ o.n \in Nat \ {0}
      /\ o.M \in Nat \ {0} /\ o.N \in Nat \ {0}
  BY DEF Fits
<1>2. Stored(o, g, j, CElement(o, part, x, z))
        = IF o.c_col_maj THEN col1 * o.M + row1 ELSE row1 * o.N + col1
  BY StoredAt
<1>3. Stored(o, f, i, CElement(o, other, v, w))
        = IF o.c_col_maj THEN col2 * o.M + row2 ELSE row2 * o.N + col2
  BY StoredAt
<1>4. row1 \in 0 .. o.M - 1 /\ col1 \in 0 .. o.N - 1
  BY InC
<1>5. row2 \in 0 .. o.M - 1 /\ col2 \in 0 .. o.N - 1
  BY InC
<1>. HIDE DEF row1, col1, row2, col2
<1>6. row1 = row2 /\ col1 = col2
  <2>1. CASE o.c_col_maj
    <3>1. col1 * o.M + row1 = col2 * o.M + row2
      BY <1>2, <1>3, <2>1
    <3>2. (col1 * o.M + row1) \div o.M = col1 /\ (col1 * o.M + row1) % o.M = row1
      BY <1>1, <1>4, QuotientRest
    <3>3. (col2 * o.M + row2) \div o.M = col2 /\ (col2 * o.M + row2) % o.M = row2
      BY <1>1, <1>5, QuotientRest
    <3>. QED BY <3>1, <3>2, <3>3
  <2>2. CASE ~o.c_col_maj
    <3>1. row1 * o.N + col1 = row2 * o.N + col2
      BY <1>2, <1>3, <2>2
    <3>2. (row1 * o.N + col1) \div o.N = row1 /\ (row1 * o.N + col1) % o.N = col1
      BY <1>1, <1>4, QuotientRest
    <3>3. (row2 * o.N + col2) \div o.N = row2 /\ (row2 * o.N + col2) % o.N = col2
      BY <1>1, <1>5, QuotientRest
    <3>. QED BY <3>1, <3>2, <3>3
  <2>. QED BY <2>1, <2>2
<1>7. j = i /\ z = w
  <2>1. j * o.n + z = i * o.n + w
    BY <1>6 DEF col1, col2, CColumn
  <2>2. (j * o.n + z) \div o.n = j /\ (j * o.n + z) % o.n = z
    BY <1>1, QuotientRest
  <2>3. (i * o.n + w) \div o.n = i /\ (i * o.n + w) % o.n = w
    BY <1>1, QuotientRest
  <2>. QED BY <2>1, <2>2, <2>3
<1>8. g * o.n_aie_rows + part = f * o.n_aie_rows + other /\ x = v
  <2> DEFINE a == g * o.n_aie_rows + part
             b == f * o.n_aie_rows + other
  <2>1. a * o.m + x = b * o.m + v
    BY <1>6 DEF row1, row2, CRow
  <2>2. a \in Nat /\ b \in Nat
    <3>1. g * o.n_aie_rows \in Nat /\ f * o.n_aie_rows \in Nat
      BY <1>1
    <3>. QED BY <1>1, <3>1
  <2>. HIDE DEF a, b
  <2>3. (a * o.m + x) \div o.m = a /\ (a * o.m + x) % o.m = x
    BY <1>1, <2>2, QuotientRest
  <2>4. (b * o.m + v) \div o.m = b /\ (b * o.m + v) % o.m = v
    BY <1>1, <2>2, QuotientRest
  <2>5. a = b /\ x = v
    BY <2>1, <2>3, <2>4
  <2>. QED BY <2>5 DEF a, b
<1>9. g = f /\ part = other
  <2>1. (g * o.n_aie_rows + part) \div o.n_aie_rows = g
        /\ (g * o.n_aie_rows + part) % o.n_aie_rows = part
    BY <1>1, QuotientRest
  <2>2. (f * o.n_aie_rows + other) \div o.n_aie_rows = f
        /\ (f * o.n_aie_rows + other) % o.n_aie_rows = other
    BY <1>1, QuotientRest
  <2>. QED BY <1>8, <2>1, <2>2
<1>. QED BY <1>7, <1>8, <1>9

\* Step y of tile t in K.
KIndex(o, t, y) == t * o.k + y

\* The row of cores of a part.
CoreRow(o, g, part) == g * o.n_aie_rows + part

\* Where the kernel looks for row x of the tile of row i of cores, step y, is row x of the
\* rows of A that C has for it.
LEMMA ReadsRowOfA ==
    ASSUME NEW o, NEW G, NEW J, NEW Y, NEW m1, NEW k1, NEW n1,
           NEW g, NEW part, NEW x, NEW t, NEW y,
           Fits(o, G, J, Y, m1, k1, n1), g \in Nat, part \in 0 .. o.n_aie_rows - 1,
           x \in 0 .. o.m - 1, t \in 0 .. Y - 1, y \in 0 .. o.k - 1
    PROVE  InL1A(o, CoreRow(o, g, part), t, AtA(o, x, y))
             = CRow(o, g, part, x) * o.K + KIndex(o, t, y)
<1> DEFINE i == g * o.n_aie_rows + part
           shim == o.n_A_tiles_per_shim
           m == o.m
           k == o.k
           K == o.K
           a == (i % shim) * m + x
           e == m * k * (i % shim) + (x * k + y)
<1>1. /\ o.n_aie_rows \in Nat \ {0} /\ shim \in Nat \ {0} /\ m \in Nat \ {0}
      /\ k \in Nat \ {0} /\ K \in Nat \ {0} /\ Y \in Nat \ {0}
  BY DEF Fits
<1>2. Streamed(a_dims(o), AtA(o, x, y)) = x * k + y
  BY KernelReadsA
<1>3. InL1A(o, i, t, AtA(o, x, y)) = InTile(i \div shim, t, m * shim, k, K, e)
  <2>. HIDE DEF i
  <2>. QED BY <1>2 DEF InL1A
<1>4. i \in Nat
  <2>1. g * o.n_aie_rows \in Nat
    BY <1>1
  <2>. QED BY <1>1, <2>1
<1>5. x \in 0 .. m - 1 /\ y \in 0 .. k - 1 /\ t \in Nat
  BY <1>1
<1>6. CRow(o, g, part, x) = i * m + x /\ KIndex(o, t, y) = t * k + y
  BY DEF CRow, KIndex
<1>. HIDE DEF i, shim, m, k, K
<1>7. PICK q \in Nat, p \in 0 .. shim - 1 : q = i \div shim /\ p = i % shim /\ i = q * shim + p
  <2>1. i \in 0 .. (i + 1) * shim - 1
    <3>1. \A u \in Nat, v \in Nat \ {0} : u <= (u + 1) * v - 1
      OBVIOUS
    <3>2. (i + 1) * shim \in Int
      BY <1>1, <1>4
    <3>. QED BY <1>1, <1>4, <3>1, <3>2
  <2>2. i + 1 \in Nat
    BY <1>4
  <2>3. /\ i \div shim \in 0 .. (i + 1) - 1 /\ i % shim \in 0 .. shim - 1
        /\ i = (i \div shim) * shim + (i % shim)
    BY <1>1, <2>1, <2>2, TwoDigits
  <2>4. i \div shim \in Nat
    BY <1>4, <2>3
  <2>. QED BY <2>3, <2>4
<1>8. a = p * m + x /\ a \in Nat
  <2>1. a = p * m + x
    BY <1>7
  <2>2. p * m \in Nat
    BY <1>1, <1>7
  <2>. HIDE DEF a
  <2>. QED BY <1>5, <2>1, <2>2
<1>9. e = a * k + y
  <2>1. m * k * p + (x * k + y) = (p * m + x) * k + y
    BY <1>1, <1>5, <1>7
  <2>. QED BY <1>7, <1>8, <2>1
<1>. HIDE DEF a, e
<1>10. e \div k = a /\ e % k = y
  BY <1>1, <1>5, <1>8, <1>9, QuotientRest
<1>11. e \in Nat /\ m * shim \in Int
  <2>1. a * k \in Nat
    BY <1>1, <1>8
  <2>. QED BY <1>1, <1>5, <1>9, <2>1
<1> DEFINE h == m * shim
<1>. HIDE DEF h
<1>12. InTile(i \div shim, t, h, k, K, e)
         = TileAt(i \div shim, t, h, k, K, e \div k, e % k)
  <2>1. InTile(q, t, h, k, K, e) = TileAt(q, t, h, k, K, e \div k, e % k)
    <3>1. q \in Int /\ t \in Int /\ h \in Int /\ K \in Int
      BY <1>1, <1>5, <1>7, <1>11 DEF h
    <3>. QED BY <1>1, <1>11, <3>1, TileToMatrix
  <2>. QED BY <1>7, <2>1
<1>13. InTile(i \div shim, t, m * shim, k, K, e) = (q * (m * shim) + a) * K + (t * k + y)
  BY <1>7, <1>10, <1>12 DEF TileAt, h
<1>14. q * (m * shim) + a = i * m + x
  <2>1. q * (m * shim) + (p * m + x) = (q * shim + p) * m + x
    <3>1. m \in Int /\ shim \in Int /\ x \in Int /\ q \in Int /\ p \in Int
      BY <1>1, <1>5
    <3>. QED BY <3>1
  <2>. QED BY <1>7, <1>8, <2>1
<1>. QED BY <1>3, <1>6, <1>13, <1>14 DEF i, K, CoreRow

\* The same of the columns of B.
LEMMA ReadsColumnOfB ==
    ASSUME NEW o, NEW G, NEW J, NEW Y, NEW m1, NEW k1, NEW n1,
           NEW j, NEW z, NEW t, NEW y,
           Fits(o, G, J, Y, m1, k1, n1), j \in 0 .. J - 1,
           z \in 0 .. o.n - 1, t \in 0 .. Y - 1, y \in 0 .. o.k - 1
    PROVE  InL1B(o, j, t, AtB(o, y, z))
             = IF o.b_col_maj THEN CColumn(o, j, z) * o.K + KIndex(o, t, y)
                              ELSE KIndex(o, t, y) * o.N + CColumn(o, j, z)
<1> DEFINE k == o.k
           n == o.n
           K == o.K
           N == o.N
           e == Streamed(b_dims(o), AtB(o, y, z))
<1>1. /\ n \in Nat \ {0} /\ k \in Nat \ {0} /\ K \in Nat \ {0} /\ N \in Nat \ {0}
      /\ Y \in Nat /\ J \in Nat
  BY DEF Fits
<1>2. e = IF o.b_col_maj THEN z * k + y ELSE y * n + z
  BY KernelReadsB
<1>3. InL1B(o, j, t, AtB(o, y, z))
        = IF o.b_col_maj THEN InTile(j, t, n, k, K, e) ELSE InTile(t, j, k, n, N, e)
  BY DEF InL1B
<1>4. z \in 0 .. n - 1 /\ y \in 0 .. k - 1 /\ t \in Nat /\ j \in Nat
  BY <1>1
<1>5. CColumn(o, j, z) = j * n + z /\ KIndex(o, t, y) = t * k + y
  BY DEF CColumn, KIndex
<1>. HIDE DEF k, n, K, N, e
<1>6. CASE o.b_col_maj
  <2>1. e = z * k + y
    BY <1>2, <1>6
  <2>2. e \div k = z /\ e % k = y
    BY <1>1, <1>4, <2>1, QuotientRest
  <2>3. e \in Nat
    <3>1. z * k \in Nat
      BY <1>1, <1>4
    <3>. QED BY <1>1, <1>4, <2>1, <3>1
  <2>4. InTile(j, t, n, k, K, e) = TileAt(j, t, n, k, K, e \div k, e % k)
    <3>1. j \in Int /\ t \in Int /\ n \in Int /\ K \in Int
      BY <1>1, <1>4
    <3>. QED BY <1>1, <2>3, <3>1, TileToMatrix
  <2>. QED BY <1>3, <1>5, <1>6, <2>2, <2>4 DEF TileAt, K
<1>7. CASE ~o.b_col_maj
  <2>1. e = y * n + z
    BY <1>2, <1>7
  <2>2. e \div n = y /\ e % n = z
    BY <1>1, <1>4, <2>1, QuotientRest
  <2>3. e \in Nat
    <3>1. y * n \in Nat
      BY <1>1, <1>4
    <3>. QED BY <1>1, <1>4, <2>1, <3>1
  <2>4. InTile(t, j, k, n, N, e) = TileAt(t, j, k, n, N, e \div n, e % n)
    <3>1. j \in Int /\ t \in Int /\ k \in Int /\ N \in Int
      BY <1>1, <1>4
    <3>. QED BY <1>1, <2>3, <3>1, TileToMatrix
  <2>. QED BY <1>3, <1>5, <1>7, <2>2, <2>4 DEF TileAt, N
<1>. QED BY <1>6, <1>7

\* What the kernel multiplies into row x and column z of its output tile.
LEMMA MultipliedAt ==
    ASSUME NEW o, NEW G, NEW J, NEW Y, NEW m1, NEW k1, NEW n1, NEW x, NEW z,
           Fits(o, G, J, Y, m1, k1, n1), x \in 0 .. o.m - 1, z \in 0 .. o.n - 1
    PROVE  Multiplied(o, AtC(o, x, z)) = {<<AtA(o, x, y), AtB(o, y, z)>> : y \in 0 .. o.k - 1}
<1> DEFINE pairs(c) == {<<AtA(o, c[1], y), AtB(o, y, c[2])>> : y \in 0 .. o.k - 1}
           cells == (0 .. o.m - 1) \X (0 .. o.n - 1)
           here == {d \in cells : AtC(o, d[1], d[2]) = AtC(o, x, z)}
<1>1. here = {<<x, z>>}
  <2>1. ASSUME NEW v \in 0 .. o.m - 1, NEW w \in 0 .. o.n - 1, AtC(o, v, w) = AtC(o, x, z)
        PROVE  v = x /\ w = z
    BY <2>1, KernelWritesC
  <2>. QED BY <2>1
<1>2. Multiplied(o, AtC(o, x, z)) = UNION {pairs(c) : c \in here}
  BY DEF Multiplied
<1>3. pairs(<<x, z>>) = {<<AtA(o, x, y), AtB(o, y, z)>> : y \in 0 .. o.k - 1}
  OBVIOUS
<1>. HIDE DEF pairs, here
<1>4. UNION {pairs(c) : c \in here} = pairs(<<x, z>>)
  BY <1>1
<1>. QED BY <1>2, <1>3, <1>4

\* The steps of K are the steps of its tiles.
LEMMA StepsOfK ==
    ASSUME NEW o, NEW G, NEW J, NEW Y, NEW m1, NEW k1, NEW n1, Fits(o, G, J, Y, m1, k1, n1)
    PROVE  /\ \A t \in 0 .. Y - 1, y \in 0 .. o.k - 1 : KIndex(o, t, y) \in 0 .. o.K - 1
           /\ \A u \in 0 .. o.K - 1 : \E t \in 0 .. Y - 1, y \in 0 .. o.k - 1 : u = KIndex(o, t, y)
<1> DEFINE k == o.k
<1>1. k \in Nat \ {0} /\ Y \in Nat /\ o.K = Y * k
  BY DEF Fits
<1>. HIDE DEF k
<1>2. ASSUME NEW t \in 0 .. Y - 1, NEW y \in 0 .. k - 1 PROVE KIndex(o, t, y) \in 0 .. o.K - 1
  <2>1. t * k + y \in 0 .. Y * k - 1
    BY <1>1, Below
  <2>. QED BY <1>1, <2>1 DEF KIndex, k
<1>3. ASSUME NEW u \in 0 .. o.K - 1
      PROVE  \E t \in 0 .. Y - 1, y \in 0 .. k - 1 : u = KIndex(o, t, y)
  <2>1. u \in 0 .. Y * k - 1
    BY <1>1
  <2>2. u \div k \in 0 .. Y - 1 /\ u % k \in 0 .. k - 1 /\ u = (u \div k) * k + (u % k)
    BY <1>1, <2>1, TwoDigits
  <2>3. u = KIndex(o, u \div k, u % k)
    BY <2>2 DEF KIndex, k
  <2>. QED BY <2>2, <2>3
<1>. QED BY <1>2, <1>3 DEF k

\* What an element of an object holds is its row of A times its column of B.
LEMMA ContentAt ==
    ASSUME NEW o, NEW G, NEW J, NEW Y, NEW m1, NEW k1, NEW n1,
           NEW g, NEW j, NEW part, NEW x, NEW z,
           Fits(o, G, J, Y, m1, k1, n1), g \in Nat, j \in 0 .. J - 1,
           part \in 0 .. o.n_aie_rows - 1, x \in 0 .. o.m - 1, z \in 0 .. o.n - 1
    PROVE  Content(o, g, j, CElement(o, part, x, z))
             = Reference(o, CRow(o, g, part, x), CColumn(o, j, z))
<1> DEFINE d == Streamed(c_dims(o), CElement(o, part, x, z))
           i == CoreRow(o, g, part)
           row == CRow(o, g, part, x)
           col == CColumn(o, j, z)
           q == AtC(o, x, z)
           w == o.m * o.n
           term(u) == <<row * o.K + u, IF o.b_col_maj THEN col * o.K + u ELSE u * o.N + col>>
           read(t, p) == <<InL1A(o, i, t, p[1]), InL1B(o, j, t, p[2])>>
           pair(y) == <<AtA(o, x, y), AtB(o, y, z)>>
<1>1. d = part * w + q
  BY JoinReadsC
<1>2. q \in 0 .. w - 1
  BY KernelWritesC
<1>3. w \in Nat \ {0}
  <2>1. o.m \in Nat \ {0} /\ o.n \in Nat \ {0}
    BY DEF Fits
  <2>2. o.m * o.n > 0
    BY <2>1
  <2>. QED BY <2>1, <2>2
<1>4. d \div w = part /\ d % w = q
  <2>. HIDE DEF d, q, w
  <2>. QED BY <1>1, <1>2, <1>3, QuotientRest
<1>5. Content(o, g, j, CElement(o, part, x, z))
        = UNION {{read(t, p) : p \in Multiplied(o, q)} : t \in 0 .. (o.K \div o.k) - 1}
  <2>1. Content(o, g, j, CElement(o, part, x, z))
          = UNION {{<<InL1A(o, g * o.n_aie_rows + d \div w, t, p[1]), InL1B(o, j, t, p[2])>> :
                        p \in Multiplied(o, d % w)} : t \in 0 .. (o.K \div o.k) - 1}
    BY DEF Content
  <2>. HIDE DEF d, q, w
  <2>. QED BY <1>4, <2>1 DEF CoreRow
<1>6. Multiplied(o, q) = {pair(y) : y \in 0 .. o.k - 1}
  BY MultipliedAt
<1>7. ASSUME NEW t \in 0 .. Y - 1, NEW y \in 0 .. o.k - 1
      PROVE  read(t, pair(y)) = term(KIndex(o, t, y))
  <2>1. InL1A(o, i, t, AtA(o, x, y)) = row * o.K + KIndex(o, t, y)
    BY ReadsRowOfA
  <2>2. InL1B(o, j, t, AtB(o, y, z))
          = IF o.b_col_maj THEN col * o.K + KIndex(o, t, y) ELSE KIndex(o, t, y) * o.N + col
    BY ReadsColumnOfB
  <2>. HIDE DEF i, row, col
  <2>. QED BY <2>1, <2>2
<1>8. o.K \div o.k = Y
  BY DEF Fits
<1>9. Reference(o, row, col) = {term(u) : u \in 0 .. o.K - 1}
  <2>. HIDE DEF row, col
  <2>. QED BY DEF Reference
<1>. HIDE DEF d, i, row, col, q, w, term, read, pair
<1>10. UNION {{read(t, p) : p \in Multiplied(o, q)} : t \in 0 .. Y - 1}
         = {term(u) : u \in 0 .. o.K - 1}
  <2>1. ASSUME NEW t \in 0 .. Y - 1, NEW y \in 0 .. o.k - 1
        PROVE  \E u \in 0 .. o.K - 1 : read(t, pair(y)) = term(u)
    BY <1>7, StepsOfK
  <2>2. ASSUME NEW u \in 0 .. o.K - 1
        PROVE  \E t \in 0 .. Y - 1 : \E y \in 0 .. o.k - 1 : term(u) = read(t, pair(y))
    BY <1>7, StepsOfK
  <2>. QED BY <1>6, <2>1, <2>2
<1>. QED BY <1>5, <1>8, <1>9, <1>10 DEF row, col

\* whole_array_tuned.py: in every call, for every number and size of matrices, tiles and
\* blocks that my_matmul accepts and in all four layouts, the access patterns, the split
\* and the join compose to the identity.
THEOREM EveryLayoutIsProduct == Spec => []LayoutIsProduct
<1>1. CallsInv => LayoutIsProduct
  <2> SUFFICES ASSUME CallsInv, call.kind = "layout" PROVE LayoutIsProduct
    BY DEF LayoutIsProduct
  <2> DEFINE o == call.o
             at == call.at
             G == o.M \div (o.m * o.n_aie_rows)
             J == o.N \div o.n
             Y == o.K \div o.k
             m1 == o.m \div o.r
             k1 == o.k \div o.s
             n1 == o.n \div o.t
             all == 0 .. o.n_aie_rows * o.m * o.n - 1
             place(p) == Stored(o, p[1], p[2], p[3])
  <2>1. call \in Calls
    BY DEF CallsInv, NoCall
  <2>2. Tiled(o) /\ at \in Elements(o)
    BY <2>1, CallsAssumption
  <2>3. Fits(o, G, J, Y, m1, k1, n1)
    BY <2>2, TiledFits
  <2>4. Elements(o) = (0 .. G - 1) \X (0 .. J - 1) \X all
    BY DEF Elements
  <2>. HIDE DEF G, J, Y, m1, k1, n1, o, at
  <2>5. ASSUME NEW p \in Elements(o)
        PROVE  \E g \in 0 .. G - 1, j \in 0 .. J - 1, part \in 0 .. o.n_aie_rows - 1,
                  x \in 0 .. o.m - 1, z \in 0 .. o.n - 1 :
                      p = <<g, j, CElement(o, part, x, z)>>
    <3>1. p[1] \in 0 .. G - 1 /\ p[2] \in 0 .. J - 1 /\ p[3] \in all /\ p = <<p[1], p[2], p[3]>>
      BY <2>4
    <3>2. \E part \in 0 .. o.n_aie_rows - 1, x \in 0 .. o.m - 1, z \in 0 .. o.n - 1 :
              p[3] = CElement(o, part, x, z)
      BY <2>3, <3>1, EveryCElement
    <3>. QED BY <3>1, <3>2
  <2>6. PICK g \in 0 .. G - 1, j \in 0 .. J - 1, part \in 0 .. o.n_aie_rows - 1,
             x \in 0 .. o.m - 1, z \in 0 .. o.n - 1 :
                 at = <<g, j, CElement(o, part, x, z)>>
    BY <2>2, <2>5
  <2> DEFINE row == CRow(o, g, part, x)
             col == CColumn(o, j, z)
  <2>7. place(at) = IF o.c_col_maj THEN col * o.M + row ELSE row * o.N + col
    <3>1. place(at) = Stored(o, g, j, CElement(o, part, x, z))
      BY <2>6
    <3>. HIDE DEF place, row, col
    <3>. QED BY <2>3, <3>1, StoredAt DEF row, col
  <2>8. row \in 0 .. o.M - 1 /\ col \in 0 .. o.N - 1
    BY <2>3, InC
  <2>9. o.M \in Nat \ {0} /\ o.N \in Nat \ {0}
    BY <2>3 DEF Fits
  <2>. HIDE DEF row, col
  <2>10. place(at) \in 0 .. o.M * o.N - 1 /\ Expected(o, place(at)) = Reference(o, row, col)
    <3> DEFINE M == o.M
               N == o.N
    <3>1. row \in 0 .. M - 1 /\ col \in 0 .. N - 1 /\ M \in Nat \ {0} /\ N \in Nat \ {0}
      BY <2>8, <2>9
    <3>2. place(at) = IF o.c_col_maj THEN col * M + row ELSE row * N + col
      BY <2>7
    <3>3. Expected(o, place(at)) = IF o.c_col_maj
                                      THEN Reference(o, place(at) % M, place(at) \div M)
                                      ELSE Reference(o, place(at) \div N, place(at) % N)
      BY DEF Expected
    <3>. HIDE DEF place, M, N
    <3>4. /\ col * M + row \in 0 .. N * M - 1
          /\ (col * M + row) \div M = col /\ (col * M + row) % M = row
      BY <3>1, Below
    <3>5. /\ row * N + col \in 0 .. M * N - 1
          /\ (row * N + col) \div N = row /\ (row * N + col) % N = col
      BY <3>1, Below
    <3>6. N * M = M * N
      BY <3>1
    <3>7. place(at) \in 0 .. M * N - 1 /\ Expected(o, place(at)) = Reference(o, row, col)
      BY <3>2, <3>3, <3>4, <3>5, <3>6
    <3>. QED BY <3>7 DEF M, N
  <2>11. Content(o, at[1], at[2], at[3]) = Reference(o, row, col)
    <3>1. Content(o, g, j, CElement(o, part, x, z)) = Reference(o, row, col)
      <4>1. g \in Nat
        OBVIOUS
      <4>. QED BY <2>3, <4>1, ContentAt DEF row, col
    <3>. QED BY <2>6, <3>1
  <2>12. ASSUME NEW p \in Elements(o), place(p) = place(at) PROVE p = at
    <3>1. PICK f \in 0 .. G - 1, i \in 0 .. J - 1, other \in 0 .. o.n_aie_rows - 1,
               v \in 0 .. o.m - 1, w \in 0 .. o.n - 1 :
                   p = <<f, i, CElement(o, other, v, w)>>
      BY <2>5
    <3>2. Stored(o, g, j, CElement(o, part, x, z)) = Stored(o, f, i, CElement(o, other, v, w))
      BY <2>6, <2>12, <3>1
    <3>3. g = f /\ j = i /\ part = other /\ x = v /\ z = w
      BY <2>3, <3>2, StoredUnique
    <3>. QED BY <2>6, <3>1, <3>3
  <2>13. /\ place(at) \in 0 .. o.M * o.N - 1
         /\ Content(o, at[1], at[2], at[3]) = Expected(o, place(at))
         /\ \A p \in Elements(o) : place(p) = place(at) => p = at
    <3>. HIDE DEF place
    <3>. QED BY <2>10, <2>11, <2>12
  <2>. QED BY <2>13 DEF LayoutIsProduct, o, at
<1>. QED BY <1>1, CallsInvariance, PTL
=============================================================================
