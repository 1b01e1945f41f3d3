---------------------------- MODULE ArrayProofs -----------------------------
(***************************************************************************)
(* The GEMM designs compute the product, for every array, shape and number *)
(* of dispatches that fits (FittingLines).                                 *)
(*                                                                         *)
(* The invariant follows a tile through the array.  What the sequence      *)
(* issues is lined up: for the j-th block drained of a column there are K  *)
(* pairs in the streams of each of its cores, and they are those of the    *)
(* block (Matched, Aligned).  The FIFOs are bounded and keep their order   *)
(* (Fifos), so the core makes of its j-th output tile the sum of those     *)
(* pairs (Summed), and a drain stores that (Memory).                       *)
(*                                                                         *)
(* finish() waits for drains only.  It is enough: the last block drained   *)
(* needs the last pairs filled, of every core (DrainedMeansUsed).          *)
(***************************************************************************)
EXTENDS VendoredArray, TLAPS

-----------------------------------------------------------------------------
(* Quotients, remainders and lists *)

\* A quotient and a remainder exist ...
LEMMA DivMod ==
    ASSUME NEW a \in Int, NEW b \in Nat \ {0}
    PROVE  /\ a \div b \in Int
           /\ a % b \in 0 .. b - 1
           /\ a = b * (a \div b) + (a % b)
  OBVIOUS

\* ... and are unique.
LEMMA DivModUnique ==
    ASSUME NEW b \in Nat \ {0}, NEW q \in Int, NEW r \in 0 .. b - 1, NEW a, a = b * q + r
    PROVE  a \div b = q /\ a % b = r
<1>1. a \in Int /\ b * q \in Int
  OBVIOUS
<1>2. a \div b \in Int /\ a % b \in 0 .. b - 1 /\ a = b * (a \div b) + (a % b)
  BY <1>1, DivMod
<1> DEFINE d == a \div b - q
<1>3. d \in Int /\ b * (a \div b) = b * q + b * d
  BY <1>2
<1>4. b * d < b /\ -b < b * d
  BY <1>1, <1>2, <1>3
<1>. HIDE DEF d
<1>5. d >= 1 => b * d >= b
  BY <1>3
<1>6. d <= -1 => b * d <= -b
  BY <1>3
<1>7. d = 0
  BY <1>3, <1>4, <1>5, <1>6
<1>8. a \div b = q
  BY <1>2, <1>7 DEF d
<1>. QED BY <1>1, <1>2, <1>8

\* What is multiplied keeps its order.
LEMMA Monotone ==
    ASSUME NEW a \in Int, NEW b \in Int, NEW k \in Nat
    PROVE  /\ a <= b => a * k <= b * k
           /\ a * k \in Int /\ b * k \in Int
           /\ (a - 1) * k = a * k - k /\ (a + 1) * k = a * k + k
           /\ k > 0 /\ a * k <= b * k => a <= b
<1>1. /\ a * k \in Int /\ b * k \in Int
      /\ (a - 1) * k = a * k - k /\ (a + 1) * k = a * k + k
  OBVIOUS
<1> DEFINE d == b - a
<1>2. d \in Int /\ b * k = a * k + d * k /\ d * k \in Int
  OBVIOUS
<1>3. (a <= b <=> d >= 0) /\ (d \in Nat => d * k >= 0) /\ (d < 0 => d * k <= -k)
  <2>1. a <= b <=> d >= 0
    OBVIOUS
  <2>. HIDE DEF d
  <2>2. d \in Nat => d * k >= 0
    OBVIOUS
  <2>3. d < 0 => d * k <= -k
    <3>. SUFFICES ASSUME d < 0 PROVE d * k <= -k
      OBVIOUS
    <3>1. (-d - 1) * k >= 0
      BY <1>2
    <3>2. (-d - 1) * k = -(d * k) - k
      BY <1>2
    <3>. QED BY <1>2, <3>1, <3>2
  <2>. QED BY <2>1, <2>2, <2>3
<1>. HIDE DEF d
<1>. QED BY <1>1, <1>2, <1>3

\* All that is asked of a list: its elements are whatever they are.
IsList(q) == Len(q) \in Nat /\ DOMAIN q = 1 .. Len(q)

\* A list that is appended to.
LEMMA Appended ==
    ASSUME NEW q, NEW v, IsList(q)
    PROVE  /\ IsList(Append(q, v)) /\ Len(Append(q, v)) = Len(q) + 1
           /\ Append(q, v)[Len(q) + 1] = v
           /\ \A i \in 1 .. Len(q) : Append(q, v)[i] = q[i]
<1>1. Len(Append(q, v)) = Len(q) + 1 /\ DOMAIN Append(q, v) = 1 .. Len(q) + 1
  BY DEF IsList
<1>2. Append(q, v)[Len(q) + 1] = v /\ \A i \in 1 .. Len(q) : Append(q, v)[i] = q[i]
  BY DEF IsList
<1>. QED BY <1>1, <1>2 DEF IsList

IsListOf(f, n) == f = [i \in 1 .. n |-> f[i]]

\* A list that now has the length and the elements of another.
LEMMA AppendedIs ==
    ASSUME NEW q, NEW v, IsList(q), NEW f, IsListOf(f, Len(q) + 1), v = f[Len(q) + 1], \A i \in 1 .. Len(q) : q[i] = f[i]
    PROVE  Append(q, v) = f
  BY DEF IsList, IsListOf

\* A list by its elements.
LEMMA ListOf ==
    ASSUME NEW n \in Nat, NEW f, IsListOf(f, n)
    PROVE  IsList(f) /\ Len(f) = n
  BY DEF IsListOf, IsList

\* Two lists, one after the other.
LEMMA Joined ==
    ASSUME NEW q, NEW s, IsList(q), IsList(s)
    PROVE  /\ IsList(q \o s) /\ Len(q \o s) = Len(q) + Len(s)
           /\ \A i \in 1 .. Len(q) : (q \o s)[i] = q[i]
           /\ \A i \in 1 .. Len(s) : (q \o s)[Len(q) + i] = s[i]
<1>1. Len(q \o s) = Len(q) + Len(s) /\ DOMAIN (q \o s) = 1 .. Len(q) + Len(s)
  BY DEF IsList
<1>2. \A i \in 1 .. Len(q) : (q \o s)[i] = q[i]
  BY DEF IsList
<1>3. \A i \in 1 .. Len(s) : (q \o s)[Len(q) + i] = s[i]
  BY DEF IsList
<1>. QED BY <1>1, <1>2, <1>3 DEF IsList

\* z is the list q of length l followed by the list t of length m.
IsJoin(z, q, t, l, m) ==
    /\ IsList(z) /\ Len(z) = l + m
    /\ \A i \in 1 .. l : z[i] = q[i]
    /\ \A i \in 1 .. m : z[l + i] = t[i]

\* A join of two lists is one.
LEMMA JoinedOf ==
    ASSUME NEW z, NEW q, NEW t, NEW l, NEW m, z = q \o t,
           IsList(q), IsList(t), Len(q) = l, Len(t) = m
    PROVE  IsJoin(z, q, t, l, m)
<1>1. IsList(q \o t) /\ Len(q \o t) = Len(q) + Len(t)
  BY Joined
<1>2. \A i \in 1 .. Len(q) : (q \o t)[i] = q[i]
  BY Joined
<1>3. \A i \in 1 .. Len(t) : (q \o t)[Len(q) + i] = t[i]
  BY Joined
<1>4. IsJoin(q \o t, q, t, Len(q), Len(t))
  BY <1>1, <1>2, <1>3 DEF IsJoin
<1>. QED BY <1>4

-----------------------------------------------------------------------------
(* The invariant of the array, whatever the sequence *)

Shape ==
    /\ design \in Design
    /\ design.n_aie_cols >= design.n_aie_rows \/ design.n_aie_rows % design.n_aie_cols = 0

Types ==
    /\ DOMAIN streamA = Shims /\ \A i \in Shims : IsList(streamA[i])
    /\ DOMAIN streamB = Cols /\ DOMAIN streamC = Cols
    /\ \A c \in Cols : IsList(streamB[c]) /\ IsList(streamC[c])
    /\ filledA \in [Shims -> Nat] /\ filledB \in [Cols -> Nat]
    /\ sentA \in [Rows -> Nat] /\ sentB \in [Cols -> Nat]
    /\ used \in [Cores -> Nat] /\ holds \in [Cores -> BOOLEAN]
    /\ DOMAIN acc = Cores /\ \A x \in Cores : IsList(acc[x])
    /\ DOMAIN results = Cores /\ \A x \in Cores : IsList(results[x])
    /\ sentC \in [Cores -> Nat] /\ drained \in [Cols -> Nat]
    /\ DOMAIN mem = {Place(tile) : tile \in Tiles}

\* No FIFO is fuller than it is deep, and no end is ahead of the one before.
Fifos ==
    /\ \A i \in Shims : filledA[i] <= Len(streamA[i])
    /\ \A r \in Rows : /\ sentA[r] <= filledA[ShimOf(r)]
                       /\ filledA[ShimOf(r)] - sentA[r] <= design.fifo_depth
    /\ \A c \in Cols : /\ filledB[c] <= Len(streamB[c])
                       /\ sentB[c] <= filledB[c] /\ filledB[c] - sentB[c] <= design.fifo_depth
                       /\ drained[c] <= Len(streamC[c])
    /\ \A r \in Rows, c \in Cols :
          /\ used[<<r, c>>] <= sentA[r] /\ sentA[r] - used[<<r, c>>] <= design.fifo_depth
          /\ used[<<r, c>>] <= sentB[c] /\ sentB[c] - used[<<r, c>>] <= design.fifo_depth
          /\ sentC[<<r, c>>] <= Len(results[<<r, c>>])
          /\ Len(results[<<r, c>>]) + (IF holds[<<r, c>>] THEN 1 ELSE 0) - sentC[<<r, c>>]
                <= design.c_fifo_depth
          /\ drained[c] <= sentC[<<r, c>>] /\ sentC[<<r, c>>] - drained[c] <= design.fifo_depth

\* The pair of tiles that the core of row r and column c uses as its p-th, and what it
\* makes of the pairs of its j-th output tile.
Pair(r, c, p) == <<ATile(r, streamA[ShimOf(r)][p]), streamB[c][p]>>
Fed(r, c, j) == [e \in 1 .. design.KSteps |-> Pair(r, c, (j - 1) * design.KSteps + e)]

\* A core has used the pairs of the output tiles it has released, and those of the one
\* that it holds, and has made of them what it had to.
SummedAt(r, c) ==
    LET x == <<r, c>>
        n == Len(results[x])
    IN  /\ used[x] = n * design.KSteps + (IF holds[x] THEN Len(acc[x]) ELSE 0)
        /\ Len(acc[x]) <= design.KSteps
        /\ holds[x] => /\ Len(acc[x]) < design.KSteps
                       /\ \A e \in 1 .. Len(acc[x]) : acc[x][e] = Fed(r, c, n + 1)[e]
        /\ \A j \in 1 .. n : results[x][j] = Fed(r, c, j)

Summed == \A r \in Rows, c \in Cols : SummedAt(r, c)

\* The output tile that row r has of a block.
BlockTile(block, r) == <<block[1] * design.n_aie_rows + r, block[2]>>

\* The blocks issued to each column.
Issued == Len(streamC[0])

\* Fills and drains of all shims and columns go equally far ...
Matched ==
    /\ \A i \in Shims : Len(streamA[i]) = Issued * design.KSteps
    /\ \A c \in Cols : Len(streamB[c]) = Issued * design.KSteps /\ Len(streamC[c]) = Issued

\* ... and what is filled for a block that is not drained yet is what its product in this
\* dispatch is made of.
Aligned ==
    \A c \in Cols, r \in Rows : \A j \in drained[c] + 1 .. Len(streamC[c]) :
        /\ BlockTile(streamC[c][j], r) \in Tiles
        /\ Fed(r, c, j) = Product(dispatch, BlockTile(streamC[c][j], r))

\* What a tile holds after dispatch d.
Held(d, tile) == IF d <= 0 THEN <<>> ELSE Product(d, tile)

Memory ==
    \A tile \in Tiles :
        \/ mem[Place(tile)] = Held(dispatch, tile)
        \/ Running /\ mem[Place(tile)] = Held(dispatch - 1, tile)

\* Between dispatches nothing is left to be drained.
Quiet == ~Running => \A c \in Cols : drained[c] = Len(streamC[c])

Counts == dispatch \in Nat /\ completed \in 0 .. dispatch /\ dispatch <= completed + 1

ArrayInv == /\ Shape /\ Counts /\ Types /\ Fifos /\ Summed
            /\ Matched /\ Aligned /\ Memory /\ Quiet

\* A tile is to be stored by a drain that has been issued.
Pending(tile) ==
    \E c \in Cols, r \in Rows : \E j \in drained[c] + 1 .. Len(streamC[c]) :
        BlockTile(streamC[c][j], r) = tile

\* This dispatch has stored the first n row blocks, or has issued the drains that do.
Covers(n) ==
    \A tile \in Tiles :
        tile[1] < n * design.n_aie_rows =>
            mem[Place(tile)] = Product(dispatch, tile) \/ Pending(tile)

-----------------------------------------------------------------------------
(* The shape of a design *)

\* The numbers of a design.
LEMMA DesignTypes ==
    ASSUME Shape
    PROVE  /\ design.n_aie_rows \in Positive /\ design.n_aie_cols \in Positive
           /\ design.RowBlocks \in Positive /\ design.KSteps \in Positive
           /\ design.Reps \in Positive /\ design.tb_max_n_rows \in Positive
           /\ design.fifo_depth \in Positive /\ design.c_fifo_depth \in Positive
           /\ design.c_col_maj \in BOOLEAN
BY DEF Shape, Design

\* The rows of cores are split evenly over the shims of A.
LEMMA ShimsSplitRows ==
    ASSUME Shape
    PROVE  /\ n_shim_mem_A \in Positive /\ n_A_tiles_per_shim \in Positive
           /\ n_shim_mem_A * n_A_tiles_per_shim = design.n_aie_rows
           /\ \A r \in Rows : ShimOf(r) \in Shims
<1> DEFINE R == design.n_aie_rows
           C == design.n_aie_cols
           t == n_A_tiles_per_shim
           s == n_shim_mem_A
<1>1. R \in Positive /\ C \in Positive
  BY DesignTypes
<1>2. s \in Positive /\ t \in Positive /\ s * t = R
  <2>1. CASE C >= R
    <3>1. s = R /\ t = 1
      BY <1>1, <2>1 DEF n_shim_mem_A, n_A_tiles_per_shim, Positive
    <3>. QED BY <1>1, <3>1 DEF Positive
  <2>2. CASE C < R
    <3>1. s = C /\ t = R \div C /\ R % C = 0
      BY <1>1, <2>2 DEF n_shim_mem_A, n_A_tiles_per_shim, Positive, Shape
    <3>2. t \in Int /\ R = C * t
      <4>. HIDE DEF R, C, t, s
      <4>. QED BY <1>1, <3>1, DivMod DEF Positive
    <3>. HIDE DEF R, C, t, s
    <3>3. t <= 0 => C * t <= 0
      BY <1>1, <3>2 DEF Positive
    <3>. QED BY <1>1, <3>1, <3>2, <3>3 DEF Positive
  <2>. QED BY <1>1, <2>1, <2>2 DEF Positive
<1>3. ASSUME NEW r \in Rows PROVE ShimOf(r) \in Shims
  <2> DEFINE q == r \div t
  <2>1. r \in Int /\ r >= 0 /\ r < R
    BY <1>1 DEF Rows, Positive
  <2>2. q \in Int /\ r % t \in 0 .. t - 1 /\ r = t * q + (r % t)
    <3>. HIDE DEF t
    <3>. QED BY <1>2, <2>1, DivMod DEF Positive
  <2>. HIDE DEF R, C, t, s, q
  <2>3. q <= -1 => t * q <= -t
    BY <1>2, <2>2 DEF Positive
  <2>4. q >= s => t * q >= s * t
    BY <1>2, <2>2 DEF Positive
  <2>5. r % t \in Int /\ t * q \in Int /\ s * t \in Int
    BY <1>1, <1>2, <2>2 DEF Positive
  <2>6. q \in 0 .. s - 1
    BY <1>1, <1>2, <2>1, <2>2, <2>3, <2>4, <2>5 DEF Positive
  <2>. QED BY <2>6 DEF s, q, t, ShimOf, Shims
<1>. QED BY <1>2, <1>3

\* A core is a row and a column.
LEMMA CoreParts ==
    /\ \A r \in Rows, c \in Cols : <<r, c>> \in Cores
    /\ \A x \in Cores : x[1] \in Rows /\ x[2] \in Cols /\ x = <<x[1], x[2]>>
BY DEF Cores

\* Two tiles are not in the same place.
LEMMA PlaceOfOne ==
    ASSUME NEW u \in Tiles, NEW v \in Tiles, Place(u) = Place(v)
    PROVE  u = v
BY DEF Place, Tiles

-----------------------------------------------------------------------------
(* What does not change *)

\* All that depends on the design only is the same for ever.
LEMMA DesignKept ==
    ASSUME UNCHANGED design
    PROVE  /\ Rows' = Rows /\ Cols' = Cols /\ Shims' = Shims /\ Cores' = Cores /\ Tiles' = Tiles
           /\ \A r : ShimOf(r)' = ShimOf(r)
           /\ \A t : Place(t)' = Place(t)
           /\ \A r, x : ATile(r, x)' = ATile(r, x)
           /\ \A d, t : Product(d, t)' = Product(d, t) /\ Held(d, t)' = Held(d, t)
           /\ \A b, r : BlockTile(b, r)' = BlockTile(b, r)
           /\ Shape' = Shape
<1>. SUFFICES ASSUME design' = design PROVE
           /\ Rows' = Rows /\ Cols' = Cols /\ Shims' = Shims /\ Cores' = Cores /\ Tiles' = Tiles
           /\ \A r : ShimOf(r)' = ShimOf(r)
           /\ \A t : Place(t)' = Place(t)
           /\ \A r, x : ATile(r, x)' = ATile(r, x)
           /\ \A d, t : Product(d, t)' = Product(d, t) /\ Held(d, t)' = Held(d, t)
           /\ \A b, r : BlockTile(b, r)' = BlockTile(b, r)
           /\ Shape' = Shape
  OBVIOUS
<1>1. /\ Rows' = Rows /\ Cols' = Cols /\ Shims' = Shims /\ Cores' = Cores /\ Tiles' = Tiles
  BY DEF Rows, Cols, Shims, Cores, Tiles, n_shim_mem_A
<1>2. \A r : ShimOf(r)' = ShimOf(r)
  BY DEF ShimOf, n_A_tiles_per_shim
<1>3. \A t : Place(t)' = Place(t)
  BY DEF Place
<1>4. \A r, x : ATile(r, x)' = ATile(r, x)
  BY DEF ATile, ShimOf, n_A_tiles_per_shim
<1>5. \A d, t : Product(d, t)' = Product(d, t) /\ Held(d, t)' = Held(d, t)
  BY DEF Product, Held
<1>6. \A b, r : BlockTile(b, r)' = BlockTile(b, r)
  BY DEF BlockTile
<1>7. Shape' = Shape
  BY DEF Shape
<1>. QED BY <1>1, <1>2, <1>3, <1>4, <1>5, <1>6, <1>7

\* What core r, c makes of block j depends on the streams only.
LEMMA FedKept ==
    ASSUME UNCHANGED <<design, streamA, streamB>>
    PROVE  \A r, c, j : Fed(r, c, j)' = Fed(r, c, j)
BY DesignKept DEF Fed, Pair

\* A core that does nothing has done what it had to ...
LEMMA SummedAtKept ==
    ASSUME NEW r, NEW c, SummedAt(r, c), UNCHANGED <<design, streamA, streamB>>,
           used'[<<r, c>>] = used[<<r, c>>], holds'[<<r, c>>] = holds[<<r, c>>],
           acc'[<<r, c>>] = acc[<<r, c>>], results'[<<r, c>>] = results[<<r, c>>]
    PROVE  SummedAt(r, c)'
<1>1. \A j : Fed(r, c, j)' = Fed(r, c, j)
  BY FedKept
<1>2. design' = design
  OBVIOUS
<1>. QED BY <1>1, <1>2 DEF SummedAt

\* ... and so have all of them.
LEMMA SummedKept ==
    ASSUME UNCHANGED <<design, streamA, streamB, coreVars>>, Summed
    PROVE  Summed'
BY DesignKept, SummedAtKept DEF Summed, coreVars

\* As long as nothing is issued or drained, what is issued is aligned ...
LEMMA AlignedKept ==
    ASSUME UNCHANGED <<design, dispatch, streams, drained>>, Aligned
    PROVE  Aligned'
<1>1. /\ Rows' = Rows /\ Cols' = Cols /\ Tiles' = Tiles /\ \A r, c, j : Fed(r, c, j)' = Fed(r, c, j)
      /\ \A b, r : BlockTile(b, r)' = BlockTile(b, r)
      /\ \A d, t : Product(d, t)' = Product(d, t)
  BY DesignKept, FedKept DEF streams
<1>2. dispatch' = dispatch /\ streamC' = streamC /\ drained' = drained
  BY DEF streams
<1>. QED BY <1>1, <1>2 DEF Aligned

\* ... goes equally far ...
LEMMA MatchedKept ==
    ASSUME UNCHANGED <<design, streams>>, Matched
    PROVE  Matched'
<1>1. Shims' = Shims /\ Cols' = Cols
  BY DesignKept
<1>. QED BY <1>1 DEF Matched, Issued, streams

\* ... and covers what it did, if memory is the same.
LEMMA CoversKept ==
    ASSUME UNCHANGED <<design, dispatch, streams, drained, mem>>, NEW n, Covers(n)
    PROVE  Covers(n)'
<1>1. /\ Rows' = Rows /\ Cols' = Cols /\ Tiles' = Tiles
      /\ \A b, r : BlockTile(b, r)' = BlockTile(b, r)
      /\ \A t : Place(t)' = Place(t)
      /\ \A d, t : Product(d, t)' = Product(d, t)
  BY DesignKept
<1>2. dispatch' = dispatch /\ streamC' = streamC /\ drained' = drained /\ mem' = mem /\ design' = design
  BY DEF streams
<1>. QED BY <1>1, <1>2 DEF Covers, Pending

\* Memory holds what it did.
LEMMA MemoryKept ==
    ASSUME UNCHANGED <<design, dispatch, completed, mem>>, Memory
    PROVE  Memory'
<1>1. Tiles' = Tiles /\ (\A t : Place(t)' = Place(t)) /\ \A d, t : Held(d, t)' = Held(d, t)
  BY DesignKept
<1>. QED BY <1>1 DEF Memory, Running

-----------------------------------------------------------------------------
(* The steps of the array *)

\* The cores work, or a tile moves in a FIFO: streams and memory stay what they are.
LEMMA WorkKeeps ==
    ASSUME ArrayInv, Types', Fifos', Summed',
           UNCHANGED <<design, sequenceVars, streams, drained, mem>>
    PROVE  ArrayInv' /\ \A n : Covers(n) => Covers(n)'
<1>1. Shape' /\ Matched' /\ Aligned' /\ Memory'
  <2>1. UNCHANGED <<design, dispatch, completed>>
    BY DEF sequenceVars
  <2>. QED BY <2>1, DesignKept, MatchedKept, AlignedKept, MemoryKept DEF ArrayInv
<1>2. Counts' /\ Quiet'
  <2>1. Cols' = Cols
    BY DesignKept
  <2>. QED BY <2>1 DEF ArrayInv, Counts, Quiet, Running, sequenceVars, streams
<1>3. \A n : Covers(n) => Covers(n)'
  BY CoversKept DEF sequenceVars
<1>. QED BY <1>1, <1>2, <1>3 DEF ArrayInv

\* A move that keeps to the FIFOs keeps the invariant.
LEMMA MoveKeeps ==
    ASSUME ArrayInv, Types', Fifos',
           UNCHANGED <<design, sequenceVars, streams, drained, coreVars, mem>>
    PROVE  ArrayInv' /\ \A n : Covers(n) => Covers(n)'
<1>1. Summed'
  BY SummedKept DEF ArrayInv, streams
<1>. QED BY <1>1, WorkKeeps

\* Counters that stay numbers and lists that stay lists.
LEMMA TypesKept ==
    ASSUME Types, UNCHANGED <<design, streams>>,
           filledA' \in [Shims -> Nat], filledB' \in [Cols -> Nat],
           sentA' \in [Rows -> Nat], sentB' \in [Cols -> Nat],
           used' \in [Cores -> Nat], holds' \in [Cores -> BOOLEAN],
           DOMAIN acc' = Cores, \A x \in Cores : IsList(acc'[x]),
           DOMAIN results' = Cores, \A x \in Cores : IsList(results'[x]),
           sentC' \in [Cores -> Nat], drained' \in [Cols -> Nat], DOMAIN mem' = DOMAIN mem
    PROVE  Types'
<1>1. Rows' = Rows /\ Cols' = Cols /\ Shims' = Shims /\ Cores' = Cores /\ Tiles' = Tiles
      /\ \A t : Place(t)' = Place(t)
  BY DesignKept
<1>2. {Place(t) : t \in Tiles}' = {Place(t) : t \in Tiles}
  BY <1>1
<1>3. /\ DOMAIN streamA' = Shims' /\ \A i \in Shims' : IsList(streamA'[i])
      /\ DOMAIN streamB' = Cols' /\ DOMAIN streamC' = Cols'
      /\ \A c \in Cols' : IsList(streamB'[c]) /\ IsList(streamC'[c])
  BY <1>1 DEF Types, streams
<1>4. DOMAIN mem' = {Place(t) : t \in Tiles}'
  BY <1>2 DEF Types
<1>. QED BY <1>1, <1>3, <1>4 DEF Types

\* In a FIFO along a row.
LEMMA FillAInv ==
    ASSUME ArrayInv, NEW i \in Shims, FillA(i)
    PROVE  ArrayInv' /\ \A n : Covers(n) => Covers(n)'
<1>1. Rows' = Rows /\ Cols' = Cols /\ Shims' = Shims /\ \A r : ShimOf(r)' = ShimOf(r)
  BY DesignKept DEF FillA
<1>2. filledA' = [filledA EXCEPT ![i] = @ + 1] /\ filledA \in [Shims -> Nat]
  BY DEF FillA, ArrayInv, Types
<1>4. \A r \in Rows : ShimOf(r) \in Shims
  BY ShimsSplitRows DEF ArrayInv
<1>5. /\ UNCHANGED <<design, streamA, streamB, streamC, filledB, sentA, sentB, sentC, drained, used,
                     holds, acc, results, mem>>
      /\ filledA[i] < Len(streamA[i])
      /\ \A r \in Rows : ShimOf(r) = i => filledA[i] - sentA[r] < design.fifo_depth
  BY DEF FillA, streams, coreVars
<1>3. Types'
  <2>1. filledA' \in [Shims -> Nat]
    BY <1>2
  <2>2. UNCHANGED <<design, streams>>
    BY <1>5 DEF streams
  <2>3. Types
    BY DEF ArrayInv
  <2>. QED BY <1>5, <2>1, <2>2, <2>3, TypesKept DEF Types
<1>6. /\ \A k \in Shims : filledA'[k] = IF k = i THEN filledA[i] + 1 ELSE filledA[k]
      /\ \A k \in Shims : filledA[k] \in Nat /\ Len(streamA[k]) \in Nat
      /\ \A r \in Rows : sentA[r] \in Nat
      /\ design.fifo_depth \in Nat
  BY <1>2, DesignTypes DEF ArrayInv, Types, IsList, Positive
<1>7. Fifos'
  <2>1. \A k \in Shims' : filledA'[k] <= Len(streamA'[k])
    BY <1>1, <1>5, <1>6 DEF ArrayInv, Fifos
  <2>2. \A r \in Rows' : /\ sentA'[r] <= filledA'[ShimOf(r)']
                         /\ filledA'[ShimOf(r)'] - sentA'[r] <= design'.fifo_depth
    BY <1>1, <1>4, <1>5, <1>6 DEF ArrayInv, Fifos
  <2>. QED BY <1>1, <1>5, <2>1, <2>2 DEF ArrayInv, Fifos
<1>. QED BY <1>3, <1>7, MoveKeeps DEF FillA

\* A tile of B enters its FIFO.
LEMMA FillBInv ==
    ASSUME ArrayInv, NEW i \in Cols, FillB(i)
    PROVE  ArrayInv' /\ \A n : Covers(n) => Covers(n)'
<1>1. Rows' = Rows /\ Cols' = Cols /\ Shims' = Shims /\ \A r : ShimOf(r)' = ShimOf(r)
  BY DesignKept DEF FillB
<1>2. filledB' = [filledB EXCEPT ![i] = @ + 1] /\ filledB \in [Cols -> Nat]
  BY DEF FillB, ArrayInv, Types
<1>4. /\ filledB[i] < Len(streamB[i]) /\ filledB[i] - sentB[i] < design.fifo_depth
      /\ UNCHANGED <<design, streamA, streamB, streamC, filledA, sentA, sentB, sentC, drained,
                     used, holds, acc, results, mem>>
  BY DEF FillB, streams, coreVars
<1>3. Types'
  <2>1. filledB' \in [Cols -> Nat]
    BY <1>2
  <2>2. UNCHANGED <<design, streams>>
    BY <1>4 DEF streams
  <2>3. Types
    BY DEF ArrayInv
  <2>. QED BY <1>4, <2>1, <2>2, <2>3, TypesKept DEF Types
<1>5. /\ \A k \in Cols : filledB'[k] = IF k = i THEN filledB[i] + 1 ELSE filledB[k]
      /\ \A k \in Cols : filledB[k] \in Nat /\ sentB[k] \in Nat /\ Len(streamB[k]) \in Nat
      /\ design.fifo_depth \in Nat
  BY <1>2, DesignTypes DEF ArrayInv, Types, IsList, Positive
<1>6. Fifos'
  <2>1. \A c \in Cols : /\ filledB'[c] <= Len(streamB[c])
                        /\ sentB[c] <= filledB'[c] /\ filledB'[c] - sentB[c] <= design.fifo_depth
    BY <1>4, <1>5 DEF ArrayInv, Fifos
  <2>. QED BY <1>1, <1>4, <2>1 DEF ArrayInv, Fifos
<1>. QED BY <1>3, <1>6, MoveKeeps DEF FillB

\* A broadcast along a row: no core of it is left behind.
LEMMA SendAInv ==
    ASSUME ArrayInv, NEW i \in Rows, SendA(i)
    PROVE  ArrayInv' /\ \A n : Covers(n) => Covers(n)'
<1>1. Rows' = Rows /\ Cols' = Cols /\ Shims' = Shims /\ \A r : ShimOf(r)' = ShimOf(r)
  BY DesignKept DEF SendA
<1>2. sentA' = [sentA EXCEPT ![i] = @ + 1] /\ sentA \in [Rows -> Nat]
  BY DEF SendA, ArrayInv, Types
<1>4. /\ sentA[i] < filledA[ShimOf(i)]
      /\ \A c \in Cols : sentA[i] - used[<<i, c>>] < design.fifo_depth
      /\ UNCHANGED <<design, streamA, streamB, streamC, filledA, filledB, sentB, sentC, drained,
                     used, holds, acc, results, mem>>
  BY DEF SendA, Listeners, streams, coreVars
<1>3. Types'
  <2>1. sentA' \in [Rows -> Nat]
    BY <1>2
  <2>2. UNCHANGED <<design, streams>>
    BY <1>4 DEF streams
  <2>3. Types
    BY DEF ArrayInv
  <2>. QED BY <1>4, <2>1, <2>2, <2>3, TypesKept DEF Types
<1>5. /\ \A r \in Rows : sentA'[r] = IF r = i THEN sentA[i] + 1 ELSE sentA[r]
      /\ \A r \in Rows : sentA[r] \in Nat /\ filledA[ShimOf(r)] \in Nat
      /\ \A r \in Rows, c \in Cols : used[<<r, c>>] \in Nat
      /\ design.fifo_depth \in Nat
  BY <1>2, DesignTypes, ShimsSplitRows, CoreParts DEF ArrayInv, Types, Positive
<1>6. Fifos'
  <2>1. \A r \in Rows : /\ sentA'[r] <= filledA[ShimOf(r)]
                        /\ filledA[ShimOf(r)] - sentA'[r] <= design.fifo_depth
    BY <1>4, <1>5 DEF ArrayInv, Fifos
  <2>2. ASSUME NEW r \in Rows, NEW c \in Cols
        PROVE  used[<<r, c>>] <= sentA'[r] /\ sentA'[r] - used[<<r, c>>] <= design.fifo_depth
    <3> DEFINE u == used[<<r, c>>]
    <3>1. u \in Nat /\ u <= sentA[r] /\ sentA[r] - u <= design.fifo_depth
      BY <1>5 DEF ArrayInv, Fifos
    <3>2. r = i => sentA[r] - u < design.fifo_depth
      BY <1>4
    <3>. HIDE DEF u
    <3>3. u <= sentA'[r] /\ sentA'[r] - u <= design.fifo_depth
      BY <1>5, <3>1, <3>2
    <3>. QED BY <3>3 DEF u
  <2>. QED BY <1>1, <1>4, <2>1, <2>2 DEF ArrayInv, Fifos
<1>. QED BY <1>3, <1>6, MoveKeeps DEF SendA

\* A broadcast down a column.
LEMMA SendBInv ==
    ASSUME ArrayInv, NEW i \in Cols, SendB(i)
    PROVE  ArrayInv' /\ \A n : Covers(n) => Covers(n)'
<1>1. Rows' = Rows /\ Cols' = Cols /\ Shims' = Shims /\ \A r : ShimOf(r)' = ShimOf(r)
  BY DesignKept DEF SendB
<1>2. sentB' = [sentB EXCEPT ![i] = @ + 1] /\ sentB \in [Cols -> Nat]
  BY DEF SendB, ArrayInv, Types
<1>4. /\ sentB[i] < filledB[i]
      /\ \A r \in Rows : sentB[i] - used[<<r, i>>] < design.fifo_depth
      /\ UNCHANGED <<design, streamA, streamB, streamC, filledA, filledB, sentA, sentC, drained,
                     used, holds, acc, results, mem>>
  BY DEF SendB, streams, coreVars
<1>3. Types'
  <2>1. sentB' \in [Cols -> Nat]
    BY <1>2
  <2>2. UNCHANGED <<design, streams>>
    BY <1>4 DEF streams
  <2>3. Types
    BY DEF ArrayInv
  <2>. QED BY <1>4, <2>1, <2>2, <2>3, TypesKept DEF Types
<1>5. /\ \A c \in Cols : sentB'[c] = IF c = i THEN sentB[i] + 1 ELSE sentB[c]
      /\ \A c \in Cols : sentB[c] \in Nat /\ filledB[c] \in Nat
      /\ \A r \in Rows, c \in Cols : used[<<r, c>>] \in Nat
      /\ design.fifo_depth \in Nat
  BY <1>2, DesignTypes, CoreParts DEF ArrayInv, Types, Positive
<1>6. Fifos'
  <2>1. \A c \in Cols : sentB'[c] <= filledB[c] /\ filledB[c] - sentB'[c] <= design.fifo_depth
    BY <1>4, <1>5 DEF ArrayInv, Fifos
  <2>2. ASSUME NEW r \in Rows, NEW c \in Cols
        PROVE  used[<<r, c>>] <= sentB'[c] /\ sentB'[c] - used[<<r, c>>] <= design.fifo_depth
    <3> DEFINE u == used[<<r, c>>]
    <3>1. u \in Nat /\ u <= sentB[c] /\ sentB[c] - u <= design.fifo_depth
      BY <1>5 DEF ArrayInv, Fifos
    <3>2. c = i => sentB[c] - u < design.fifo_depth
      BY <1>4
    <3>. HIDE DEF u
    <3>3. u <= sentB'[c] /\ sentB'[c] - u <= design.fifo_depth
      BY <1>5, <3>1, <3>2
    <3>. QED BY <3>3 DEF u
  <2>. QED BY <1>1, <1>4, <2>1, <2>2 DEF ArrayInv, Fifos
<1>. QED BY <1>3, <1>6, MoveKeeps DEF SendB

\* A core hands over an output tile; the tile and its place in results stay.
LEMMA SendCInv ==
    ASSUME ArrayInv, NEW x \in Cores, SendC(x)
    PROVE  ArrayInv' /\ \A n : Covers(n) => Covers(n)'
<1>1. Rows' = Rows /\ Cols' = Cols /\ Shims' = Shims /\ \A r : ShimOf(r)' = ShimOf(r)
  BY DesignKept DEF SendC
<1>2. sentC' = [sentC EXCEPT ![x] = @ + 1] /\ sentC \in [Cores -> Nat]
  BY DEF SendC, ArrayInv, Types
<1>4. /\ sentC[x] < Len(results[x]) /\ sentC[x] - drained[x[2]] < design.fifo_depth
      /\ UNCHANGED <<design, streamA, streamB, streamC, filledA, filledB, sentA, sentB, drained,
                     used, holds, acc, results, mem>>
  BY DEF SendC, streams, coreVars
<1>3. Types'
  <2>1. sentC' \in [Cores -> Nat]
    BY <1>2
  <2>2. UNCHANGED <<design, streams>>
    BY <1>4 DEF streams
  <2>3. Types
    BY DEF ArrayInv
  <2>. QED BY <1>4, <2>1, <2>2, <2>3, TypesKept DEF Types
<1>5. /\ \A y \in Cores : sentC'[y] = IF y = x THEN sentC[x] + 1 ELSE sentC[y]
      /\ \A y \in Cores : sentC[y] \in Nat /\ Len(results[y]) \in Nat
      /\ \A c \in Cols : drained[c] \in Nat
      /\ design.fifo_depth \in Nat /\ design.c_fifo_depth \in Nat
  BY <1>2, DesignTypes DEF ArrayInv, Types, IsList, Positive
<1>6. Fifos'
  <2>1. ASSUME NEW r \in Rows, NEW c \in Cols
        PROVE  LET y == <<r, c>>
               IN  /\ sentC'[y] <= Len(results[y])
                   /\ Len(results[y]) + (IF holds[y] THEN 1 ELSE 0) - sentC'[y] <= design.c_fifo_depth
                   /\ drained[c] <= sentC'[y] /\ sentC'[y] - drained[c] <= design.fifo_depth
    <3> DEFINE y == <<r, c>>
               held == IF holds[y] THEN 1 ELSE 0
    <3>1. y \in Cores /\ y[2] = c /\ held \in Nat
      BY CoreParts
    <3>2. /\ sentC[y] <= Len(results[y]) /\ drained[c] <= sentC[y]
          /\ sentC[y] - drained[c] <= design.fifo_depth
          /\ Len(results[y]) + held - sentC[y] <= design.c_fifo_depth
      BY DEF ArrayInv, Fifos
    <3>3. y = x => sentC[y] < Len(results[y]) /\ sentC[y] - drained[c] < design.fifo_depth
      BY <1>4, <3>1
    <3>5. /\ sentC'[y] = (IF y = x THEN sentC[y] + 1 ELSE sentC[y])
          /\ sentC[y] \in Nat /\ Len(results[y]) \in Nat /\ drained[c] \in Nat
      BY <1>5, <3>1
    <3>. HIDE DEF y, held
    <3>4. /\ sentC'[y] <= Len(results[y])
          /\ Len(results[y]) + held - sentC'[y] <= design.c_fifo_depth
          /\ drained[c] <= sentC'[y] /\ sentC'[y] - drained[c] <= design.fifo_depth
      <4> DEFINE k == sentC[y]
                 k1 == sentC'[y]
                 l == Len(results[y])
                 D == design.c_fifo_depth
                 F == design.fifo_depth
                 dr == drained[c]
      <4>1. /\ k \in Nat /\ l \in Nat /\ dr \in Nat /\ D \in Nat /\ F \in Nat /\ held \in Nat
            /\ k1 = k \/ (k1 = k + 1 /\ k < l /\ k - dr < F)
            /\ k <= l /\ dr <= k /\ k - dr <= F /\ l + held - k <= D
        BY <1>5, <3>1, <3>2, <3>3, <3>5
      <4>. HIDE DEF k, k1, l, D, F, dr
      <4>2. k1 <= l /\ l + held - k1 <= D /\ dr <= k1 /\ k1 - dr <= F
        BY <4>1
      <4>. QED BY <4>2 DEF k, k1, l, D, F, dr
    <3>. QED BY <3>4 DEF y, held
  <2>. QED BY <1>1, <1>4, <2>1 DEF ArrayInv, Fifos
<1>. QED BY <1>3, <1>6, MoveKeeps DEF SendC

\* What the steps of a core do to its own state is all they do.
LEMMA CoreKeeps ==
    ASSUME ArrayInv, NEW r \in Rows, NEW c \in Cols, NEW x, x = <<r, c>>,
           UNCHANGED <<design, sequenceVars, streams, moved, mem>>,
           used' \in [Cores -> Nat], holds' \in [Cores -> BOOLEAN],
           DOMAIN acc' = Cores, DOMAIN results' = Cores,
           \A y \in Cores \ {x} : /\ used'[y] = used[y] /\ holds'[y] = holds[y]
                                  /\ acc'[y] = acc[y] /\ results'[y] = results[y],
           IsList(acc'[x]), IsList(results'[x]),
           used'[x] <= sentA[r], used'[x] <= sentB[c], used[x] <= used'[x],
           sentC[x] <= Len(results'[x]),
           Len(results'[x]) + (IF holds'[x] THEN 1 ELSE 0) - sentC[x] <= design.c_fifo_depth,
           SummedAt(r, c)'
    PROVE  ArrayInv' /\ \A n : Covers(n) => Covers(n)'
<1>1. Rows' = Rows /\ Cols' = Cols /\ Shims' = Shims /\ Cores' = Cores
      /\ \A i : ShimOf(i)' = ShimOf(i)
  BY DesignKept
<1>2. /\ UNCHANGED <<design, streamA, streamB, streamC, filledA, filledB, sentA, sentB, sentC,
                     drained, mem>>
      /\ UNCHANGED <<design, streams>>
  BY DEF streams, moved
<1>3. Types'
  <2>1. Types /\ x \in Cores
    BY CoreParts DEF ArrayInv
  <2>2. \A y \in Cores : IsList(acc'[y]) /\ IsList(results'[y])
    BY <2>1 DEF Types
  <2>. QED BY <1>2, <2>1, <2>2, TypesKept DEF Types
<1>4. Summed'
  <2>1. ASSUME NEW i \in Rows, NEW j \in Cols PROVE SummedAt(i, j)'
    <3>1. CASE <<i, j>> = x
      BY <3>1
    <3>2. CASE <<i, j>> # x
      <4>1. <<i, j>> \in Cores \ {x} /\ SummedAt(i, j)
        BY <3>2, CoreParts DEF ArrayInv, Summed
      <4>. QED BY <1>2, <4>1, SummedAtKept
    <3>. QED BY <3>1, <3>2
  <2>. QED BY <1>1, <2>1 DEF Summed
<1>5. Fifos'
  <2>1. ASSUME NEW i \in Rows, NEW j \in Cols
        PROVE  LET y == <<i, j>>
               IN  /\ used'[y] <= sentA[i] /\ sentA[i] - used'[y] <= design.fifo_depth
                   /\ used'[y] <= sentB[j] /\ sentB[j] - used'[y] <= design.fifo_depth
                   /\ sentC[y] <= Len(results'[y])
                   /\ Len(results'[y]) + (IF holds'[y] THEN 1 ELSE 0) - sentC[y]
                        <= design.c_fifo_depth
                   /\ drained[j] <= sentC[y] /\ sentC[y] - drained[j] <= design.fifo_depth
    <3>1. <<i, j>> \in Cores
      BY CoreParts
    <3>2. CASE <<i, j>> = x
      <4>1. i = r /\ j = c
        BY <3>2
      <4>2. /\ used[x] <= sentA[r] /\ sentA[r] - used[x] <= design.fifo_depth
            /\ used[x] <= sentB[c] /\ sentB[c] - used[x] <= design.fifo_depth
            /\ drained[c] <= sentC[x] /\ sentC[x] - drained[c] <= design.fifo_depth
        BY DEF ArrayInv, Fifos
      <4>3. /\ used[x] \in Nat /\ used'[x] \in Nat /\ sentA[r] \in Nat /\ sentB[c] \in Nat
            /\ design.fifo_depth \in Nat
        BY <3>1, <3>2, DesignTypes DEF ArrayInv, Types, Positive
      <4>4. sentA[r] - used'[x] <= design.fifo_depth /\ sentB[c] - used'[x] <= design.fifo_depth
        BY <4>2, <4>3
      <4>. QED BY <4>1, <4>2, <4>4
    <3>3. CASE <<i, j>> # x
      BY <3>1, <3>3 DEF ArrayInv, Fifos
    <3>. QED BY <3>2, <3>3
  <2>. QED BY <1>1, <1>2, <2>1 DEF ArrayInv, Fifos
<1>. QED BY <1>2, <1>3, <1>4, <1>5, WorkKeeps DEF moved

\* A core takes an output buffer, if it has one left, and zeroes it.
LEMMA AcquireInv ==
    ASSUME ArrayInv, NEW x \in Cores, Acquire(x)
    PROVE  ArrayInv' /\ \A n : Covers(n) => Covers(n)'
<1> DEFINE r == x[1]
           c == x[2]
<1>1. r \in Rows /\ c \in Cols /\ x = <<r, c>>
  BY CoreParts
<1>2. /\ UNCHANGED <<design, sequenceVars, streams, moved, mem>> /\ UNCHANGED <<used, results>>
      /\ ~holds[x] /\ Len(results[x]) - sentC[x] < design.c_fifo_depth
      /\ holds' = [holds EXCEPT ![x] = TRUE] /\ acc' = [acc EXCEPT ![x] = <<>>]
  BY DEF Acquire, zero
<1>3. /\ used \in [Cores -> Nat] /\ holds \in [Cores -> BOOLEAN] /\ DOMAIN acc = Cores
      /\ DOMAIN results = Cores /\ IsList(results[x]) /\ sentC[x] \in Nat
      /\ design.c_fifo_depth \in Nat /\ design.KSteps \in Nat /\ design.KSteps > 0
  BY DesignTypes DEF ArrayInv, Types, Positive
<1>4. /\ holds'[x] = TRUE /\ acc'[x] = <<>> /\ holds' \in [Cores -> BOOLEAN] /\ DOMAIN acc' = Cores
      /\ \A y \in Cores \ {x} : holds'[y] = holds[y] /\ acc'[y] = acc[y]
  BY <1>2, <1>3
<1>5. IsList(<<>>) /\ Len(<<>>) = 0
  BY DEF IsList
<1>6. used[x] <= sentA[r] /\ used[x] <= sentB[c] /\ sentC[x] <= Len(results[x])
  BY <1>1 DEF ArrayInv, Fifos
<1>. HIDE DEF r, c
<1>7. SummedAt(r, c)'
  <2>1. SummedAt(r, c)
    BY <1>1 DEF ArrayInv, Summed
  <2>2. \A j : Fed(r, c, j)' = Fed(r, c, j)
    BY <1>2, FedKept DEF streams
  <2>3. /\ used'[x] = Len(results'[x]) * design'.KSteps + Len(acc'[x])
        /\ Len(acc'[x]) < design'.KSteps /\ Len(acc'[x]) <= design'.KSteps /\ Len(acc'[x]) = 0
        /\ \A j \in 1 .. Len(results'[x]) : results'[x][j] = Fed(r, c, j)
    <3>1. used[x] = Len(results[x]) * design.KSteps + 0
      BY <1>1, <1>2, <2>1 DEF SummedAt
    <3>2. \A j \in 1 .. Len(results[x]) : results[x][j] = Fed(r, c, j)
      BY <1>1, <2>1 DEF SummedAt
    <3>. QED BY <1>2, <1>3, <1>4, <1>5, <3>1, <3>2
  <2>4. \A e \in 1 .. Len(acc'[x]) : FALSE
    BY <2>3
  <2>. QED BY <1>1, <1>3, <1>4, <2>2, <2>3, <2>4 DEF SummedAt
<1>8. Len(results'[x]) + (IF holds'[x] THEN 1 ELSE 0) - sentC[x] <= design.c_fifo_depth
  BY <1>2, <1>3, <1>4 DEF IsList
<1>9. used[x] <= used'[x]
  BY <1>2, <1>3
<1>. QED BY <1>1, <1>2, <1>3, <1>4, <1>5, <1>6, <1>7, <1>8, <1>9, CoreKeeps

\* The next pair a core uses is the next one of the output tile it holds, and the
\* tile is done with the last of its pairs.
LEMMA NextPair ==
    ASSUME NEW K \in Nat \ {0}, NEW n \in Nat, NEW k \in 0 .. K - 1, NEW u, u = n * K + k
    PROVE  /\ (n + 1 - 1) * K + (k + 1) = u + 1
           /\ (u + 1) % K = 0 <=> k + 1 = K
           /\ k + 1 = K => u + 1 = (n + 1) * K
           /\ u \in Nat
<1>1. /\ n * K \in Nat /\ K * n = n * K /\ n + 1 - 1 = n
      /\ (n + 1) * K = n * K + K /\ K * (n + 1) = n * K + K
  OBVIOUS
<1>2. CASE k + 1 = K
  <2>1. u + 1 = K * (n + 1) + 0
    BY <1>1, <1>2
  <2>2. (u + 1) % K = 0
    BY <2>1, DivModUnique
  <2>. QED BY <1>1, <1>2, <2>2
<1>3. CASE k + 1 # K
  <2> DEFINE a == u + 1
             l == k + 1
  <2>1. a = K * n + l /\ l \in 0 .. K - 1 /\ l # 0
    BY <1>1, <1>3
  <2>2. n \in Int
    OBVIOUS
  <2>. HIDE DEF a, l
  <2>3. a % K = l
    BY <2>1, <2>2, DivModUnique
  <2>4. (u + 1) % K # 0
    BY <2>1, <2>3 DEF a
  <2>. QED BY <1>1, <1>3, <2>4
<1>. QED BY <1>2, <1>3

\* A core uses a pair of tiles; with the last one it releases the output tile.
LEMMA MatMulInv ==
    ASSUME ArrayInv, NEW x \in Cores, MatMul(x)
    PROVE  ArrayInv' /\ \A n : Covers(n) => Covers(n)'
<1> DEFINE r == x[1]
           c == x[2]
           K == design.KSteps
           n == Len(results[x])
           L == Len(acc[x])
           pair == Fed(r, c, n + 1)[L + 1]
           sum == Append(acc[x], pair)
<1>1. r \in Rows /\ c \in Cols /\ x = <<r, c>>
  BY CoreParts
<1>2. /\ used \in [Cores -> Nat] /\ holds \in [Cores -> BOOLEAN]
      /\ DOMAIN acc = Cores /\ IsList(acc[x]) /\ DOMAIN results = Cores /\ IsList(results[x])
      /\ sentC[x] \in Nat /\ sentA[r] \in Nat /\ sentB[c] \in Nat
      /\ design.c_fifo_depth \in Nat /\ K \in Nat \ {0} /\ n \in Nat /\ L \in Nat
  BY <1>1, DesignTypes DEF ArrayInv, Types, Positive, IsList
<1>3. holds[x] /\ used[x] < sentA[r] /\ used[x] < sentB[c]
  BY DEF MatMul
<1>4. /\ SummedAt(r, c) /\ used[x] = n * K + L /\ L < K
      /\ \A e \in 1 .. L : acc[x][e] = Fed(r, c, n + 1)[e]
      /\ \A j \in 1 .. n : results[x][j] = Fed(r, c, j)
  <2>1. SummedAt(r, c)
    BY <1>1 DEF ArrayInv, Summed
  <2>. QED BY <1>1, <1>3, <2>1 DEF SummedAt
<1>5. /\ (n + 1 - 1) * K + (L + 1) = used[x] + 1
      /\ (used[x] + 1) % K = 0 <=> L + 1 = K
      /\ L + 1 = K => used[x] + 1 = (n + 1) * K
  <2> DEFINE u == used[x]
  <2>1. u = n * K + L
    BY <1>4
  <2>. HIDE DEF K, n, L, u
  <2>2. L \in 0 .. K - 1
    BY <1>2, <1>4
  <2>3. /\ (n + 1 - 1) * K + (L + 1) = u + 1
        /\ (u + 1) % K = 0 <=> L + 1 = K
        /\ L + 1 = K => u + 1 = (n + 1) * K
    BY <1>2, <2>1, <2>2, NextPair
  <2>. QED BY <2>3 DEF u
<1>6. pair = <<ATile(r, streamA[ShimOf(r)][used[x] + 1]), streamB[c][used[x] + 1]>>
  <2>1. L + 1 \in 1 .. design.KSteps
    BY <1>2, <1>4
  <2>2. pair = Pair(r, c, (n + 1 - 1) * design.KSteps + (L + 1))
    BY <2>1 DEF Fed
  <2>. QED BY <1>5, <2>2 DEF Pair
<1>7. /\ used' = [used EXCEPT ![x] = used[x] + 1]
      /\ acc' = [acc EXCEPT ![x] = sum]
      /\ L + 1 = K => /\ results' = [results EXCEPT ![x] = Append(results[x], sum)]
                      /\ holds' = [holds EXCEPT ![x] = FALSE]
      /\ L + 1 # K => results' = results /\ holds' = holds
      /\ UNCHANGED <<design, sequenceVars, streams, moved, mem>>
  BY <1>5, <1>6 DEF MatMul
<1>. HIDE DEF pair
<1>8. IsList(sum) /\ Len(sum) = L + 1 /\ \A e \in 1 .. L + 1 : sum[e] = Fed(r, c, n + 1)[e]
  <2>1. /\ IsList(sum) /\ Len(sum) = L + 1 /\ sum[L + 1] = pair
        /\ \A e \in 1 .. L : sum[e] = acc[x][e]
    BY <1>2, Appended
  <2>2. \A e \in 1 .. L + 1 : e \in 1 .. L \/ e = L + 1
    BY <1>2
  <2>. QED BY <1>4, <2>1, <2>2 DEF pair
<1>9. L + 1 = K => sum = Fed(r, c, n + 1)
  <2> DEFINE f == Fed(r, c, n + 1)
  <2>1. IsListOf(f, K)
    BY DEF Fed, IsListOf
  <2>. HIDE DEF f, K, n
  <2>2. ASSUME L + 1 = K PROVE Append(acc[x], pair) = f
    <3>1. pair = f[K]
      BY <2>2 DEF pair, f
    <3>2. \A e \in 1 .. Len(acc[x]) : acc[x][e] = f[e]
      BY <1>4 DEF f
    <3>3. IsList(acc[x]) /\ K = Len(acc[x]) + 1
      BY <1>2, <2>2
    <3> DEFINE q == acc[x]
    <3>. HIDE DEF L, q
    <3>4. \A e \in 1 .. Len(q) : q[e] = f[e]
      BY <3>2 DEF q
    <3>5. IsList(q) /\ IsListOf(f, Len(q) + 1) /\ pair = f[Len(q) + 1]
      BY <2>1, <3>1, <3>3 DEF q
    <3>6. Append(q, pair) = f
      BY <3>4, <3>5, AppendedIs
    <3>. QED BY <3>6 DEF q
  <2>. QED BY <2>2 DEF f
<1>. HIDE DEF sum
<1>10. /\ used'[x] = used[x] + 1 /\ used' \in [Cores -> Nat]
       /\ acc'[x] = sum /\ DOMAIN acc' = Cores
       /\ DOMAIN results' = Cores /\ holds' \in [Cores -> BOOLEAN]
       /\ holds'[x] = (L + 1 # K)
       /\ results'[x] = IF L + 1 = K THEN Append(results[x], sum) ELSE results[x]
       /\ \A y \in Cores \ {x} : /\ used'[y] = used[y] /\ holds'[y] = holds[y]
                                 /\ acc'[y] = acc[y] /\ results'[y] = results[y]
  <2>. HIDE DEF n, L, K, r, c
  <2>1. used'[x] = used[x] + 1 /\ used' \in [Cores -> Nat]
        /\ \A y \in Cores \ {x} : used'[y] = used[y]
    BY <1>2, <1>7
  <2>2. acc'[x] = sum /\ DOMAIN acc' = Cores /\ \A y \in Cores \ {x} : acc'[y] = acc[y]
    BY <1>2, <1>7
  <2>3. DOMAIN results' = Cores /\ \A y \in Cores \ {x} : results'[y] = results[y]
    BY <1>2, <1>7
  <2>4. results'[x] = IF L + 1 = K THEN Append(results[x], sum) ELSE results[x]
    BY <1>2, <1>7
  <2>5. /\ holds' \in [Cores -> BOOLEAN] /\ holds'[x] = (L + 1 # K)
        /\ \A y \in Cores \ {x} : holds'[y] = holds[y]
    <3>1. CASE L + 1 = K
      BY <1>2, <1>7, <3>1
    <3>2. CASE L + 1 # K
      BY <1>2, <1>3, <1>7, <3>2
    <3>. QED BY <3>1, <3>2
  <2>. QED BY <2>1, <2>2, <2>3, <2>4, <2>5
<1>11. /\ IsList(results'[x])
       /\ Len(results'[x]) = (IF L + 1 = K THEN n + 1 ELSE n)
       /\ \A j \in 1 .. Len(results'[x]) : results'[x][j] = Fed(r, c, j)
  <2>1. CASE L + 1 = K
    <3>1. /\ IsList(results'[x]) /\ Len(results'[x]) = n + 1 /\ results'[x][n + 1] = sum
          /\ \A j \in 1 .. n : results'[x][j] = results[x][j]
      BY <1>2, <1>10, <2>1, Appended
    <3>2. \A j \in 1 .. n + 1 : j \in 1 .. n \/ j = n + 1
      BY <1>2
    <3>. QED BY <1>4, <1>9, <2>1, <3>1, <3>2
  <2>2. CASE L + 1 # K
    BY <1>2, <1>4, <1>10, <2>2
  <2>. QED BY <2>1, <2>2
<1>12. SummedAt(r, c)'
  <2>1. (\A j : Fed(r, c, j)' = Fed(r, c, j)) /\ design' = design
    BY <1>7, FedKept DEF streams
  <2>2. used'[x] = Len(results'[x]) * K + (IF holds'[x] THEN Len(acc'[x]) ELSE 0)
    <3>1. n * K \in Nat /\ (n + 1) * K \in Nat
      BY <1>2
    <3>. HIDE DEF n, K, L, r, c
    <3>2. CASE L + 1 = K
      <4>1. used'[x] = (n + 1) * K /\ Len(results'[x]) = n + 1 /\ holds'[x] = FALSE
        BY <1>5, <1>10, <1>11, <3>2
      <4>. QED BY <3>1, <4>1
    <3>3. CASE L + 1 # K
      <4>1. used'[x] = used[x] + 1 /\ Len(results'[x]) = n /\ holds'[x] = TRUE /\ Len(acc'[x]) = L + 1
        BY <1>8, <1>10, <1>11, <3>3
      <4>. QED BY <1>2, <1>4, <3>1, <4>1
    <3>. QED BY <3>2, <3>3
  <2>3. /\ Len(acc'[x]) <= K
        /\ holds'[x] => /\ Len(acc'[x]) < K
                        /\ Len(results'[x]) = n
                        /\ \A e \in 1 .. Len(acc'[x]) : acc'[x][e] = Fed(r, c, n + 1)[e]
    BY <1>2, <1>4, <1>8, <1>10, <1>11
  <2>. HIDE DEF r, c, n, L
  <2>. QED BY <1>1, <1>11, <2>1, <2>2, <2>3 DEF SummedAt
<1>13. /\ used'[x] <= sentA[r] /\ used'[x] <= sentB[c] /\ used[x] <= used'[x]
       /\ sentC[x] <= Len(results'[x])
       /\ Len(results'[x]) + (IF holds'[x] THEN 1 ELSE 0) - sentC[x] <= design.c_fifo_depth
  <2>1. sentC[x] <= n /\ n + 1 - sentC[x] <= design.c_fifo_depth
    BY <1>1, <1>3 DEF ArrayInv, Fifos
  <2>2. used[x] \in Nat /\ Len(results'[x]) + (IF holds'[x] THEN 1 ELSE 0) = n + 1
    <3>1. x \in Cores
      OBVIOUS
    <3>. HIDE DEF n, L, K, r, c
    <3>2. used[x] \in Nat
      BY <1>2, <3>1
    <3>3. CASE L + 1 = K
      BY <1>2, <1>10, <1>11, <3>2, <3>3
    <3>4. CASE L + 1 # K
      BY <1>2, <1>10, <1>11, <3>2, <3>4
    <3>. QED BY <3>3, <3>4
  <2>3. Len(results'[x]) \in n .. n + 1
    <3>. HIDE DEF n, L, K, r, c
    <3>. QED BY <1>2, <1>11
  <2> DEFINE l == Len(results'[x])
             h == IF holds'[x] THEN 1 ELSE 0
             u == used[x]
             u1 == used'[x]
  <2>4. l \in n .. n + 1 /\ l + h = n + 1 /\ u \in Nat /\ u1 = u + 1
    BY <1>10, <2>2, <2>3
  <2>7. h \in 0 .. 1
    OBVIOUS
  <2>. HIDE DEF n, L, K, r, c, l, h, u1
  <2>5. u1 <= sentA[r] /\ u1 <= sentB[c] /\ u <= u1
    BY <1>2, <1>3, <2>4
  <2>6. sentC[x] <= l /\ l + h - sentC[x] <= design.c_fifo_depth
    BY <1>2, <2>1, <2>4, <2>7
  <2>. QED BY <2>5, <2>6 DEF l, h, u1
<1>. HIDE DEF r, c, K, n, L
<1>. QED BY <1>1, <1>2, <1>7, <1>8, <1>10, <1>11, <1>12, <1>13, CoreKeeps

\* Nothing but a product of this dispatch is stored.
OnlyStores ==
    \A t \in Tiles : mem'[Place(t)] = Product(dispatch, t) \/ mem'[Place(t)] = mem[Place(t)]

\* A drain stores, for every row, the product that its block is to hold.
LEMMA DrainInv ==
    ASSUME ArrayInv, NEW c \in Cols, Drain(c)
    PROVE  ArrayInv' /\ (\A n : Covers(n) => Covers(n)') /\ OnlyStores
<1> DEFINE j == drained[c] + 1
           block == streamC[c][j]
           tileOf(r) == BlockTile(block, r)
           stores(t) == \E r \in Rows : tileOf(r) = t
<1>1. /\ UNCHANGED <<design, sequenceVars, streams, filledA, filledB, sentA, sentB, sentC, coreVars>>
      /\ drained' = [drained EXCEPT ![c] = j] /\ drained[c] < Len(streamC[c])
      /\ \A r \in Rows : sentC[<<r, c>>] > drained[c]
  BY DEF Drain
<1>2. /\ drained \in [Cols -> Nat] /\ \A k \in Cols : Len(streamC[k]) \in Nat
      /\ \A r \in Rows, k \in Cols : sentC[<<r, k>>] \in Nat /\ Len(results[<<r, k>>]) \in Nat
      /\ design.fifo_depth \in Nat
      /\ drained[c] \in Nat /\ j \in Nat /\ j \in drained[c] + 1 .. Len(streamC[c])
  <2>1. /\ drained \in [Cols -> Nat] /\ \A k \in Cols : Len(streamC[k]) \in Nat
        /\ \A r \in Rows, k \in Cols : sentC[<<r, k>>] \in Nat /\ Len(results[<<r, k>>]) \in Nat
        /\ design.fifo_depth \in Nat
    BY DesignTypes, CoreParts DEF ArrayInv, Types, IsList, Positive
  <2>. QED BY <1>1, <2>1
<1>3. /\ Rows' = Rows /\ Cols' = Cols /\ Shims' = Shims /\ Tiles' = Tiles
      /\ \A r : ShimOf(r)' = ShimOf(r)
      /\ \A t : Place(t)' = Place(t)
      /\ \A d, t : Product(d, t)' = Product(d, t) /\ Held(d, t)' = Held(d, t)
      /\ \A b, r : BlockTile(b, r)' = BlockTile(b, r)
      /\ Shape'
  BY <1>1, DesignKept DEF ArrayInv
<1>4. ASSUME NEW r \in Rows
      PROVE  tileOf(r) \in Tiles /\ results[<<r, c>>][j] = Product(dispatch, tileOf(r))
  <2>1. tileOf(r) \in Tiles /\ Fed(r, c, j) = Product(dispatch, tileOf(r))
    BY <1>2 DEF ArrayInv, Aligned
  <2>2. sentC[<<r, c>>] <= Len(results[<<r, c>>]) /\ sentC[<<r, c>>] > drained[c]
    BY <1>1 DEF ArrayInv, Fifos
  <2>3. j \in 1 .. Len(results[<<r, c>>])
    BY <1>2, <2>2
  <2>4. results[<<r, c>>][j] = Fed(r, c, j)
    BY <2>3 DEF ArrayInv, Summed, SummedAt
  <2>. QED BY <2>1, <2>4
<1>5. Running /\ Running' /\ dispatch \in Nat /\ dispatch > 0
  BY <1>1, <1>2 DEF ArrayInv, Quiet, Running, Counts, sequenceVars
<1>6. \A t : Held(dispatch, t) = Product(dispatch, t)
  BY <1>5 DEF Held
<1>7. DOMAIN mem = {Place(t) : t \in Tiles}
  BY DEF ArrayInv, Types
<1>8. mem' = [p \in DOMAIN mem |->
                 IF \E r \in Rows : Place(tileOf(r)) = p
                    THEN results[<<CHOOSE r \in Rows : Place(tileOf(r)) = p, c>>][j]
                    ELSE mem[p]]
  BY DEF Drain, BlockTile
<1>. HIDE DEF block, j, tileOf, stores
<1>9. ASSUME NEW t \in Tiles
      PROVE  mem'[Place(t)] = IF stores(t) THEN Product(dispatch, t) ELSE mem[Place(t)]
  <2> DEFINE p == Place(t)
             at(r) == Place(tileOf(r)) = p
  <2>1. p \in DOMAIN mem
    BY <1>7
  <2>2. ASSUME NEW r \in Rows PROVE at(r) <=> tileOf(r) = t
    BY <1>4, PlaceOfOne
  <2>3. CASE \E r \in Rows : at(r)
    <3> DEFINE r0 == CHOOSE r \in Rows : at(r)
    <3>1. r0 \in Rows /\ at(r0)
      BY <2>3
    <3>2. mem'[p] = results[<<r0, c>>][j]
      <4>. HIDE DEF p
      <4>. QED BY <1>8, <2>1, <2>3
    <3>. HIDE DEF r0, at
    <3>3. tileOf(r0) = t
      BY <2>2, <3>1
    <3>. QED BY <1>4, <3>1, <3>2, <3>3 DEF stores
  <2>4. CASE ~ \E r \in Rows : at(r)
    <3>1. mem'[p] = mem[p]
      <4>. HIDE DEF p
      <4>. QED BY <1>8, <2>1, <2>4
    <3>. HIDE DEF at
    <3>2. ~stores(t)
      BY <2>2, <2>4 DEF stores
    <3>. QED BY <3>1, <3>2
  <2>. QED BY <2>3, <2>4
<1>10. Memory'
  <2>1. dispatch' = dispatch /\ completed' = completed
    BY <1>1 DEF sequenceVars
  <2>2. ASSUME NEW t \in Tiles
        PROVE  \/ mem'[Place(t)] = Held(dispatch, t)
               \/ Running /\ mem'[Place(t)] = Held(dispatch - 1, t)
    BY <1>6, <1>9 DEF ArrayInv, Memory
  <2>. QED BY <1>3, <1>5, <2>1, <2>2 DEF Memory
<1>11. /\ UNCHANGED <<design, streamA, streamB, streamC, filledA, filledB, sentA, sentB, sentC,
                      used, holds, acc, results, dispatch, completed>>
       /\ UNCHANGED <<design, streams>>
  BY <1>1 DEF sequenceVars, streams, coreVars
<1>12. Types'
  <2>1. drained' \in [Cols -> Nat] /\ DOMAIN mem' = DOMAIN mem
    BY <1>1, <1>2, <1>8
  <2>2. Types
    BY DEF ArrayInv
  <2>. QED BY <1>11, <2>1, <2>2, TypesKept DEF Types
<1>13. \A k \in Cols : drained'[k] = IF k = c THEN j ELSE drained[k]
  BY <1>1, <1>2
<1>14. Fifos'
  <2>1. ASSUME NEW k \in Cols
        PROVE  /\ drained'[k] <= Len(streamC[k])
               /\ \A r \in Rows : /\ drained'[k] <= sentC[<<r, k>>]
                                  /\ sentC[<<r, k>>] - drained'[k] <= design.fifo_depth
    <3>1. CASE k = c
      <4>1. drained'[c] = j /\ j = drained[c] + 1
        BY <1>13 DEF j
      <4>2. ASSUME NEW r \in Rows
            PROVE  j <= sentC[<<r, c>>] /\ sentC[<<r, c>>] - j <= design.fifo_depth
        <5>1. sentC[<<r, c>>] - drained[c] <= design.fifo_depth
          BY DEF ArrayInv, Fifos
        <5>. QED BY <1>1, <1>2, <4>1, <5>1
      <4>. QED BY <1>2, <3>1, <4>1, <4>2
    <3>2. CASE k # c
      BY <1>13, <3>2 DEF ArrayInv, Fifos
    <3>. QED BY <3>1, <3>2
  <2>. QED BY <1>3, <1>11, <2>1 DEF ArrayInv, Fifos
<1>15. Summed' /\ Matched'
  BY <1>1, <1>11, SummedKept, MatchedKept DEF ArrayInv
<1>16. \A k \in Cols : \A i \in drained'[k] + 1 .. Len(streamC[k]) : i \in drained[k] + 1 .. Len(streamC[k])
  <2>1. ASSUME NEW k \in Cols PROVE drained[k] \in Nat /\ drained[k] <= drained'[k] /\ drained'[k] \in Nat
    BY <1>2, <1>13 DEF j
  <2>. QED BY <1>2, <2>1
<1>17. Aligned'
  <2>1. \A r, k, i : Fed(r, k, i)' = Fed(r, k, i)
    BY <1>11, FedKept
  <2>. QED BY <1>3, <1>11, <1>16, <2>1 DEF ArrayInv, Aligned
<1>18. Quiet' /\ Counts'
  BY <1>5, <1>11 DEF ArrayInv, Quiet, Counts
<1>19. ASSUME NEW n, Covers(n) PROVE Covers(n)'
  <2>1. ASSUME NEW t \in Tiles, Pending(t) PROVE Pending(t)' \/ stores(t)
    <3>1. PICK k \in Cols, r \in Rows : \E i \in drained[k] + 1 .. Len(streamC[k]) :
                BlockTile(streamC[k][i], r) = t
      BY <2>1 DEF Pending
    <3>2. PICK i \in drained[k] + 1 .. Len(streamC[k]) : BlockTile(streamC[k][i], r) = t
      BY <3>1
    <3>3. CASE k = c /\ i = j
      BY <3>2, <3>3 DEF stores, tileOf, block
    <3>4. CASE ~(k = c /\ i = j)
      <4>1. i \in drained'[k] + 1 .. Len(streamC[k])
        BY <1>2, <1>13, <3>4 DEF j
      <4>. QED BY <1>3, <1>11, <3>2, <4>1 DEF Pending
    <3>. QED BY <3>3, <3>4
  <2>2. ASSUME NEW t \in Tiles, t[1] < n * design.n_aie_rows
        PROVE  mem'[Place(t)] = Product(dispatch, t) \/ Pending(t)'
    <3>1. mem[Place(t)] = Product(dispatch, t) \/ Pending(t)
      BY <1>19, <2>2 DEF Covers
    <3>2. mem'[Place(t)] = Product(dispatch, t) \/ (mem'[Place(t)] = mem[Place(t)] /\ ~stores(t))
      BY <1>9
    <3>3. Pending(t) => Pending(t)' \/ stores(t)
      BY <2>1
    <3>. QED BY <3>1, <3>2, <3>3
  <2>. QED BY <1>3, <1>11, <2>2 DEF Covers
<1>20. OnlyStores
  BY <1>9 DEF OnlyStores
<1>. QED BY <1>3, <1>10, <1>12, <1>14, <1>15, <1>17, <1>18, <1>19, <1>20 DEF ArrayInv

\* Whatever the array does keeps its invariant.
LEMMA ArrayStep ==
    ASSUME ArrayInv, Array
    PROVE  /\ ArrayInv' /\ (\A n : Covers(n) => Covers(n)') /\ OnlyStores
           /\ UNCHANGED <<design, sequenceVars, streams>>
<1>1. CASE \E i \in Shims : FillA(i)
  BY <1>1, FillAInv DEF FillA, OnlyStores
<1>2. CASE \E c \in Cols : FillB(c)
  BY <1>2, FillBInv DEF FillB, OnlyStores
<1>3. CASE \E c \in Cols : SendB(c)
  BY <1>3, SendBInv DEF SendB, OnlyStores
<1>4. CASE \E c \in Cols : Drain(c)
  BY <1>4, DrainInv DEF Drain
<1>5. CASE \E r \in Rows : SendA(r)
  BY <1>5, SendAInv DEF SendA, OnlyStores
<1>6. CASE \E x \in Cores : Acquire(x)
  BY <1>6, AcquireInv DEF Acquire, OnlyStores
<1>7. CASE \E x \in Cores : MatMul(x)
  BY <1>7, MatMulInv DEF MatMul, OnlyStores
<1>8. CASE \E x \in Cores : SendC(x)
  BY <1>8, SendCInv DEF SendC, OnlyStores
<1>. QED BY <1>1, <1>2, <1>3, <1>4, <1>5, <1>6, <1>7, <1>8 DEF Array

-----------------------------------------------------------------------------
(* The host: a design, a dispatch, and what a task group issues *)

\* The idle array.
LEMMA IdleInv ==
    ASSUME Shape, Idle
    PROVE  ArrayInv
<1>1. /\ 0 \in Cols /\ \A r \in Rows : ShimOf(r) \in Shims
      /\ design.KSteps \in Nat /\ design.KSteps > 0
      /\ design.fifo_depth \in Nat /\ design.c_fifo_depth \in Nat
  BY DesignTypes, ShimsSplitRows DEF Cols, Positive
<1>2. IsList(<<>>) /\ Len(<<>>) = 0
  BY DEF IsList
<1>3. Counts
  BY DEF Counts, Idle
<1>4. Types
  BY <1>2, CoreParts DEF Types, Idle
<1>5. \A r \in Rows, c \in Cols : <<r, c>> \in Cores
  BY CoreParts
<1>6. Fifos
  BY <1>1, <1>2, <1>5 DEF Fifos, Idle
<1>7. Summed
  <2>1. ASSUME NEW r \in Rows, NEW c \in Cols PROVE SummedAt(r, c)
    <3>1. /\ used[<<r, c>>] = 0 /\ holds[<<r, c>>] = FALSE
          /\ acc[<<r, c>>] = <<>> /\ results[<<r, c>>] = <<>>
      BY <1>5 DEF Idle
    <3>2. 0 * design.KSteps + 0 = 0
      BY <1>1
    <3>3. \A k \in 1 .. Len(<<>>) : FALSE
      BY <1>2
    <3>. QED BY <1>1, <1>2, <3>1, <3>2, <3>3 DEF SummedAt
  <2>. QED BY <2>1 DEF Summed
<1>8. Matched
  <2>1. Issued = 0 /\ Issued * design.KSteps = 0
    BY <1>1, <1>2 DEF Issued, Idle
  <2>. QED BY <1>2, <2>1 DEF Matched, Idle
<1>9. Aligned
  BY <1>2 DEF Aligned, Idle
<1>10. Memory
  <2>1. \A t \in Tiles : Place(t) \in {Place(u) : u \in Tiles}
    OBVIOUS
  <2>2. \A t \in Tiles : mem[Place(t)] = <<>>
    BY <2>1 DEF Idle
  <2>. QED BY <2>2 DEF Memory, Held, Idle
<1>11. Quiet
  BY <1>2 DEF Quiet, Idle
<1>. QED BY <1>3, <1>4, <1>6, <1>7, <1>8, <1>9, <1>10, <1>11 DEF ArrayInv

\* A dispatch begins on an array that has drained all there was.
LEMMA BeginInv ==
    ASSUME ArrayInv, Begin
    PROVE  ArrayInv' /\ Covers(0)' /\ Running'
<1>1. /\ UNCHANGED <<design, completed, streams, moved, coreVars, mem>> /\ ~Running
      /\ dispatch' = dispatch + 1
  BY DEF Begin
<1>2. /\ Rows' = Rows /\ Cols' = Cols /\ Shims' = Shims /\ Cores' = Cores /\ Tiles' = Tiles
      /\ \A r : ShimOf(r)' = ShimOf(r)
      /\ \A t : Place(t)' = Place(t)
      /\ Shape'
  BY <1>1, DesignKept DEF ArrayInv
<1>3. /\ UNCHANGED <<design, streamA, streamB, streamC, filledA, filledB, sentA, sentB, sentC,
                     drained, used, holds, acc, results, mem>>
  BY <1>1 DEF streams, moved, coreVars
<1>4. Counts' /\ Running' /\ dispatch \in Nat /\ completed = dispatch
  BY <1>1 DEF ArrayInv, Counts, Running
<1>5. Types'
  BY <1>1, <1>3, TypesKept DEF ArrayInv, Types
<1>6. Fifos'
  BY <1>2, <1>3 DEF ArrayInv, Fifos
<1>7. Summed' /\ Matched'
  BY <1>1, <1>3, SummedKept, MatchedKept DEF ArrayInv
<1>8. \A c \in Cols : drained[c] = Len(streamC[c]) /\ Len(streamC[c]) \in Nat
  BY <1>1 DEF ArrayInv, Quiet, Types, IsList
<1>9. Aligned'
  BY <1>2, <1>3, <1>8 DEF Aligned
<1>10. Memory'
  <2>1. \A t : Held(dispatch, t)' = Held(dispatch + 1, t) /\ Held(dispatch - 1, t)' = Held(dispatch, t)
    BY <1>1, <1>4 DEF Held, Product
  <2>2. \A t \in Tiles : mem[Place(t)] = Held(dispatch, t)
    BY <1>1 DEF ArrayInv, Memory
  <2>. QED BY <1>2, <1>3, <1>4, <2>1, <2>2 DEF Memory
<1>11. Quiet'
  BY <1>4 DEF Quiet
<1>12. Covers(0)'
  <2>1. \A t \in Tiles : t[1] \in Nat
    BY DesignTypes DEF ArrayInv, Tiles, Positive
  <2>2. design.n_aie_rows \in Nat /\ 0 * design.n_aie_rows = 0
    BY DesignTypes DEF ArrayInv, Positive
  <2>. QED BY <1>2, <1>3, <2>1, <2>2 DEF Covers
<1>. QED BY <1>2, <1>4, <1>5, <1>6, <1>7, <1>9, <1>10, <1>11, <1>12 DEF ArrayInv

\* Pair e of block j among the pairs of the blocks.
LEMMA PairOfBlock ==
    ASSUME NEW K \in Nat \ {0}, NEW n \in Nat, NEW j \in 1 .. n, NEW e \in 1 .. K
    PROVE  /\ (j - 1) * K + e \in 1 .. n * K /\ n * K \in Nat
           /\ \A m \in Nat : (m + j - 1) * K + e = m * K + ((j - 1) * K + e) /\ m * K \in Nat
<1>1. j * K <= n * K /\ (j - 1) * K = j * K - K /\ j * K \in Int /\ n * K \in Nat
  BY Monotone
<1>2. 0 * K <= (j - 1) * K /\ 0 * K = 0
  BY Monotone
<1>3. ASSUME NEW m \in Nat
      PROVE  (m + j - 1) * K + e = m * K + ((j - 1) * K + e) /\ m * K \in Nat
  OBVIOUS
<1>. QED BY <1>1, <1>2, <1>3

\* What row r and column c make of the j-th block of the lists of tiles a and b, and
\* what the j-th block of the lists s is to hold.
FedBy(a, b, r, c, j) ==
    [e \in 1 .. design.KSteps |->
        <<ATile(r, a[ShimOf(r)][(j - 1) * design.KSteps + e]), b[c][(j - 1) * design.KSteps + e]>>]

\* The lists of fills and drains of a task group: n blocks for each column, and
\* for each the tiles that its product in this dispatch is made of.
GroupOf(a, b, s, n) ==
    /\ \A i \in Shims : IsList(a[i]) /\ Len(a[i]) = n * design.KSteps
    /\ \A c \in Cols : IsList(b[c]) /\ Len(b[c]) = n * design.KSteps
    /\ \A c \in Cols : IsList(s[c]) /\ Len(s[c]) = n
    /\ \A c \in Cols, r \in Rows : \A j \in 1 .. n :
          /\ BlockTile(s[c][j], r) \in Tiles
          /\ FedBy(a, b, r, c, j) = Product(dispatch, BlockTile(s[c][j], r))

\* The blocks of the group are the tiles of the row blocks from k up to l.
GroupCovers(s, n, k, l) ==
    \A tile \in Tiles :
        k * design.n_aie_rows <= tile[1] /\ tile[1] < l * design.n_aie_rows =>
            \E c \in Cols, r \in Rows : \E j \in 1 .. n : BlockTile(s[c][j], r) = tile

\* What is fed to a core, pair by pair, before and after a step.
LEMMA FedAt ==
    ASSUME NEW r, NEW c, NEW j, NEW e, NEW p
    PROVE  /\ e \in 1 .. design.KSteps /\ p = (j - 1) * design.KSteps + e =>
                Fed(r, c, j)[e] = Pair(r, c, p)
           /\ e \in 1 .. design'.KSteps /\ p = (j - 1) * design'.KSteps + e =>
                Fed(r, c, j)'[e] = Pair(r, c, p)'
BY DEF Fed

\* The group is issued, and the dispatch covers its row blocks too.
Issues(a, b, s) ==
    /\ DOMAIN streamA' = Shims /\ \A i \in Shims : streamA'[i] = streamA[i] \o a[i]
    /\ DOMAIN streamB' = Cols /\ \A c \in Cols : streamB'[c] = streamB[c] \o b[c]
    /\ DOMAIN streamC' = Cols /\ \A c \in Cols : streamC'[c] = streamC[c] \o s[c]
AlsoCovers(s, n) ==
    \A k, l \in Nat : Covers(k) /\ GroupCovers(s, n, k, l) => Covers(l)'

\* What such a group adds to the streams is what they have to go on with.
LEMMA IssueInv ==
    ASSUME ArrayInv, UNCHANGED <<design, dispatch, completed, moved, coreVars, mem>>, Running,
           NEW a, NEW b, NEW s, NEW n \in Nat, GroupOf(a, b, s, n), Issues(a, b, s)
    PROVE  ArrayInv' /\ AlsoCovers(s, n)
<1>1. /\ Rows' = Rows /\ Cols' = Cols /\ Shims' = Shims /\ Cores' = Cores /\ Tiles' = Tiles
      /\ \A r : ShimOf(r)' = ShimOf(r)
      /\ \A t : Place(t)' = Place(t)
      /\ \A r, x : ATile(r, x)' = ATile(r, x)
      /\ \A d, t : Product(d, t)' = Product(d, t) /\ Held(d, t)' = Held(d, t)
      /\ \A u, r : BlockTile(u, r)' = BlockTile(u, r)
      /\ Shape'
  BY DesignKept DEF ArrayInv
<1>2. /\ UNCHANGED <<design, dispatch, completed, filledA, filledB, sentA, sentB, sentC, drained,
                     used, holds, acc, results, mem>>
  BY DEF moved, coreVars
<1>3. PICK K \in Nat \ {0}, I \in Nat : design.KSteps = K /\ Issued = I
  <2>1. design.KSteps \in Nat \ {0} /\ 0 \in Cols
    BY DesignTypes DEF ArrayInv, Cols, Positive
  <2>2. Issued \in Nat
    BY <2>1 DEF ArrayInv, Types, IsList, Issued
  <2>. QED BY <2>1, <2>2
<1>4. /\ \A i \in Shims : IsList(streamA[i]) /\ Len(streamA[i]) = I * K
      /\ \A c \in Cols : /\ IsList(streamB[c]) /\ Len(streamB[c]) = I * K
                         /\ IsList(streamC[c]) /\ Len(streamC[c]) = I
      /\ \A r \in Rows : ShimOf(r) \in Shims
      /\ I * K \in Nat /\ n * K \in Nat /\ (I + n) * K = I * K + n * K
  <2>1. I * K \in Nat /\ n * K \in Nat /\ (I + n) * K = I * K + n * K
    OBVIOUS
  <2>. QED BY <1>3, <2>1, ShimsSplitRows DEF ArrayInv, Types, Matched
<1>5. /\ \A i \in Shims : /\ IsList(streamA'[i]) /\ Len(streamA'[i]) = I * K + n * K
                          /\ \A p \in 1 .. I * K : streamA'[i][p] = streamA[i][p]
                          /\ \A p \in 1 .. n * K : streamA'[i][I * K + p] = a[i][p]
      /\ \A c \in Cols : /\ IsList(streamB'[c]) /\ Len(streamB'[c]) = I * K + n * K
                         /\ \A p \in 1 .. I * K : streamB'[c][p] = streamB[c][p]
                         /\ \A p \in 1 .. n * K : streamB'[c][I * K + p] = b[c][p]
      /\ \A c \in Cols : /\ IsList(streamC'[c]) /\ Len(streamC'[c]) = I + n
                         /\ \A p \in 1 .. I : streamC'[c][p] = streamC[c][p]
                         /\ \A p \in 1 .. n : streamC'[c][I + p] = s[c][p]
  <2>1. /\ \A i \in Shims : IsList(a[i]) /\ Len(a[i]) = n * K
        /\ \A c \in Cols : IsList(b[c]) /\ Len(b[c]) = n * K
        /\ \A c \in Cols : IsList(s[c]) /\ Len(s[c]) = n
    BY <1>3 DEF GroupOf
  <2>2. ASSUME NEW i \in Shims
        PROVE  IsJoin(streamA'[i], streamA[i], a[i], I * K, n * K)
    BY <1>4, <2>1, JoinedOf DEF Issues
  <2>3. ASSUME NEW c \in Cols
        PROVE  IsJoin(streamB'[c], streamB[c], b[c], I * K, n * K)
    BY <1>4, <2>1, JoinedOf DEF Issues
  <2>4. ASSUME NEW c \in Cols
        PROVE  IsJoin(streamC'[c], streamC[c], s[c], I, n)
    BY <1>4, <2>1, JoinedOf DEF Issues
  <2>. QED BY <2>2, <2>3, <2>4 DEF IsJoin
<1>7. ASSUME NEW r \in Rows, NEW c \in Cols, NEW p \in 1 .. I * K
      PROVE  Pair(r, c, p)' = Pair(r, c, p)
  BY <1>1, <1>4, <1>5 DEF Pair
<1>8. ASSUME NEW r \in Rows, NEW c \in Cols, NEW j \in 1 .. I
      PROVE  Fed(r, c, j)' = Fed(r, c, j)
  <2>1. \A e \in 1 .. K : (j - 1) * K + e \in 1 .. I * K
    BY <1>3, PairOfBlock
  <2>2. \A e \in 1 .. K : Pair(r, c, (j - 1) * K + e)' = Pair(r, c, (j - 1) * K + e)
    BY <1>7, <2>1
  <2>. QED BY <1>2, <1>3, <2>2 DEF Fed
<1>9. ASSUME NEW r \in Rows, NEW c \in Cols, NEW j \in 1 .. n
      PROVE  Fed(r, c, I + j)' = FedBy(a, b, r, c, j)
  <2>1. ASSUME NEW e \in 1 .. K
        PROVE  Pair(r, c, (I + j - 1) * K + e)' =
                   <<ATile(r, a[ShimOf(r)][(j - 1) * K + e]), b[c][(j - 1) * K + e]>>
    <3>1. PICK p, q : p = (j - 1) * K + e /\ q = (I + j - 1) * K + e
      OBVIOUS
    <3>4. p \in 1 .. n * K /\ q = I * K + p
      BY <3>1, PairOfBlock
    <3>2. Pair(r, c, q)' = <<ATile(r, streamA'[ShimOf(r)][q]), streamB'[c][q]>>
      BY <1>1 DEF Pair
    <3>3. streamA'[ShimOf(r)][q] = a[ShimOf(r)][p] /\ streamB'[c][q] = b[c][p]
      BY <1>4, <1>5, <3>4
    <3>. QED BY <3>1, <3>2, <3>3
  <2>3. Fed(r, c, I + j)' = [e \in 1 .. K |-> Pair(r, c, (I + j - 1) * K + e)']
    BY <1>2, <1>3 DEF Fed
  <2>. QED BY <1>3, <2>1, <2>3 DEF FedBy
<1>11. Types'
  <2>1. {Place(t) : t \in Tiles}' = {Place(t) : t \in Tiles}
    BY <1>1
  <2>2. Types
    BY DEF ArrayInv
  <2>3. /\ DOMAIN streamA' = Shims' /\ \A i \in Shims' : IsList(streamA'[i])
        /\ DOMAIN streamB' = Cols' /\ DOMAIN streamC' = Cols'
        /\ \A c \in Cols' : IsList(streamB'[c]) /\ IsList(streamC'[c])
    BY <1>1, <1>5 DEF Issues
  <2>. QED BY <1>1, <1>2, <2>1, <2>2, <2>3 DEF Types
<1>12. Fifos'
  <2>1. ASSUME NEW i \in Shims PROVE filledA[i] <= Len(streamA'[i])
    <3>1. filledA[i] \in Nat /\ filledA[i] <= I * K
      BY <1>4 DEF ArrayInv, Fifos, Types
    <3>. QED BY <1>4, <1>5, <3>1
  <2>2. ASSUME NEW c \in Cols PROVE filledB[c] <= Len(streamB'[c]) /\ drained[c] <= Len(streamC'[c])
    <3>1. filledB[c] \in Nat /\ filledB[c] <= I * K /\ drained[c] \in Nat /\ drained[c] <= I
      BY <1>4 DEF ArrayInv, Fifos, Types
    <3>2. filledB[c] <= I * K + n * K /\ drained[c] <= I + n
      BY <1>4, <3>1
    <3>. QED BY <1>5, <3>2
  <2>. QED BY <1>1, <1>2, <2>1, <2>2 DEF ArrayInv, Fifos
<1>13. ASSUME NEW r \in Rows, NEW c \in Cols PROVE SummedAt(r, c)'
  <2>1. PICK x : x = <<r, c>>
    OBVIOUS
  <2>2. PICK N, L : N = Len(results[x]) /\ L = Len(acc[x])
    OBVIOUS
  <2>3. x \in Cores /\ N \in Nat /\ L \in Nat /\ used[x] \in Nat
    BY <2>1, <2>2, CoreParts DEF ArrayInv, Types, IsList
  <2>4. SummedAt(r, c)
    BY DEF ArrayInv, Summed
  <2>5. used[x] <= I * K
    <3>1. /\ used[x] <= sentA[r] /\ sentA[r] <= filledA[ShimOf(r)] /\ filledA[ShimOf(r)] <= I * K
          /\ sentA[r] \in Nat /\ filledA[ShimOf(r)] \in Nat
      BY <1>4, <2>1 DEF ArrayInv, Fifos, Types
    <3>. QED BY <1>4, <2>3, <3>1
  <2>6. /\ used[x] = N * K + (IF holds[x] THEN L ELSE 0) /\ L <= K
        /\ holds[x] => L < K /\ \A e \in 1 .. L : acc[x][e] = Fed(r, c, N + 1)[e]
        /\ \A j \in 1 .. N : results[x][j] = Fed(r, c, j)
    BY <1>3, <2>1, <2>2, <2>4 DEF SummedAt
  <2>7. N <= I
    <3>1. N * K \in Nat
      BY <2>3
    <3>2. N * K <= I * K
      <4>1. PICK u, v, w : u = used[x] /\ v = I * K /\ w = N * K
        OBVIOUS
      <4>2. u \in Nat /\ v \in Nat /\ w \in Nat /\ u <= v
        BY <1>4, <2>3, <2>5, <3>1, <4>1
      <4>3. w <= u
        BY <2>3, <2>6, <3>1, <4>1
      <4>. QED BY <4>1, <4>2, <4>3
    <3>. QED BY <2>3, <3>2, Monotone
  <2>8. \A j \in 1 .. N : results[x][j] = Fed(r, c, j)'
    <3>1. \A j \in 1 .. N : j \in 1 .. I
      BY <2>3, <2>7
    <3>. QED BY <1>8, <2>6, <3>1
  <2>9. ASSUME holds[x], NEW e \in 1 .. L PROVE acc[x][e] = Fed(r, c, N + 1)'[e]
    <3>1. (N + 1 - 1) * K + e = N * K + e /\ N * K \in Nat /\ N + 1 \in Nat
      BY <2>3
    <3>2. PICK p : p = N * K + e
      OBVIOUS
    <3>3. p \in 1 .. I * K
      <4>1. PICK v, w : v = I * K /\ w = N * K
        OBVIOUS
      <4>2. v \in Nat /\ w \in Nat /\ w + L <= v
        BY <1>4, <2>5, <2>6, <2>9, <3>1, <4>1
      <4>3. w + e \in 1 .. v
        BY <2>3, <4>2
      <4>. QED BY <3>2, <4>1, <4>3
    <3>4. e \in 1 .. K
      BY <2>3, <2>6
    <3>8. PICK m : m = N + 1
      OBVIOUS
    <3>7. /\ p = (m - 1) * design.KSteps + e /\ p = (m - 1) * design'.KSteps + e
          /\ e \in 1 .. design.KSteps /\ e \in 1 .. design'.KSteps
      <4>1. p = (m - 1) * K + e
        BY <2>3, <3>1, <3>2, <3>8
      <4>2. design.KSteps = K /\ design'.KSteps = K
        BY <1>2, <1>3
      <4>. QED BY <3>4, <4>1, <4>2, Zenon
    <3>5. Fed(r, c, N + 1)[e] = Pair(r, c, p)
      BY <3>7, <3>8, FedAt
    <3>6. Fed(r, c, N + 1)'[e] = Pair(r, c, p)'
      BY <3>7, <3>8, FedAt
    <3>. QED BY <1>7, <2>6, <2>9, <3>3, <3>5, <3>6
  <2>10. /\ used'[x] = used[x] /\ holds'[x] = holds[x] /\ acc'[x] = acc[x] /\ results'[x] = results[x]
         /\ design'.KSteps = K
    BY <1>2, <1>3
  <2>11. /\ used'[x] = N * design'.KSteps + (IF holds'[x] THEN L ELSE 0) /\ L <= design'.KSteps
         /\ holds'[x] => L < design'.KSteps /\ \A e \in 1 .. L : acc'[x][e] = Fed(r, c, N + 1)'[e]
         /\ \A j \in 1 .. N : results'[x][j] = Fed(r, c, j)'
    BY <2>6, <2>8, <2>9, <2>10
  <2>12. N = Len(results'[x]) /\ L = Len(acc'[x])
    BY <2>2, <2>10
  <2>. QED BY <2>1, <2>11, <2>12 DEF SummedAt
<1>14. Summed'
  BY <1>1, <1>13 DEF Summed
<1>15. Matched'
  <2>1. Issued' = I + n /\ (Issued * design.KSteps)' = I * K + n * K
    <3>1. 0 \in Cols
      BY DesignTypes DEF ArrayInv, Cols, Positive
    <3>2. Issued' = I + n /\ design'.KSteps = K
      BY <1>2, <1>3, <1>5, <3>1 DEF Issued
    <3>. QED BY <1>4, <3>2
  <2>. QED BY <1>1, <1>5, <2>1 DEF Matched
<1>16. ASSUME NEW c \in Cols, NEW j \in drained[c] + 1 .. I + n
       PROVE  \/ /\ j \in 1 .. I /\ j \in drained[c] + 1 .. Len(streamC[c])
                 /\ streamC'[c][j] = streamC[c][j]
              \/ \E i \in 1 .. n : j = I + i /\ streamC'[c][j] = s[c][i]
  <2>1. drained[c] \in Nat
    BY DEF ArrayInv, Types
  <2>2. CASE j <= I
    <3>1. j \in 1 .. I /\ j \in drained[c] + 1 .. I
      BY <2>1, <2>2
    <3>. QED BY <1>4, <1>5, <3>1
  <2>3. CASE j > I
    <3>1. PICK i : i = j - I
      OBVIOUS
    <3>2. i \in 1 .. n /\ j = I + i
      BY <2>1, <2>3, <3>1
    <3>. QED BY <1>5, <3>2
  <2>. QED BY <2>1, <2>2, <2>3
<1>17. Aligned'
  <2>1. ASSUME NEW c \in Cols, NEW r \in Rows, NEW j \in drained[c] + 1 .. I + n
        PROVE  /\ BlockTile(streamC'[c][j], r) \in Tiles
               /\ Fed(r, c, j)' = Product(dispatch, BlockTile(streamC'[c][j], r))
    <3>1. CASE j \in 1 .. I /\ j \in drained[c] + 1 .. Len(streamC[c])
               /\ streamC'[c][j] = streamC[c][j]
      BY <1>8, <3>1 DEF ArrayInv, Aligned
    <3>2. CASE \E i \in 1 .. n : j = I + i /\ streamC'[c][j] = s[c][i]
      <4>1. PICK i \in 1 .. n : j = I + i /\ streamC'[c][j] = s[c][i]
        BY <3>2
      <4>2. /\ BlockTile(s[c][i], r) \in Tiles
            /\ FedBy(a, b, r, c, i) = Product(dispatch, BlockTile(s[c][i], r))
        BY DEF GroupOf
      <4>3. Fed(r, c, I + i)' = FedBy(a, b, r, c, i)
        BY <1>9
      <4>. QED BY <4>1, <4>2, <4>3
    <3>. QED BY <1>16, <3>1, <3>2
  <2>. QED BY <1>1, <1>2, <1>5, <2>1 DEF Aligned
<1>18. Memory' /\ Counts' /\ Quiet'
  BY <1>2, MemoryKept DEF ArrayInv, Counts, Quiet, Running
<1>19. ASSUME NEW k \in Nat, NEW l \in Nat, Covers(k), GroupCovers(s, n, k, l) PROVE Covers(l)'
  <2>1. ASSUME NEW t \in Tiles, Pending(t) PROVE Pending(t)'
    <3>1. PICK c \in Cols, r \in Rows : \E j \in drained[c] + 1 .. Len(streamC[c]) :
                BlockTile(streamC[c][j], r) = t
      BY <2>1 DEF Pending
    <3>2. PICK j \in drained[c] + 1 .. Len(streamC[c]) : BlockTile(streamC[c][j], r) = t
      BY <3>1
    <3>3. drained[c] \in Nat
      BY DEF ArrayInv, Types
    <3>4. j \in drained[c] + 1 .. I + n /\ j \in 1 .. I
      BY <1>4, <3>3
    <3>5. streamC'[c][j] = streamC[c][j] /\ Len(streamC'[c]) = I + n
      BY <1>5, <3>4
    <3>. QED BY <1>1, <1>2, <3>2, <3>4, <3>5 DEF Pending
  <2>2. ASSUME NEW t \in Tiles, NEW c \in Cols, NEW r \in Rows, NEW j \in 1 .. n,
               BlockTile(s[c][j], r) = t
        PROVE  Pending(t)'
    <3>1. drained[c] \in Nat /\ drained[c] <= I
      BY <1>4 DEF ArrayInv, Types, Fifos
    <3>2. I + j \in drained[c] + 1 .. I + n
      BY <3>1
    <3>3. streamC'[c][I + j] = s[c][j] /\ Len(streamC'[c]) = I + n
      BY <1>5
    <3>. QED BY <1>1, <1>2, <2>2, <3>2, <3>3 DEF Pending
  <2>3. ASSUME NEW t \in Tiles, t[1] < l * design.n_aie_rows
        PROVE  mem[Place(t)] = Product(dispatch, t) \/ Pending(t)'
    <3>1. CASE t[1] < k * design.n_aie_rows
      BY <1>19, <2>1, <3>1 DEF Covers
    <3>2. CASE k * design.n_aie_rows <= t[1]
      BY <1>19, <2>2, <2>3, <3>2 DEF GroupCovers
    <3>3. t[1] \in Int /\ k * design.n_aie_rows \in Int
      BY DesignTypes DEF ArrayInv, Tiles, Positive
    <3>. QED BY <3>1, <3>2, <3>3
  <2>. QED BY <1>1, <1>2, <2>3 DEF Covers
<1>. QED BY <1>1, <1>11, <1>12, <1>14, <1>15, <1>17, <1>18, <1>19 DEF ArrayInv, AlsoCovers

-----------------------------------------------------------------------------
(* What the taps of a task group have to do *)

\* Block j among the blocks of a group of t row blocks.
LEMMA BlockInGroup ==
    ASSUME NEW Reps \in Nat \ {0}, NEW t \in Nat \ {0}, NEW j \in 1 .. t * Reps
    PROVE  /\ (j - 1) \div Reps \in 0 .. t - 1 /\ (j - 1) % Reps \in 0 .. Reps - 1
           /\ j - 1 = Reps * ((j - 1) \div Reps) + ((j - 1) % Reps)
<1> DEFINE n == t * Reps
           i == j - 1
           q == i \div Reps
           s == i % Reps
<1>1. n \in Nat /\ j \in 1 .. n /\ i \in Nat /\ i < n
  OBVIOUS
<1>3. q \in Int /\ s \in 0 .. Reps - 1 /\ i = Reps * q + s
  <2>. HIDE DEF i
  <2>. QED BY <1>1, DivMod
<1>4. q \in 0 .. t - 1
  <2>. HIDE DEF q, s, i
  <2>1. q <= -1 => q * Reps <= (-1) * Reps
    BY <1>3, Monotone
  <2>2. q >= t => t * Reps <= q * Reps
    BY <1>3, Monotone
  <2>3. q * Reps = Reps * q /\ (-1) * Reps = -Reps /\ q * Reps \in Int
    BY <1>3
  <2>. QED BY <1>1, <1>3, <2>1, <2>2, <2>3
<1>. QED BY <1>3, <1>4

\* The pair p of a group of t row blocks: the e-th of block j, which is in row block
\* (j - 1) \div Reps and in repetition (j - 1) % Reps.
IsPairOf(p, e, j, t, Reps, K) ==
    /\ p \in 1 .. t * Reps * K
    /\ (p - 1) % K = e - 1 /\ (p - 1) \div K = j - 1
    /\ (p - 1) \div (Reps * K) = (j - 1) \div Reps

\* Pair p of the group is pair e of block j of it.
LEMMA PairInGroup ==
    ASSUME NEW K \in Nat \ {0}, NEW Reps \in Nat \ {0}, NEW t \in Nat \ {0},
           NEW j \in 1 .. t * Reps, NEW e \in 1 .. K, NEW p, p = (j - 1) * K + e
    PROVE  IsPairOf(p, e, j, t, Reps, K)
<1> DEFINE n == t * Reps
           i == j - 1
           q == i \div Reps
           s == i % Reps
           W == Reps * K
           e0 == e - 1
<1>1. n \in Nat /\ j \in 1 .. n /\ i \in Nat /\ i < n /\ e0 \in 0 .. K - 1
  OBVIOUS
<1>2. p \in 1 .. n * K
  <2>. HIDE DEF n
  <2>. QED BY <1>1, PairOfBlock
<1>3. q \in Int /\ s \in 0 .. Reps - 1 /\ i = Reps * q + s
  BY BlockInGroup
<1>5. (p - 1) % K = e0 /\ (p - 1) \div K = i
  <2>1. p - 1 = K * i + e0
    OBVIOUS
  <2>2. i \in Int
    OBVIOUS
  <2>. HIDE DEF i, e0
  <2>. QED BY <1>1, <2>1, <2>2, DivModUnique
<1>6. (p - 1) \div W = q
  <2>1. W \in Nat \ {0} /\ s * K \in Nat /\ s * K <= (Reps - 1) * K /\ (Reps - 1) * K = W - K
    <3>1. (Reps - 1) * K = W - K /\ W \in Nat
      BY Monotone
    <3>2. 1 * K <= Reps * K /\ 1 * K = K
      BY Monotone
    <3>3. s * K \in Nat
      <4>. HIDE DEF s
      <4>. QED BY <1>3
    <3>4. s * K <= (Reps - 1) * K
      <4>. HIDE DEF s
      <4>. QED BY <1>3, Monotone
    <3>. HIDE DEF W, s
    <3>. QED BY <3>1, <3>2, <3>3, <3>4 DEF W
  <2> DEFINE r == s * K + e0
  <2>2. r \in 0 .. W - 1
    <3>1. PICK u : u = s * K
      OBVIOUS
    <3>. HIDE DEF W, s, e0
    <3>. QED BY <1>1, <2>1, <3>1
  <2>3. p - 1 = W * q + r
    <3>1. p - 1 = K * i + e0
      OBVIOUS
    <3>2. K * i = K * (Reps * q) + K * s
      <4>. HIDE DEF i, q, s
      <4>. QED BY <1>3
    <3>3. K * (Reps * q) = W * q
      <4>. HIDE DEF q
      <4>. QED BY <1>3
    <3>4. K * s = s * K
      <4>. HIDE DEF s
      <4>. QED BY <1>3
    <3>5. W * q \in Int
      <4>. HIDE DEF q
      <4>. QED BY <1>3
    <3>. HIDE DEF W, q, s, i, e0
    <3>. QED BY <1>1, <2>1, <3>1, <3>2, <3>3, <3>4, <3>5
  <2>. HIDE DEF W, q, r
  <2>. QED BY <1>3, <2>1, <2>2, <2>3, DivModUnique
<1>. QED BY <1>2, <1>5, <1>6 DEF IsPairOf

\* The fills and drains of t row blocks from rowBase on.
AFilled(a, rowBase, t) ==
    \A i \in Shims :
        /\ IsList(a[i]) /\ Len(a[i]) = t * design.Reps * design.KSteps
        /\ \A e \in 1 .. t * design.Reps * design.KSteps :
              a[i][e] = <<dispatch,
                          (rowBase + (e - 1) \div (design.Reps * design.KSteps)) * n_shim_mem_A + i,
                          (e - 1) % design.KSteps>>
BFilled(b, t) ==
    \A c \in Cols :
        /\ IsList(b[c]) /\ Len(b[c]) = t * design.Reps * design.KSteps
        /\ \A e \in 1 .. t * design.Reps * design.KSteps :
              b[c][e] = <<dispatch,
                          c + design.n_aie_cols * (((e - 1) \div design.KSteps) % design.Reps),
                          (e - 1) % design.KSteps>>
CDrained(s, rowBase, t) ==
    \A c \in Cols :
        /\ IsList(s[c]) /\ Len(s[c]) = t * design.Reps
        /\ \A j \in 1 .. t * design.Reps :
              s[c][j] = <<rowBase + (j - 1) \div design.Reps,
                          c + design.n_aie_cols * ((j - 1) % design.Reps)>>

\* What a row of cores gets of a fill of a row block.
LEMMA RowOfFill ==
    ASSUME Shape, NEW r \in Rows, NEW d, NEW row \in Nat, NEW k
    PROVE  ATile(r, <<d, row * n_shim_mem_A + ShimOf(r), k>>) = <<d, row * design.n_aie_rows + r, k>>
<1>1. PICK S, T, R : S = n_shim_mem_A /\ T = n_A_tiles_per_shim /\ R = design.n_aie_rows
  OBVIOUS
<1>2. S \in Nat /\ T \in Nat /\ S * T = R
  BY <1>1, ShimsSplitRows DEF Positive
<1>3. PICK i : i = ShimOf(r)
  OBVIOUS
<1>4. i \in Int /\ r \in Int
  BY <1>3, ShimsSplitRows, DesignTypes DEF Shims, Rows, Positive
<1>5. ATile(r, <<d, row * S + i, k>>) = <<d, (row * S + i) * T + (r - i * T), k>>
  BY <1>1, <1>3 DEF ATile
<1>6. (row * S + i) * T + (r - i * T) = row * R + r
  <2>1. (row * S + i) * T = row * (S * T) + i * T /\ i * T \in Int /\ row * R \in Int
    BY <1>2, <1>4
  <2>. QED BY <1>2, <1>4, <2>1
<1>. QED BY <1>1, <1>3, <1>5, <1>6

\* A tile of row block q and repetition k, and every tile is one.
LEMMA TileOfBlock ==
    ASSUME NEW R \in Nat \ {0}, NEW M \in Nat \ {0}, NEW q \in 0 .. M - 1, NEW r \in 0 .. R - 1
    PROVE  q * R + r \in 0 .. M * R - 1 /\ q * R \in Nat /\ M * R \in Nat /\ R * q = q * R
<1>1. q * R <= (M - 1) * R /\ (M - 1) * R = M * R - R /\ q * R \in Int /\ M * R \in Nat
  BY Monotone
<1>2. 0 * R <= q * R /\ 0 * R = 0
  BY Monotone
<1>. QED BY <1>1, <1>2

IsInBlock(i, k, l, R) == \E q \in k .. l - 1, r \in 0 .. R - 1 : i = q * R + r

\* A tile of row blocks k to l is a tile of one of them.
LEMMA BlockOfTile ==
    ASSUME NEW R \in Nat \ {0}, NEW k \in Nat, NEW l \in Nat, NEW i \in Nat,
           k * R <= i, i < l * R
    PROVE  IsInBlock(i, k, l, R)
<1>1. PICK q, r : q = i \div R /\ r = i % R
  OBVIOUS
<1>2. q \in Int /\ r \in 0 .. R - 1 /\ i = R * q + r
  BY <1>1, DivMod
<1>3. R * q = q * R /\ q * R \in Int /\ (q + 1) * R = q * R + R /\ q + 1 \in Int
  BY <1>2
<1>4. k * R \in Int /\ l * R \in Int
  OBVIOUS
<1>5. q + 1 <= k => (q + 1) * R <= k * R
  BY <1>3, Monotone
<1>6. l <= q => l * R <= q * R
  BY <1>2, Monotone
<1>7. q \in k .. l - 1
  <2>1. PICK u, v, w : u = q * R /\ v = k * R /\ w = l * R
    OBVIOUS
  <2>. QED BY <1>2, <1>3, <1>4, <1>5, <1>6, <2>1
<1>. QED BY <1>2, <1>3, <1>7 DEF IsInBlock

\* The fills and the drains of t row blocks make a group: for each block drained, the
\* tiles that its product is made of.
LEMMA GroupFills ==
    ASSUME Shape, NEW a, NEW b, NEW s, NEW rowBase \in Nat, NEW t \in Nat \ {0},
           rowBase + t <= design.RowBlocks,
           AFilled(a, rowBase, t), BFilled(b, t), CDrained(s, rowBase, t)
    PROVE  /\ GroupOf(a, b, s, t * design.Reps)
           /\ GroupCovers(s, t * design.Reps, rowBase, rowBase + t)
<1>1. PICK K \in Nat \ {0}, Reps \in Nat \ {0}, R \in Nat \ {0}, C \in Nat \ {0}, M \in Nat \ {0} :
          /\ design.KSteps = K /\ design.Reps = Reps /\ design.RowBlocks = M
          /\ design.n_aie_rows = R /\ design.n_aie_cols = C
  BY DesignTypes DEF Positive
<1>2. Rows = 0 .. R - 1 /\ Cols = 0 .. C - 1 /\ Tiles = (0 .. M * R - 1) \X (0 .. Reps * C - 1)
  BY <1>1 DEF Rows, Cols, Tiles
<1>3. PICK n : n = t * Reps
  OBVIOUS
<1>4. n \in Nat /\ rowBase + t <= M
  BY <1>1, <1>3
<1>5. ASSUME NEW c \in Cols, NEW r \in Rows, NEW j \in 1 .. n
      PROVE  /\ BlockTile(s[c][j], r) \in Tiles
             /\ FedBy(a, b, r, c, j) = Product(dispatch, BlockTile(s[c][j], r))
  <2>1. PICK q, k : q = (j - 1) \div Reps /\ k = (j - 1) % Reps
    OBVIOUS
  <2>2. q \in 0 .. t - 1 /\ k \in 0 .. Reps - 1
    BY <1>3, <2>1, BlockInGroup
  <2>3. BlockTile(s[c][j], r) = <<(rowBase + q) * R + r, c + C * k>>
    <3>1. j \in 1 .. t * design.Reps
      BY <1>1, <1>3
    <3>2. s[c][j] = <<rowBase + q, c + C * k>>
      BY <1>1, <2>1, <3>1 DEF CDrained
    <3>. QED BY <1>1, <3>2 DEF BlockTile
  <2>4. <<(rowBase + q) * R + r, c + C * k>> \in Tiles
    <3>1. rowBase + q \in 0 .. M - 1
      BY <1>4, <2>2
    <3>2. (rowBase + q) * R + r \in 0 .. M * R - 1
      BY <1>2, <3>1, TileOfBlock
    <3>3. k * C + c \in 0 .. Reps * C - 1 /\ C * k = k * C /\ k * C \in Nat
      BY <1>2, <2>2, TileOfBlock
    <3>4. c + C * k \in 0 .. Reps * C - 1
      BY <1>2, <3>3
    <3>. QED BY <1>2, <3>2, <3>4
  <2>5. ASSUME NEW e \in 1 .. K
        PROVE  <<ATile(r, a[ShimOf(r)][(j - 1) * K + e]), b[c][(j - 1) * K + e]>>
                   = <<<<dispatch, (rowBase + q) * R + r, e - 1>>, <<dispatch, c + C * k, e - 1>>>>
    <3>1. PICK p : p = (j - 1) * K + e
      OBVIOUS
    <3>2. /\ p \in 1 .. t * Reps * K /\ (p - 1) % K = e - 1
          /\ ((p - 1) \div K) % Reps = k /\ (p - 1) \div (Reps * K) = q
      <4>1. j \in 1 .. t * Reps
        BY <1>3
      <4>2. /\ p \in 1 .. t * Reps * K /\ (p - 1) % K = e - 1
            /\ (p - 1) \div K = j - 1 /\ (p - 1) \div (Reps * K) = (j - 1) \div Reps
        <5>1. IsPairOf(p, e, j, t, Reps, K)
          BY <3>1, <4>1, PairInGroup
        <5>. QED BY <5>1 DEF IsPairOf
      <4>. QED BY <2>1, <4>2, Zenon
    <3>3. ShimOf(r) \in Shims
      BY ShimsSplitRows
    <3>4. a[ShimOf(r)][p] = <<dispatch, (rowBase + q) * n_shim_mem_A + ShimOf(r), e - 1>>
      BY <1>1, <3>2, <3>3 DEF AFilled
    <3>5. b[c][p] = <<dispatch, c + C * k, e - 1>>
      BY <1>1, <3>2 DEF BFilled
    <3>6. PICK w, x : w = rowBase + q /\ x = e - 1
      OBVIOUS
    <3>8. w \in Nat /\ a[ShimOf(r)][p] = <<dispatch, w * n_shim_mem_A + ShimOf(r), x>>
      BY <2>2, <3>4, <3>6
    <3>9. ATile(r, a[ShimOf(r)][p]) = <<dispatch, w * design.n_aie_rows + r, x>>
      BY <3>8, RowOfFill
    <3>7. ATile(r, a[ShimOf(r)][p]) = <<dispatch, (rowBase + q) * R + r, e - 1>>
      BY <1>1, <3>6, <3>9
    <3>. QED BY <3>1, <3>5, <3>7
  <2>6. FedBy(a, b, r, c, j) = [e \in 1 .. K |->
            <<<<dispatch, (rowBase + q) * R + r, e - 1>>, <<dispatch, c + C * k, e - 1>>>>]
    BY <1>1, <2>5 DEF FedBy
  <2>7. FedBy(a, b, r, c, j) = Product(dispatch, <<(rowBase + q) * R + r, c + C * k>>)
    BY <1>1, <2>6 DEF Product
  <2>. QED BY <2>3, <2>4, <2>7
<1>6. GroupOf(a, b, s, t * design.Reps)
  BY <1>1, <1>3, <1>5 DEF GroupOf, AFilled, BFilled, CDrained
<1>7. ASSUME NEW tile \in Tiles, rowBase * R <= tile[1], tile[1] < (rowBase + t) * R
      PROVE  \E c \in Cols, r \in Rows : \E j \in 1 .. n : BlockTile(s[c][j], r) = tile
  <2>1. PICK x, y : tile = <<x, y>> /\ x \in Nat /\ y \in 0 .. Reps * C - 1
    BY <1>2
  <2>2. PICK q \in rowBase .. rowBase + t - 1, r \in 0 .. R - 1 : x = q * R + r
    <3>1. PICK l : l = rowBase + t
      OBVIOUS
    <3>2. rowBase * R <= x /\ x < l * R /\ l \in Nat
      BY <1>7, <2>1, <3>1
    <3>3. IsInBlock(x, rowBase, l, R)
      BY <2>1, <3>2, BlockOfTile
    <3>. QED BY <3>1, <3>3 DEF IsInBlock
  <2>3. PICK k \in 0 .. Reps - 1, c \in 0 .. C - 1 : y = k * C + c
    <3>1. PICK z : z = 0
      OBVIOUS
    <3>2. z * C <= y /\ y < Reps * C /\ y \in Nat /\ z \in Nat
      <4>1. 0 * C = 0 /\ Reps * C \in Int
        OBVIOUS
      <4>. QED BY <2>1, <3>1, <4>1
    <3>3. IsInBlock(y, z, Reps, C)
      BY <3>2, BlockOfTile
    <3>. QED BY <3>1, <3>3 DEF IsInBlock
  <2>4. PICK i, j : i = q - rowBase /\ j = i * Reps + k + 1
    OBVIOUS
  <2>5. i \in 0 .. t - 1 /\ i * Reps + k \in 0 .. t * Reps - 1 /\ i * Reps \in Nat /\ Reps * i = i * Reps
    <3>1. i \in 0 .. t - 1
      BY <2>2, <2>4
    <3>. QED BY <3>1, TileOfBlock
  <2>6. j \in 1 .. n /\ j - 1 = Reps * i + k
    BY <1>3, <1>4, <2>3, <2>4, <2>5
  <2>7. (j - 1) \div Reps = i /\ (j - 1) % Reps = k
    <3>1. PICK l : l = j - 1
      OBVIOUS
    <3>2. l = Reps * i + k /\ i \in Int
      BY <2>5, <2>6, <3>1
    <3>3. l \div Reps = i /\ l % Reps = k
      BY <3>2, DivModUnique
    <3>. QED BY <3>1, <3>3
  <2>8. c \in Cols /\ r \in Rows
    BY <1>2
  <2>9. s[c][j] = <<rowBase + i, c + C * k>>
    BY <1>1, <1>3, <2>6, <2>7, <2>8 DEF CDrained
  <2>10. BlockTile(s[c][j], r) = <<q * R + r, k * C + c>>
    <3>1. rowBase + i = q /\ c + C * k = k * C + c
      BY <2>2, <2>4
    <3>. QED BY <1>1, <2>9, <3>1 DEF BlockTile
  <2>. QED BY <2>1, <2>2, <2>3, <2>6, <2>8, <2>10
<1>. QED BY <1>1, <1>3, <1>6, <1>7 DEF GroupCovers

-----------------------------------------------------------------------------
(* The sequence of WholeArray *)

\* The transfer blocks fit: half a block, what a drain of C covers, divides the row blocks.
Regular ==
    /\ design.tb_max_n_rows % 2 = 0
    /\ design.RowBlocks % tb_n_rows = 0
    /\ design.c_col_maj => design.tb_max_n_rows = 2

\* With t row blocks to a drain and G drains.
IsRegular(t, G) ==
    /\ tb_n_rows = t /\ DrainRows = t /\ Groups = G /\ design.RowBlocks = G * t
    /\ Iterations \in Nat /\ G <= Iterations
    /\ iter \in Nat => RowBase = iter * t
    /\ iter \in 0 .. G - 1 => GroupRows = t

\* The tiling of a fitting transfer block: G groups of t row blocks.
LEMMA RegularShape ==
    ASSUME Shape, Regular
    PROVE  \E t, G \in Nat \ {0} : IsRegular(t, G)
<1>1. PICK T \in Nat \ {0}, M \in Nat \ {0} : design.tb_max_n_rows = T /\ design.RowBlocks = M
  BY DesignTypes DEF Positive
<1>2. PICK t, G : t = T \div 2 /\ G = M \div t
  OBVIOUS
<1>3. t \in Nat \ {0} /\ T = 2 * t
  BY <1>1, <1>2 DEF Regular
<1>4. tb_n_rows = t /\ M % t = 0
  BY <1>1, <1>2 DEF Regular, tb_n_rows
<1>5. G \in Int /\ M = t * G
  <2>1. M \div t \in Int /\ M = t * (M \div t) + (M % t)
    BY <1>3, DivMod
  <2>2. PICK m : m = t * G
    OBVIOUS
  <2>3. G \in Int /\ M = m + 0 /\ m \in Int
    BY <1>2, <1>3, <1>4, <2>1, <2>2
  <2>. QED BY <2>2, <2>3
<1>6. G \in Nat \ {0} /\ M = G * t
  <2>1. G <= 0 => G * t <= 0 * t
    BY <1>3, <1>5, Monotone
  <2>2. 0 * t = 0 /\ t * G = G * t
    BY <1>3, <1>5
  <2>. QED BY <1>5, <2>1, <2>2
<1>7. DrainRows = t /\ Groups = G
  <2>1. design.c_col_maj => t = 1
    BY <1>1, <1>2 DEF Regular
  <2>2. DrainRows = t
    BY <1>4, <2>1 DEF DrainRows
  <2>. QED BY <1>1, <1>2, <2>2 DEF Groups
<1>8. Iterations \in Nat /\ G <= Iterations
  <2>1. PICK x, y : x = M + T - 1 /\ y = x \div T
    OBVIOUS
  <2>2. x \in Nat
    BY <2>1
  <2>3. y \in Int /\ x % T \in 0 .. T - 1 /\ x = T * y + (x % T)
    BY <2>1, <2>2, DivMod
  <2>4. T * y >= M /\ T * y \in Int
    BY <2>1, <2>3
  <2>5. T * y = (2 * y) * t
    BY <1>3, <2>3
  <2>6. G * t <= (2 * y) * t
    BY <1>6, <2>4, <2>5
  <2>7. G <= 2 * y
    BY <1>3, <1>6, <2>3, <2>6, Monotone
  <2>8. Iterations = 2 * y
    BY <1>1, <2>1 DEF Iterations
  <2>. QED BY <1>6, <2>3, <2>7, <2>8
<1>9. ASSUME iter \in Nat PROVE RowBase = iter * t
  <2>1. PICK h, l : h = iter \div 2 /\ l = iter % 2
    OBVIOUS
  <2>2. h \in Nat /\ l \in 0 .. 1 /\ iter = 2 * h + l
    BY <1>9, <2>1
  <2>3. (l * T) \div 2 = l * t
    BY <1>3, <2>2
  <2>4. RowBase = h * T + l * t
    BY <1>1, <2>1, <2>3 DEF RowBase
  <2>5. h * T = (2 * h) * t /\ (2 * h + l) * t = (2 * h) * t + l * t
    BY <1>3, <2>2
  <2>. QED BY <2>2, <2>4, <2>5
<1>10. ASSUME iter \in 0 .. G - 1 PROVE GroupRows = t
  <2>1. RowBase = iter * t /\ iter * t \in Int
    BY <1>3, <1>6, <1>9, <1>10
  <2>2. (iter + 1) * t <= G * t /\ (iter + 1) * t = iter * t + t
    BY <1>3, <1>6, <1>10, Monotone
  <2>3. t <= M - RowBase /\ M - RowBase \in Int
    <3>1. PICK u, v, w : u = iter * t /\ v = G * t /\ w = (iter + 1) * t
      OBVIOUS
    <3>. QED BY <1>3, <1>6, <2>1, <2>2, <3>1
  <2>. QED BY <1>1, <1>3, <1>4, <2>3 DEF GroupRows
<1>. QED BY <1>1, <1>3, <1>4, <1>6, <1>7, <1>8, <1>9, <1>10 DEF IsRegular

\* What Issue issues.
LEMMA TapsFill ==
    ASSUME Shape, NEW t \in Nat \ {0}, NEW rowBase \in Nat, rowBase + t <= design.RowBlocks
    PROVE  /\ AFilled([i \in Shims |-> AFills(dispatch, rowBase, t, i)], rowBase, t)
           /\ BFilled([c \in Cols |-> BFills(dispatch, t, c)], t)
<1>1. PICK K \in Nat \ {0}, Reps \in Nat \ {0}, M \in Nat \ {0}, S \in Nat \ {0} :
          design.KSteps = K /\ design.Reps = Reps /\ design.RowBlocks = M /\ n_shim_mem_A = S
  BY DesignTypes, ShimsSplitRows DEF Positive
<1>2. PICK W, n : W = Reps * K /\ n = t * Reps * K
  OBVIOUS
<1>3. W \in Nat \ {0} /\ n \in Nat /\ n = t * W
  <2>1. 1 * K <= Reps * K /\ 1 * K = K /\ W \in Nat
    BY <1>2, Monotone
  <2>. QED BY <1>2, <2>1
<1>4. ASSUME NEW i \in Shims, NEW e \in 1 .. n
      PROVE  ARowTile(dispatch, rowBase, i, e) =
                 <<dispatch, (rowBase + (e - 1) \div W) * S + i, (e - 1) % K>>
  <2>1. PICK q, row, x : q = (e - 1) \div W /\ row = rowBase + q /\ x = row * S + i
    OBVIOUS
  <2>2. q \in 0 .. t - 1
    BY <1>3, <2>1, BlockInGroup
  <2>3. row \in 0 .. M - 1
    BY <1>1, <2>1, <2>2
  <2>4. i \in 0 .. S - 1
    BY <1>1 DEF Shims
  <2>5. x \in 0 .. M * S - 1 /\ M * S \in Nat
    BY <2>1, <2>3, <2>4, TileOfBlock
  <2>6. x % (M * S) = x
    <3>1. PICK b : b = M * S
      OBVIOUS
    <3>. QED BY <2>5, <3>1
  <2>. QED BY <1>1, <1>2, <2>1, <2>6 DEF ARowTile
<1>5. AFilled([i \in Shims |-> AFills(dispatch, rowBase, t, i)], rowBase, t)
  <2>1. ASSUME NEW i \in Shims
        PROVE  /\ IsList(AFills(dispatch, rowBase, t, i)) /\ Len(AFills(dispatch, rowBase, t, i)) = n
               /\ \A e \in 1 .. n : AFills(dispatch, rowBase, t, i)[e] =
                     <<dispatch, (rowBase + (e - 1) \div W) * S + i, (e - 1) % K>>
    <3>1. AFills(dispatch, rowBase, t, i) = [e \in 1 .. n |-> ARowTile(dispatch, rowBase, i, e)]
      BY <1>1, <1>2 DEF AFills
    <3>2. IsList([e \in 1 .. n |-> ARowTile(dispatch, rowBase, i, e)])
          /\ Len([e \in 1 .. n |-> ARowTile(dispatch, rowBase, i, e)]) = n
      BY <1>3 DEF IsList
    <3>. QED BY <1>4, <3>1, <3>2
  <2>. QED BY <1>1, <1>2, <2>1 DEF AFilled
<1>6. BFilled([c \in Cols |-> BFills(dispatch, t, c)], t)
  <2>1. ASSUME NEW c \in Cols
        PROVE  /\ IsList(BFills(dispatch, t, c)) /\ Len(BFills(dispatch, t, c)) = n
               /\ \A e \in 1 .. n : BFills(dispatch, t, c)[e] =
                     <<dispatch, c + design.n_aie_cols * (((e - 1) \div K) % Reps), (e - 1) % K>>
    <3>1. BFills(dispatch, t, c) = [e \in 1 .. n |->
              <<dispatch, c + design.n_aie_cols * (((e - 1) \div K) % Reps), (e - 1) % K>>]
      BY <1>1, <1>2 DEF BFills
    <3>. QED BY <1>3, <3>1 DEF IsList
  <2>. QED BY <1>1, <1>2, <2>1 DEF BFilled
<1>. QED BY <1>5, <1>6

\* What an iteration drains.
LEMMA TapsDrain ==
    ASSUME Shape, NEW t \in Nat \ {0}, DrainRows = t, NEW g \in Nat
    PROVE  CDrained([c \in Cols |-> CDrains(g, c)], g * t, t)
<1>1. PICK Reps \in Nat \ {0} : design.Reps = Reps
  BY DesignTypes DEF Positive
<1>2. PICK n : n = t * Reps
  OBVIOUS
<1>3. n \in Nat
  BY <1>2
<1>4. ASSUME NEW c \in Cols
      PROVE  /\ IsList(CDrains(g, c)) /\ Len(CDrains(g, c)) = n
             /\ \A e \in 1 .. n : CDrains(g, c)[e] =
                   <<g * t + (e - 1) \div Reps, c + design.n_aie_cols * ((e - 1) % Reps)>>
  <2>1. CDrains(g, c) = [e \in 1 .. n |->
            <<g * t + (e - 1) \div Reps, c + design.n_aie_cols * ((e - 1) % Reps)>>]
    BY <1>1, <1>2 DEF CDrains
  <2>. QED BY <1>3, <2>1 DEF IsList
<1>. QED BY <1>1, <1>2, <1>4 DEF CDrained

-----------------------------------------------------------------------------
(* The inductive invariant of WholeArray *)

\* The sequence: how many drains each column has been given is what its loop counts,
\* and what is not in a task group has been finished, which is when it was all drained.
Phases ==
    /\ iter \in Nat /\ groups \in 0 .. Groups /\ waiting \in BOOLEAN
    /\ waiting => Running /\ groups = iter + 1
    /\ ~waiting => groups = IF iter < Groups THEN iter ELSE Groups

InFlight ==
    /\ tgs = <<>> \/ tgs = <<Ends(streamA, streamB, streamC)>>
    /\ waiting => tgs # <<>>
    /\ ~Running => tgs = <<>>
    /\ tgs = <<>> => /\ freed = Ends(streamA, streamB, streamC)
                     /\ \A c \in Cols : drained[c] = Len(streamC[c])

\* What the task groups finished so far had filled has been used.
FreedUsed ==
    \A r \in Rows, c \in Cols :
        /\ freed.A[ShimOf(r)] \in Int /\ used[<<r, c>>] >= freed.A[ShimOf(r)]
        /\ freed.B[c] \in Int /\ used[<<r, c>>] >= freed.B[c]

\* What the dispatch has stored or has been told to.
Covered == Running => Covers(groups * DrainRows)

HostInv == Phases /\ InFlight /\ FreedUsed /\ Covered
IInv == ArrayInv /\ dispatch <= Dispatches /\ Regular /\ HostInv

\* The ends of the streams.
LEMMA EndsParts ==
    ASSUME NEW a, NEW b, NEW c
    PROVE  /\ \A i \in Shims : Ends(a, b, c).A[i] = Len(a[i])
           /\ \A k \in Cols : Ends(a, b, c).B[k] = Len(b[k]) /\ Ends(a, b, c).C[k] = Len(c[k])
BY DEF Ends

\* When all drains are done, all fills have been used, and nothing is in the FIFOs of C.
LEMMA DrainedMeansUsed ==
    ASSUME ArrayInv, \A c \in Cols : drained[c] >= Len(streamC[c])
    PROVE  /\ \A c \in Cols : drained[c] = Len(streamC[c])
           /\ \A r \in Rows, c \in Cols :
                 /\ used[<<r, c>>] >= Len(streamA[ShimOf(r)]) /\ used[<<r, c>>] >= Len(streamB[c])
                 /\ sentC[<<r, c>>] = Len(results[<<r, c>>])
<1>1. PICK K \in Nat \ {0}, I \in Nat : design.KSteps = K /\ Issued = I
  <2>1. design.KSteps \in Nat \ {0} /\ 0 \in Cols
    BY DesignTypes DEF ArrayInv, Cols, Positive
  <2>2. Issued \in Nat
    BY <2>1 DEF ArrayInv, Types, IsList, Issued
  <2>. QED BY <2>1, <2>2
<1>2. /\ \A i \in Shims : Len(streamA[i]) = I * K
      /\ \A c \in Cols : Len(streamB[c]) = I * K /\ Len(streamC[c]) = I
      /\ \A r \in Rows : ShimOf(r) \in Shims
      /\ I * K \in Nat
  BY <1>1, ShimsSplitRows DEF ArrayInv, Matched
<1>3. \A c \in Cols : drained[c] = I
  BY <1>2 DEF ArrayInv, Fifos, Types
<1>4. ASSUME NEW r \in Rows, NEW c \in Cols
      PROVE  used[<<r, c>>] >= I * K /\ sentC[<<r, c>>] = Len(results[<<r, c>>])
  <2>1. PICK x : x = <<r, c>>
    OBVIOUS
  <2>2. PICK N, u, k : N = Len(results[x]) /\ u = used[x] /\ k = sentC[x]
    OBVIOUS
  <2>3. x \in Cores /\ N \in Nat /\ u \in Nat /\ k \in Nat /\ Len(acc[x]) \in Nat
    BY <2>1, <2>2, CoreParts DEF ArrayInv, Types, IsList
  <2>4. I <= k /\ k <= N
    BY <1>3, <2>1, <2>2 DEF ArrayInv, Fifos
  <2>5. N * K <= u /\ N * K \in Nat
    <3>1. N * K \in Nat
      BY <2>3
    <3>2. u = N * K + (IF holds[x] THEN Len(acc[x]) ELSE 0)
      BY <1>1, <2>1, <2>2 DEF ArrayInv, Summed, SummedAt
    <3>3. PICK v, w : v = N * K /\ w = IF holds[x] THEN Len(acc[x]) ELSE 0
      OBVIOUS
    <3>4. u = v + w /\ w \in Nat /\ v \in Nat
      BY <2>3, <3>1, <3>2, <3>3
    <3>. QED BY <3>1, <3>3, <3>4
  <2>6. u <= I * K
    <3>1. /\ u <= sentA[r] /\ sentA[r] <= filledA[ShimOf(r)] /\ filledA[ShimOf(r)] <= I * K
          /\ sentA[r] \in Nat /\ filledA[ShimOf(r)] \in Nat
      BY <1>2, <2>1, <2>2 DEF ArrayInv, Fifos, Types
    <3>. QED BY <1>2, <2>3, <3>1
  <2>7. N * K <= I * K
    BY <1>2, <2>3, <2>5, <2>6
  <2>8. N <= I
    BY <2>3, <2>7, Monotone
  <2>9. N = I /\ k = N
    BY <2>3, <2>4, <2>8
  <2>. QED BY <2>1, <2>2, <2>5, <2>9
<1>. QED BY <1>2, <1>3, <1>4

\* No core and no drain goes back.
LEMMA ArrayAhead ==
    ASSUME ArrayInv, Array
    PROVE  /\ \A c \in Cols : drained[c] \in Nat /\ drained'[c] \in Nat /\ drained[c] <= drained'[c]
           /\ \A r \in Rows, c \in Cols :
                 /\ used[<<r, c>>] \in Nat /\ used'[<<r, c>>] \in Nat
                 /\ used[<<r, c>>] <= used'[<<r, c>>]
<1>1. drained \in [Cols -> Nat] /\ used \in [Cores -> Nat]
  BY DEF ArrayInv, Types
<1>2. \/ UNCHANGED drained
      \/ \E c \in Cols : drained' = [drained EXCEPT ![c] = drained[c] + 1]
  <2>1. ASSUME NEW c \in Cols, Drain(c) PROVE drained' = [drained EXCEPT ![c] = drained[c] + 1]
    BY <2>1 DEF Drain
  <2>. QED BY <2>1 DEF Array, FillA, FillB, SendA, SendB, SendC, Acquire, MatMul, moved
<1>3. \/ UNCHANGED used
      \/ \E x \in Cores : used' = [used EXCEPT ![x] = used[x] + 1]
  <2>1. ASSUME NEW x \in Cores, MatMul(x) PROVE used' = [used EXCEPT ![x] = used[x] + 1]
    BY <2>1 DEF MatMul
  <2>. QED BY <2>1 DEF Array, FillA, FillB, SendA, SendB, SendC, Acquire, Drain, coreVars
<1>4. \A c \in Cols : drained[c] \in Nat /\ drained'[c] \in Nat /\ drained[c] <= drained'[c]
  BY <1>1, <1>2
<1>5. \A x \in Cores : used[x] \in Nat /\ used'[x] \in Nat /\ used[x] <= used'[x]
  BY <1>1, <1>3
<1>. QED BY <1>4, <1>5, CoreParts

\* What the sequence does to its own state leaves the array as it is.
LEMMA ArrayInvKept ==
    ASSUME ArrayInv, UNCHANGED <<design, dispatch, completed, streams, moved, coreVars, mem>>
    PROVE  ArrayInv' /\ \A n : Covers(n) => Covers(n)'
<1>1. Rows' = Rows /\ Cols' = Cols /\ Shims' = Shims /\ \A r : ShimOf(r)' = ShimOf(r)
  BY DesignKept
<1>2. /\ UNCHANGED <<design, streamA, streamB, streamC, filledA, filledB, sentA, sentB, sentC,
                     drained, used, holds, acc, results, mem, dispatch, completed>>
      /\ UNCHANGED <<design, streams>> /\ UNCHANGED <<design, streamA, streamB, coreVars>>
      /\ UNCHANGED <<design, dispatch, streams, drained>>
      /\ UNCHANGED <<design, dispatch, completed, mem>>
      /\ UNCHANGED <<design, dispatch, streams, drained, mem>>
  BY DEF streams, moved, coreVars
<1>3. Shape' /\ Matched' /\ Aligned' /\ Memory' /\ Summed'
  BY <1>2, DesignKept, MatchedKept, AlignedKept, MemoryKept, SummedKept DEF ArrayInv
<1>4. Counts' /\ Quiet'
  BY <1>1, <1>2 DEF ArrayInv, Counts, Quiet, Running
<1>5. Types'
  BY <1>2, TypesKept DEF ArrayInv, Types
<1>6. Fifos'
  BY <1>1, <1>2 DEF ArrayInv, Fifos
<1>7. \A n : Covers(n) => Covers(n)'
  BY <1>2, CoversKept
<1>. QED BY <1>3, <1>4, <1>5, <1>6, <1>7 DEF ArrayInv

\* The tiling depends on the design only.
LEMMA ShapesKept ==
    ASSUME UNCHANGED design
    PROVE  /\ Groups' = Groups /\ DrainRows' = DrainRows /\ Regular' = Regular
           /\ \A a, b, c : Ends(a, b, c)' = Ends(a, b, c)
<1>1. design' = design
  OBVIOUS
<1>2. Groups' = Groups /\ DrainRows' = DrainRows /\ Regular' = Regular
  BY <1>1 DEF Groups, DrainRows, Regular, tb_n_rows
<1>3. \A a, b, c : Ends(a, b, c)' = Ends(a, b, c)
  BY DesignKept DEF Ends
<1>. QED BY <1>2, <1>3

\* Steps of the array.
LEMMA ArrayIInv ==
    ASSUME IInv, Array
    PROVE  IInv'
<1>1. /\ ArrayInv' /\ (\A n : Covers(n) => Covers(n)')
      /\ UNCHANGED <<design, sequenceVars, streams>>
  BY ArrayStep DEF IInv
<1>2. /\ UNCHANGED <<design, dispatch, completed, iter, groups, waiting, tgs, freed,
                     streamA, streamB, streamC>>
  BY <1>1 DEF sequenceVars, streams
<1>3. /\ Groups' = Groups /\ DrainRows' = DrainRows /\ Regular' = Regular
      /\ \A a, b, c : Ends(a, b, c)' = Ends(a, b, c)
      /\ Rows' = Rows /\ Cols' = Cols /\ \A r : ShimOf(r)' = ShimOf(r)
  BY <1>2, ShapesKept, DesignKept
<1>4. Phases'
  BY <1>2, <1>3 DEF IInv, HostInv, Phases, Running
<1>5. InFlight'
  <2>1. ASSUME tgs = <<>>, NEW c \in Cols PROVE drained'[c] = Len(streamC[c])
    <3>1. drained[c] = Len(streamC[c]) /\ drained'[c] <= Len(streamC[c])
      BY <1>1, <1>2, <1>3, <2>1 DEF IInv, HostInv, InFlight, ArrayInv, Fifos
    <3>2. drained[c] \in Nat /\ drained'[c] \in Nat /\ drained[c] <= drained'[c]
      BY ArrayAhead DEF IInv
    <3>. QED BY <3>1, <3>2
  <2>. QED BY <1>2, <1>3, <2>1 DEF IInv, HostInv, InFlight, Running
<1>6. FreedUsed'
  <2>1. ASSUME NEW r \in Rows, NEW c \in Cols
        PROVE  /\ freed.A[ShimOf(r)] \in Int /\ used'[<<r, c>>] >= freed.A[ShimOf(r)]
               /\ freed.B[c] \in Int /\ used'[<<r, c>>] >= freed.B[c]
    <3>1. used[<<r, c>>] \in Nat /\ used'[<<r, c>>] \in Nat /\ used[<<r, c>>] <= used'[<<r, c>>]
      BY ArrayAhead DEF IInv
    <3>2. /\ freed.A[ShimOf(r)] \in Int /\ used[<<r, c>>] >= freed.A[ShimOf(r)]
          /\ freed.B[c] \in Int /\ used[<<r, c>>] >= freed.B[c]
      BY DEF IInv, HostInv, FreedUsed
    <3>. QED BY <3>1, <3>2
  <2>. QED BY <1>2, <1>3, <2>1 DEF FreedUsed
<1>7. Covered'
  BY <1>1, <1>2, <1>3 DEF IInv, HostInv, Covered, Running
<1>. QED BY <1>1, <1>2, <1>3, <1>4, <1>5, <1>6, <1>7 DEF IInv, HostInv

\* A dispatch begins.
LEMMA BeginIInv ==
    ASSUME IInv, Begin
    PROVE  IInv'
<1>1. ArrayInv' /\ Covers(0)' /\ Running'
  BY BeginInv DEF IInv
<1>2. /\ ~Running /\ dispatch < Dispatches /\ dispatch' = dispatch + 1 /\ iter' = 0 /\ groups' = 0
      /\ UNCHANGED <<design, completed, waiting, tgs, freed, streamA, streamB, streamC, drained, used>>
  BY DEF Begin, streams, moved, coreVars
<1>3. /\ Groups' = Groups /\ DrainRows' = DrainRows /\ Regular' = Regular
      /\ \A a, b, c : Ends(a, b, c)' = Ends(a, b, c)
      /\ Rows' = Rows /\ Cols' = Cols /\ \A r : ShimOf(r)' = ShimOf(r)
  BY <1>2, ShapesKept, DesignKept
<1>4. PICK t, G \in Nat \ {0} : IsRegular(t, G)
  BY RegularShape DEF IInv, ArrayInv
<1>5. DrainRows = t /\ Groups = G
  BY <1>4 DEF IsRegular
<1>6. Phases'
  BY <1>2, <1>3, <1>5 DEF IInv, HostInv, Phases
<1>7. InFlight'
  BY <1>1, <1>2, <1>3 DEF IInv, HostInv, InFlight, Phases
<1>8. FreedUsed'
  BY <1>2, <1>3 DEF IInv, HostInv, FreedUsed
<1>9. Covered'
  <2>1. groups' * DrainRows' = 0
    BY <1>2, <1>3, <1>5
  <2>. QED BY <1>1, <2>1 DEF Covered
<1>10. dispatch' <= Dispatches
  BY <1>2, DispatchesAssumption DEF IInv, ArrayInv, Counts
<1>. QED BY <1>1, <1>3, <1>6, <1>7, <1>8, <1>9, <1>10 DEF IInv, HostInv, ArrayInv

\* An iteration beyond the last row block issues nothing.
LEMMA SkipIInv ==
    ASSUME IInv, Skip
    PROVE  IInv'
<1>1. /\ Running /\ ~waiting /\ groups >= Groups /\ iter' = iter + 1
      /\ UNCHANGED <<design, dispatch, completed, groups, waiting, tgs, freed>>
      /\ UNCHANGED <<design, dispatch, completed, streams, moved, coreVars, mem>>
      /\ UNCHANGED <<streamA, streamB, streamC, drained, used>>
  BY DEF Skip, streams, moved, coreVars
<1>2. ArrayInv' /\ \A n : Covers(n) => Covers(n)'
  BY <1>1, ArrayInvKept DEF IInv
<1>3. /\ Groups' = Groups /\ DrainRows' = DrainRows /\ Regular' = Regular
      /\ \A a, b, c : Ends(a, b, c)' = Ends(a, b, c)
      /\ Rows' = Rows /\ Cols' = Cols /\ \A r : ShimOf(r)' = ShimOf(r)
  BY <1>1, ShapesKept, DesignKept
<1>4. PICK t, G \in Nat \ {0} : IsRegular(t, G)
  BY RegularShape DEF IInv, ArrayInv
<1>5. Groups = G
  BY <1>4 DEF IsRegular
<1>6. Phases'
  BY <1>1, <1>3, <1>5 DEF IInv, HostInv, Phases
<1>7. InFlight'
  BY <1>1, <1>3 DEF IInv, HostInv, InFlight, Running
<1>8. FreedUsed' /\ Covered'
  BY <1>1, <1>2, <1>3 DEF IInv, HostInv, FreedUsed, Covered, Running
<1>. QED BY <1>1, <1>2, <1>3, <1>6, <1>7, <1>8 DEF IInv, HostInv

\* An iteration issues a drain and the fills of its rows: the next row blocks.
LEMMA IssueIInv ==
    ASSUME IInv, Issue
    PROVE  IInv'
<1> DEFINE a == [i \in Shims |-> AFills(dispatch, RowBase, GroupRows, i)]
           b == [c \in Cols |-> BFills(dispatch, GroupRows, c)]
           s == [c \in Cols |-> CDrains(groups, c)]
<1>1. /\ Running /\ ~waiting /\ iter < Iterations /\ groups < Groups
      /\ streamC' = [c \in Cols |-> streamC[c] \o CDrains(groups, c)]
      /\ streamA' = [i \in Shims |-> streamA[i] \o AFills(dispatch, RowBase, GroupRows, i)]
      /\ streamB' = [c \in Cols |-> streamB[c] \o BFills(dispatch, GroupRows, c)]
      /\ tgs' = <<Ends(streamA', streamB', streamC')>> /\ groups' = groups + 1
      /\ IF iter > 0 THEN waiting' = TRUE /\ UNCHANGED iter
                     ELSE iter' = iter + 1 /\ UNCHANGED waiting
      /\ UNCHANGED <<design, dispatch, completed, freed, moved, coreVars, mem, used, drained>>
      /\ UNCHANGED <<design, dispatch, completed, moved, coreVars, mem>>
  BY DEF Issue, moved, coreVars
<1>2. ArrayInv /\ Shape
  BY DEF IInv, ArrayInv
<1>3. /\ Groups' = Groups /\ DrainRows' = DrainRows /\ Regular' = Regular
      /\ \A x, y, z : Ends(x, y, z)' = Ends(x', y', z')
      /\ Rows' = Rows /\ Cols' = Cols /\ Shims' = Shims /\ \A r : ShimOf(r)' = ShimOf(r)
  BY <1>1, ShapesKept, DesignKept
<1>4. PICK t, G \in Nat \ {0} : IsRegular(t, G)
  BY <1>2, RegularShape DEF IInv
<1>5. /\ Groups = G /\ DrainRows = t /\ groups \in Nat /\ iter = groups /\ groups \in 0 .. G - 1
      /\ RowBase = groups * t /\ GroupRows = t /\ design.RowBlocks = G * t
  <2>1. /\ Groups = G /\ DrainRows = t /\ design.RowBlocks = G * t
        /\ iter \in Nat => RowBase = iter * t
        /\ iter \in 0 .. G - 1 => GroupRows = t
    BY <1>4 DEF IsRegular
  <2>2. iter \in Nat /\ groups \in 0 .. G /\ groups = (IF iter < G THEN iter ELSE G)
    BY <1>1, <2>1 DEF IInv, HostInv, Phases
  <2>3. groups < G
    BY <1>1, <2>1
  <2>4. iter = groups /\ groups \in 0 .. G - 1
    BY <2>2, <2>3
  <2>. QED BY <2>1, <2>2, <2>4
<1>6. PICK base, next : base = groups * t /\ next = (groups + 1) * t
  OBVIOUS
<1>7. base \in Nat /\ next = base + t /\ next <= design.RowBlocks /\ next \in Nat
  <2>1. (groups + 1) * t <= G * t /\ (groups + 1) * t = groups * t + t /\ groups * t \in Int
    BY <1>5, Monotone
  <2>2. 0 * t <= groups * t /\ 0 * t = 0
    BY <1>5, Monotone
  <2>. QED BY <1>5, <1>6, <2>1, <2>2
<1>8. AFilled(a, base, t) /\ BFilled(b, t) /\ CDrained(s, base, t)
  <2>1. /\ a = [i \in Shims |-> AFills(dispatch, base, t, i)]
        /\ b = [c \in Cols |-> BFills(dispatch, t, c)]
    BY <1>5, <1>6
  <2>. HIDE DEF a, b
  <2>2. base + t <= design.RowBlocks
    BY <1>7
  <2>3. CDrained(s, groups * t, t)
    BY <1>2, <1>5, TapsDrain
  <2>. HIDE DEF s
  <2>4. AFilled(a, base, t) /\ BFilled(b, t)
    BY <1>2, <1>7, <2>1, <2>2, TapsFill
  <2>. QED BY <1>6, <2>3, <2>4
<1>9. PICK n : n = t * design.Reps
  OBVIOUS
<1>10. n \in Nat
  BY <1>2, <1>9, DesignTypes DEF Positive
<1>11. Issues(a, b, s)
  BY <1>1 DEF Issues
<1>. HIDE DEF a, b, s
<1>12. GroupOf(a, b, s, n) /\ GroupCovers(s, n, base, next)
  <2>1. base + t <= design.RowBlocks
    BY <1>7
  <2>2. GroupOf(a, b, s, t * design.Reps) /\ GroupCovers(s, t * design.Reps, base, base + t)
    BY <1>2, <1>7, <1>8, <2>1, GroupFills
  <2>. QED BY <1>7, <1>9, <2>2
<1>13. ArrayInv' /\ (Covers(base) => Covers(next)')
  <2>1. ArrayInv' /\ AlsoCovers(s, n)
    BY <1>1, <1>2, <1>10, <1>11, <1>12, IssueInv
  <2>. QED BY <1>7, <1>12, <2>1 DEF AlsoCovers
<1>14. Phases'
  <2>1. Running'
    BY <1>1 DEF Running
  <2>2. CASE iter > 0
    <3>1. waiting' = TRUE /\ iter' = iter /\ groups' = groups + 1
      BY <1>1, <2>2
    <3>2. groups' \in 0 .. G /\ groups' = iter' + 1 /\ iter' \in Nat
      BY <1>5, <3>1
    <3>. QED BY <1>3, <1>5, <2>1, <3>1, <3>2 DEF Phases
  <2>3. CASE ~(iter > 0)
    <3>1. iter = 0 /\ groups = 0 /\ iter' = 1 /\ groups' = 1 /\ waiting' = FALSE
      BY <1>1, <1>5, <2>3 DEF IInv, HostInv, Phases
    <3>2. groups' = IF iter' < G THEN iter' ELSE G
      BY <3>1
    <3>3. groups' \in 0 .. G
      BY <3>1
    <3>. QED BY <1>3, <1>5, <3>1, <3>2, <3>3 DEF Phases
  <2>. QED BY <2>2, <2>3
<1>15. InFlight'
  <2>1. Running' /\ tgs' # <<>>
    BY <1>1 DEF Running
  <2>2. Ends(streamA, streamB, streamC)' = Ends(streamA', streamB', streamC')
    BY <1>3
  <2>. QED BY <1>1, <2>1, <2>2 DEF InFlight
<1>16. FreedUsed'
  BY <1>1, <1>3 DEF IInv, HostInv, FreedUsed
<1>17. Covered'
  <2>1. Covers(base)
    BY <1>1, <1>5, <1>6 DEF IInv, HostInv, Covered
  <2>2. groups' * DrainRows' = next
    BY <1>1, <1>3, <1>5, <1>6
  <2>. QED BY <1>13, <2>1, <2>2 DEF Covered
<1>. QED BY <1>1, <1>3, <1>13, <1>14, <1>15, <1>16, <1>17 DEF IInv, HostInv

\* finish() returns when the drains of all columns are done, and then all fills are used.
LEMMA FinishedGroup ==
    ASSUME IInv, tgs # <<>>, FinishOldest
    PROVE  /\ tgs' = <<>> /\ freed' = Ends(streamA, streamB, streamC)
           /\ \A c \in Cols : drained[c] = Len(streamC[c])
           /\ \A r \in Rows, c \in Cols :
                 /\ freed'.A[ShimOf(r)] \in Int /\ used[<<r, c>>] >= freed'.A[ShimOf(r)]
                 /\ freed'.B[c] \in Int /\ used[<<r, c>>] >= freed'.B[c]
<1>1. PICK e : e = Ends(streamA, streamB, streamC)
  OBVIOUS
<1>2. tgs = <<e>>
  BY <1>1 DEF IInv, HostInv, InFlight
<1>3. Head(tgs) = e /\ Tail(tgs) = <<>>
  BY <1>2
<1>4. /\ \A i \in Shims : e.A[i] = Len(streamA[i])
      /\ \A c \in Cols : e.B[c] = Len(streamB[c]) /\ e.C[c] = Len(streamC[c])
  BY <1>1, EndsParts
<1>5. tgs' = <<>> /\ freed' = e /\ \A c \in Cols : drained[c] >= Len(streamC[c])
  BY <1>3, <1>4 DEF FinishOldest, GroupDone
<1>6. /\ \A c \in Cols : drained[c] = Len(streamC[c])
      /\ \A r \in Rows, c \in Cols :
            used[<<r, c>>] >= Len(streamA[ShimOf(r)]) /\ used[<<r, c>>] >= Len(streamB[c])
  BY <1>5, DrainedMeansUsed DEF IInv
<1>7. /\ \A r \in Rows : ShimOf(r) \in Shims /\ Len(streamA[ShimOf(r)]) \in Int
      /\ \A c \in Cols : Len(streamB[c]) \in Int
  BY ShimsSplitRows DEF IInv, ArrayInv, Types, IsList
<1>. QED BY <1>1, <1>4, <1>5, <1>6, <1>7

\* finish() gives up a task group.
LEMMA FinishIInv ==
    ASSUME IInv, Finish
    PROVE  IInv'
<1>1. /\ Running /\ waiting /\ FinishOldest /\ waiting' = FALSE /\ iter' = iter + 1
      /\ UNCHANGED <<design, dispatch, completed, groups, streamA, streamB, streamC, drained, used>>
      /\ UNCHANGED <<design, dispatch, completed, streams, moved, coreVars, mem>>
  BY DEF Finish, FinishOldest, streams, moved, coreVars
<1>2. ArrayInv' /\ \A n : Covers(n) => Covers(n)'
  BY <1>1, ArrayInvKept DEF IInv
<1>3. /\ Groups' = Groups /\ DrainRows' = DrainRows /\ Regular' = Regular
      /\ \A a, b, c : Ends(a, b, c)' = Ends(a, b, c)
      /\ Rows' = Rows /\ Cols' = Cols /\ \A r : ShimOf(r)' = ShimOf(r)
  BY <1>1, ShapesKept, DesignKept
<1>4. /\ tgs' = <<>> /\ freed' = Ends(streamA, streamB, streamC)
      /\ \A c \in Cols : drained[c] = Len(streamC[c])
      /\ \A r \in Rows, c \in Cols :
            /\ freed'.A[ShimOf(r)] \in Int /\ used[<<r, c>>] >= freed'.A[ShimOf(r)]
            /\ freed'.B[c] \in Int /\ used[<<r, c>>] >= freed'.B[c]
  BY <1>1, FinishedGroup DEF IInv, HostInv, InFlight
<1>5. PICK t, G \in Nat \ {0} : IsRegular(t, G)
  BY RegularShape DEF IInv, ArrayInv
<1>6. Groups = G
  BY <1>5 DEF IsRegular
<1>7. Phases'
  <2>1. iter \in Nat /\ groups \in 0 .. G /\ groups = iter + 1
    BY <1>1, <1>6 DEF IInv, HostInv, Phases
  <2>2. groups = IF iter + 1 < G THEN iter + 1 ELSE G
    BY <2>1
  <2>3. /\ iter' \in Nat /\ groups' \in 0 .. G /\ waiting' = FALSE
        /\ groups' = IF iter' < G THEN iter' ELSE G
    BY <1>1, <2>1, <2>2
  <2>. QED BY <1>3, <1>6, <2>3 DEF Phases
<1>8. InFlight'
  BY <1>1, <1>3, <1>4 DEF InFlight, Running
<1>9. FreedUsed'
  BY <1>1, <1>3, <1>4 DEF FreedUsed
<1>10. Covered'
  BY <1>1, <1>2, <1>3 DEF IInv, HostInv, Covered, Running
<1>. QED BY <1>1, <1>2, <1>3, <1>7, <1>8, <1>9, <1>10 DEF IInv, HostInv

\* The dispatch is complete: everything it had to store has been stored.
LEMMA CompleteStores ==
    ASSUME IInv, Complete
    PROVE  /\ \A c \in Cols : drained[c] = Len(streamC[c])
           /\ \A tile \in Tiles : mem[Place(tile)] = Product(dispatch, tile)
           /\ tgs' = <<>> /\ freed' = Ends(streamA, streamB, streamC)
           /\ \A r \in Rows, c \in Cols :
                 /\ freed'.A[ShimOf(r)] \in Int /\ used[<<r, c>>] >= freed'.A[ShimOf(r)]
                 /\ freed'.B[c] \in Int /\ used[<<r, c>>] >= freed'.B[c]
<1>1. /\ \A c \in Cols : drained[c] = Len(streamC[c])
      /\ tgs' = <<>> /\ freed' = Ends(streamA, streamB, streamC)
      /\ \A r \in Rows, c \in Cols :
            /\ freed'.A[ShimOf(r)] \in Int /\ used[<<r, c>>] >= freed'.A[ShimOf(r)]
            /\ freed'.B[c] \in Int /\ used[<<r, c>>] >= freed'.B[c]
  <2>1. CASE tgs = <<>>
    <3>1. UNCHANGED <<tgs, freed>>
      BY <2>1 DEF Complete
    <3>. QED BY <2>1, <3>1 DEF IInv, HostInv, InFlight, FreedUsed
  <2>2. CASE tgs # <<>>
    <3>1. FinishOldest
      BY <2>2 DEF Complete
    <3>. QED BY <2>2, <3>1, FinishedGroup
  <2>. QED BY <2>1, <2>2
<1>2. PICK t, G \in Nat \ {0} : IsRegular(t, G)
  BY RegularShape DEF IInv, ArrayInv
<1>3. /\ Groups = G /\ DrainRows = t /\ design.RowBlocks = G * t /\ G <= Iterations
      /\ Iterations \in Nat
  BY <1>2 DEF IsRegular
<1>4. groups = G
  <2>1. /\ iter \in Nat /\ iter >= Iterations /\ groups = (IF iter < G THEN iter ELSE G)
    BY <1>3 DEF Complete, IInv, HostInv, Phases
  <2>. QED BY <1>3, <2>1
<1>5. Covers(design.RowBlocks)
  BY <1>3, <1>4 DEF Complete, IInv, HostInv, Covered
<1>6. ASSUME NEW tile \in Tiles PROVE mem[Place(tile)] = Product(dispatch, tile)
  <2>1. tile[1] < design.RowBlocks * design.n_aie_rows
    BY DesignTypes DEF IInv, ArrayInv, Tiles, Positive
  <2>2. ~Pending(tile)
    <3>1. \A c \in Cols : Len(streamC[c]) \in Nat
      BY DEF IInv, ArrayInv, Types, IsList
    <3>. QED BY <1>1, <3>1 DEF Pending
  <2>. QED BY <1>5, <2>1, <2>2 DEF Covers
<1>. QED BY <1>1, <1>6

\* When the end of the sequence finds everything stored, the array is ready for the next.
LEMMA CompletedInv ==
    ASSUME ArrayInv, Running, completed' = dispatch,
           UNCHANGED <<design, dispatch, streams, moved, coreVars, mem>>,
           \A c \in Cols : drained[c] = Len(streamC[c]),
           \A tile \in Tiles : mem[Place(tile)] = Product(dispatch, tile)
    PROVE  ArrayInv'
<1>1. /\ completed' = dispatch
      /\ UNCHANGED <<design, dispatch, streams, moved, coreVars, mem>>
      /\ UNCHANGED <<streamA, streamB, streamC, filledA, filledB, sentA, sentB, sentC, drained,
                     used, holds, acc, results>>
      /\ UNCHANGED <<design, streams>> /\ UNCHANGED <<design, streamA, streamB, coreVars>>
      /\ UNCHANGED <<design, dispatch, streams, drained>> /\ UNCHANGED <<design, moved>>
  BY DEF streams, moved, coreVars
<1>2. /\ Rows' = Rows /\ Cols' = Cols /\ Shims' = Shims /\ Tiles' = Tiles
      /\ \A r : ShimOf(r)' = ShimOf(r)
      /\ \A t : Place(t)' = Place(t)
      /\ \A d, t : Product(d, t)' = Product(d, t) /\ Held(d, t)' = Held(d, t)
      /\ Shape' = Shape
  BY <1>1, DesignKept
<1>3. Shape' /\ Matched' /\ Aligned' /\ Summed'
  BY <1>1, <1>2, MatchedKept, AlignedKept, SummedKept DEF ArrayInv
<1>4. Counts' /\ Quiet'
  BY <1>1, <1>2 DEF ArrayInv, Counts, Quiet, Running
<1>5. Types'
  BY <1>1, TypesKept DEF ArrayInv, Types
<1>6. Fifos'
  BY <1>1, <1>2 DEF ArrayInv, Fifos
<1>7. Memory'
  <2>1. dispatch \in Nat /\ dispatch > 0
    BY DEF ArrayInv, Counts, Running
  <2>2. \A tile : Held(dispatch, tile) = Product(dispatch, tile)
    BY <2>1 DEF Held
  <2>. QED BY <1>1, <1>2, <2>2 DEF Memory
<1>. QED BY <1>3, <1>4, <1>5, <1>6, <1>7 DEF ArrayInv

\* The sequence ends.
LEMMA CompleteIInv ==
    ASSUME IInv, Complete
    PROVE  IInv'
<1>1. /\ Running /\ ~waiting
      /\ completed' = dispatch /\ UNCHANGED <<design, dispatch, iter, groups, waiting, streams, moved,
                                               coreVars, mem>>
      /\ UNCHANGED <<streamA, streamB, streamC, filledA, filledB, sentA, sentB, sentC, drained,
                     used, holds, acc, results>>
  BY DEF Complete, FinishOldest, streams, moved, coreVars
<1>2. /\ \A c \in Cols : drained[c] = Len(streamC[c])
      /\ \A tile \in Tiles : mem[Place(tile)] = Product(dispatch, tile)
      /\ tgs' = <<>> /\ freed' = Ends(streamA, streamB, streamC)
      /\ \A r \in Rows, c \in Cols :
            /\ freed'.A[ShimOf(r)] \in Int /\ used[<<r, c>>] >= freed'.A[ShimOf(r)]
            /\ freed'.B[c] \in Int /\ used[<<r, c>>] >= freed'.B[c]
  BY CompleteStores
<1>3. /\ Groups' = Groups /\ DrainRows' = DrainRows /\ Regular' = Regular
      /\ \A a, b, c : Ends(a, b, c)' = Ends(a, b, c)
      /\ Rows' = Rows /\ Cols' = Cols /\ \A r : ShimOf(r)' = ShimOf(r)
  BY <1>1, ShapesKept, DesignKept
<1>4. ArrayInv'
  BY <1>1, <1>2, CompletedInv DEF IInv
<1>5. ~Running'
  BY <1>1, <1>4 DEF Running, ArrayInv, Counts
<1>6. Phases'
  BY <1>1, <1>3 DEF IInv, HostInv, Phases
<1>7. InFlight'
  BY <1>1, <1>2, <1>3 DEF InFlight
<1>8. FreedUsed'
  BY <1>1, <1>2, <1>3 DEF FreedUsed
<1>9. Covered'
  BY <1>5 DEF Covered
<1>. QED BY <1>1, <1>3, <1>4, <1>6, <1>7, <1>8, <1>9 DEF IInv, HostInv

-----------------------------------------------------------------------------
(* The designs that are built *)

DesignFits(d) ==
    /\ d \in Design
    /\ d.n_aie_cols >= d.n_aie_rows \/ d.n_aie_rows % d.n_aie_cols = 0
    /\ d.tb_max_n_rows % 2 = 0
    /\ d.RowBlocks % (d.tb_max_n_rows \div 2) = 0
    /\ d.c_col_maj => d.tb_max_n_rows = 2

\* A quotient that is taken of a whole number of tiles.
LEMMA WholeTiles ==
    ASSUME NEW a \in Positive, NEW b \in Positive, a % b = 0
    PROVE  a \div b \in Positive /\ a = b * (a \div b)
<1>1. PICK q : q = a \div b
  OBVIOUS
<1>2. q \in Int /\ a = b * q + (a % b)
  BY <1>1, DivMod DEF Positive
<1>3. q <= 0 => q * b <= 0 * b
  BY <1>2, Monotone DEF Positive
<1>4. b * q = q * b /\ 0 * b = 0 /\ b * q \in Int
  BY <1>2 DEF Positive
<1>. QED BY <1>1, <1>2, <1>3, <1>4 DEF Positive

\* M // m // n_aie_rows is the M of as many row blocks.
LEMMA RowBlocksOf ==
    ASSUME NEW M \in Positive, NEW m \in Positive, NEW R \in Positive, M % (m * R) = 0
    PROVE  (M \div m) \div R \in Positive
<1>1. PICK b, q : b = m * R /\ q = M \div b
  OBVIOUS
<1>2. b \in Positive
  <2>1. 1 * R <= m * R /\ 1 * R = R /\ m * R \in Int
    BY Monotone DEF Positive
  <2>. QED BY <1>1, <2>1 DEF Positive
<1>3. q \in Positive /\ M = b * q
  BY <1>1, <1>2, WholeTiles
<1>4. PICK x : x = R * q
  OBVIOUS
<1>5. x \in Int /\ M = m * x + 0
  <2>1. (m * R) * q = m * (R * q)
    BY <1>3 DEF Positive
  <2>2. m * x \in Int
    BY <1>3, <1>4 DEF Positive
  <2>. QED BY <1>1, <1>3, <1>4, <2>1, <2>2 DEF Positive
<1>6. M \div m = x
  <2>1. PICK z : z = 0
    OBVIOUS
  <2>2. z \in 0 .. m - 1 /\ M = m * x + z
    BY <1>5, <2>1 DEF Positive
  <2>. QED BY <1>5, <2>2, DivModUnique DEF Positive
<1>7. x \div R = q
  <2>1. PICK z : z = 0
    OBVIOUS
  <2>2. z \in 0 .. R - 1 /\ x = R * q + z /\ q \in Int
    BY <1>3, <1>4, <1>5, <2>1 DEF Positive
  <2>. QED BY <2>2, DivModUnique DEF Positive
<1>. QED BY <1>3, <1>6, <1>7

\* What the checks on the command line and the hypotheses give the design.
LEMMA BuildFits ==
    ASSUME n_aie_rows \in Positive, fifo_depth \in Positive, NEW o \in Options,
           ValidateShapeArgs(o), ShimsFit(o), BlocksFit(o)
    PROVE  DesignFits(Build(o))
<1> DEFINE d == Build(o)
<1>1. /\ o.M \in Positive /\ o.m \in Positive /\ o.K \in Positive /\ o.k \in Positive
      /\ o.N \in Positive /\ o.n \in Positive /\ o.n_aie_cols \in Positive
      /\ o.c_col_maj \in BOOLEAN /\ o.TB_MAX_N_ROWS \in Nat /\ o.C_FIFO_DEPTH \in Nat
  BY DEF Options
<1>2. /\ o.M % (o.m * n_aie_rows) = 0 /\ o.K % o.k = 0 /\ o.N % (o.n * o.n_aie_cols) = 0
      /\ ((o.M \div o.m) \div n_aie_rows) % 2 = 0
  BY DEF ValidateShapeArgs, TransferBlockFits
<1>3. /\ (o.M \div o.m) \div n_aie_rows \in Positive /\ o.K \div o.k \in Positive
      /\ (o.N \div o.n) \div o.n_aie_cols \in Positive
  BY <1>1, <1>2, RowBlocksOf, WholeTiles
<1>4. PICK M, T : /\ M = (o.M \div o.m) \div n_aie_rows
                  /\ T = Or(o.TB_MAX_N_ROWS, IF o.c_col_maj THEN 2 ELSE 4)
  OBVIOUS
<1>5. T \in Positive /\ T % 2 = 0 /\ M % (T \div 2) = 0 /\ (o.c_col_maj => T = 2)
  <2>1. CASE o.TB_MAX_N_ROWS # 0
    BY <1>1, <1>4, <2>1 DEF Or, BlocksFit, Positive
  <2>2. CASE o.TB_MAX_N_ROWS = 0
    <3>1. T = IF o.c_col_maj THEN 2 ELSE 4
      BY <1>4, <2>2 DEF Or
    <3>2. M \in Nat /\ M % 2 = 0
      BY <1>2, <1>3, <1>4 DEF Positive
    <3>. QED BY <1>1, <3>1, <3>2 DEF Positive
  <2>. QED BY <2>1, <2>2
<1>6. Or(o.C_FIFO_DEPTH, 2) \in Positive
  BY <1>1 DEF Or, Positive
<1>7. d = [n_aie_rows |-> n_aie_rows, n_aie_cols |-> o.n_aie_cols, RowBlocks |-> M,
           KSteps |-> o.K \div o.k, Reps |-> (o.N \div o.n) \div o.n_aie_cols,
           tb_max_n_rows |-> T, fifo_depth |-> fifo_depth,
           c_fifo_depth |-> Or(o.C_FIFO_DEPTH, 2), c_col_maj |-> o.c_col_maj]
  BY <1>4 DEF Build
<1>. HIDE DEF d
<1>8. d \in Design
  BY <1>1, <1>3, <1>4, <1>5, <1>6, <1>7 DEF Design
<1>9. /\ d.n_aie_rows = n_aie_rows /\ d.n_aie_cols = o.n_aie_cols /\ d.RowBlocks = M
      /\ d.tb_max_n_rows = T /\ d.c_col_maj = o.c_col_maj
  BY <1>7
<1>10. DesignFits(d)
  BY <1>5, <1>8, <1>9 DEF DesignFits, ShimsFit
<1>. QED BY <1>10 DEF d

\* Such a design has the shape the invariant asks for.
LEMMA FitsShape ==
    ASSUME DesignFits(design)
    PROVE  Shape /\ Regular
BY DEF DesignFits, Shape, Regular, tb_n_rows

\* The idle array of such a design.
LEMMA IdleIInv ==
    ASSUME DesignFits(design), Idle
    PROVE  IInv
<1>1. Shape /\ Regular /\ ArrayInv
  BY FitsShape, IdleInv
<1>2. dispatch = 0 /\ completed = 0 /\ iter = 0 /\ groups = 0 /\ waiting = FALSE /\ tgs = <<>>
      /\ freed = Ends(streamA, streamB, streamC)
  BY DEF Idle
<1>3. PICK t, G \in Nat \ {0} : IsRegular(t, G)
  BY <1>1, RegularShape
<1>4. Groups = G
  BY <1>3 DEF IsRegular
<1>5. Phases /\ ~Running
  <2>1. ~Running
    BY <1>2 DEF Running
  <2>2. groups \in 0 .. G /\ groups = IF iter < G THEN iter ELSE G
    BY <1>2
  <2>. QED BY <1>2, <1>4, <2>1, <2>2 DEF Phases
<1>6. \A c \in Cols : drained[c] = Len(streamC[c])
  BY <1>1, <1>5 DEF ArrayInv, Quiet
<1>7. InFlight /\ Covered
  BY <1>2, <1>5, <1>6 DEF InFlight, Covered
<1>8. FreedUsed
  <2>1. ASSUME NEW r \in Rows, NEW c \in Cols
        PROVE  /\ Len(streamA[ShimOf(r)]) \in Int /\ used[<<r, c>>] >= Len(streamA[ShimOf(r)])
               /\ Len(streamB[c]) \in Int /\ used[<<r, c>>] >= Len(streamB[c])
    <3>1. ShimOf(r) \in Shims
      BY <1>1, ShimsSplitRows
    <3>2. Len(streamA[ShimOf(r)]) \in Int /\ Len(streamB[c]) \in Int
      BY <1>1, <3>1 DEF ArrayInv, Types, IsList
    <3>3. \A k \in Cols : drained[k] >= Len(streamC[k])
      BY <1>1, <1>6 DEF ArrayInv, Types
    <3>. QED BY <1>1, <3>2, <3>3, DrainedMeansUsed
  <2>2. /\ \A r \in Rows : freed.A[ShimOf(r)] = Len(streamA[ShimOf(r)])
        /\ \A c \in Cols : freed.B[c] = Len(streamB[c])
    BY <1>1, <1>2, EndsParts, ShimsSplitRows
  <2>. QED BY <2>1, <2>2 DEF FreedUsed
<1>. QED BY <1>1, <1>2, <1>5, <1>7, <1>8, DispatchesAssumption DEF IInv, HostInv

\* Every step keeps the invariant.
LEMMA NextIInv ==
    ASSUME IInv, [Next]_vars
    PROVE  IInv'
<1>1. CASE Begin
  BY <1>1, BeginIInv
<1>2. CASE Issue
  BY <1>2, IssueIInv
<1>3. CASE Skip
  BY <1>3, SkipIInv
<1>4. CASE Finish
  BY <1>4, FinishIInv
<1>5. CASE Complete
  BY <1>5, CompleteIInv
<1>6. CASE Array
  BY <1>6, ArrayIInv
<1>7. CASE UNCHANGED vars
  <2>1. /\ UNCHANGED <<design, dispatch, completed, iter, groups, waiting, tgs, freed,
                       streamA, streamB, streamC, drained, used>>
        /\ UNCHANGED <<design, dispatch, completed, streams, moved, coreVars, mem>>
    BY <1>7 DEF vars, sequenceVars, streams, moved, coreVars
  <2>2. ArrayInv' /\ \A n : Covers(n) => Covers(n)'
    BY <2>1, ArrayInvKept DEF IInv
  <2>3. /\ Groups' = Groups /\ DrainRows' = DrainRows /\ Regular' = Regular
        /\ \A a, b, c : Ends(a, b, c)' = Ends(a, b, c)
        /\ Rows' = Rows /\ Cols' = Cols /\ \A r : ShimOf(r)' = ShimOf(r)
    BY <2>1, ShapesKept, DesignKept
  <2>4. Phases' /\ FreedUsed' /\ Covered'
    BY <2>1, <2>2, <2>3 DEF IInv, HostInv, Phases, FreedUsed, Covered, Running
  <2>5. InFlight'
    BY <2>1, <2>3 DEF IInv, HostInv, InFlight, Running
  <2>. QED BY <2>1, <2>2, <2>3, <2>4, <2>5 DEF IInv, HostInv
<1>. QED BY <1>1, <1>2, <1>3, <1>4, <1>5, <1>6, <1>7 DEF Next, Host, Finished

-----------------------------------------------------------------------------
(* What the invariant says *)

\* What follows from the invariant: the types,
LEMMA ArrayTypeOK ==
    ASSUME ArrayInv, dispatch <= Dispatches, iter \in Nat, groups \in Nat, waiting \in BOOLEAN,
           Len(tgs) <= 2
    PROVE  TypeOK
<1>1. /\ design \in Design /\ dispatch \in 0 .. Dispatches /\ completed \in 0 .. dispatch
      /\ iter \in Nat /\ waiting \in BOOLEAN
  BY DispatchesAssumption DEF ArrayInv, Counts, Shape
<1>2. groups \in Nat /\ Len(tgs) <= 2
  OBVIOUS
<1>3. /\ \A i \in Shims : filledA[i] \in Nat /\ Len(streamA[i]) \in Nat
      /\ \A r \in Rows : sentA[r] \in Nat /\ ShimOf(r) \in Shims
      /\ \A c \in Cols : /\ filledB[c] \in Nat /\ sentB[c] \in Nat /\ drained[c] \in Nat
                         /\ Len(streamB[c]) \in Nat /\ Len(streamC[c]) \in Nat
      /\ \A x \in Cores : /\ used[x] \in Nat /\ sentC[x] \in Nat
                          /\ Len(results[x]) \in Nat /\ Len(acc[x]) \in Nat
      /\ design.fifo_depth \in Nat /\ design.c_fifo_depth \in Nat
  BY DesignTypes, ShimsSplitRows DEF ArrayInv, Types, IsList, Positive
<1>4. \A i \in Shims : filledA[i] \in 0 .. Len(streamA[i])
  BY <1>3 DEF ArrayInv, Fifos
<1>5. \A r \in Rows : Occupied(filledA[ShimOf(r)] - sentA[r], design.fifo_depth)
  BY <1>3 DEF ArrayInv, Fifos, Occupied
<1>6. \A c \in Cols : /\ filledB[c] \in 0 .. Len(streamB[c])
                      /\ Occupied(filledB[c] - sentB[c], design.fifo_depth)
                      /\ drained[c] \in 0 .. Len(streamC[c])
  BY <1>3 DEF ArrayInv, Fifos, Occupied
<1>7. ASSUME NEW x \in Cores
      PROVE  /\ Occupied(sentA[x[1]] - used[x], design.fifo_depth)
             /\ Occupied(sentB[x[2]] - used[x], design.fifo_depth)
             /\ Occupied(Len(results[x]) + (IF holds[x] THEN 1 ELSE 0) - sentC[x],
                         design.c_fifo_depth)
             /\ Occupied(sentC[x] - drained[x[2]], design.fifo_depth)
             /\ Len(acc[x]) <= design.KSteps
  <2>1. PICK r \in Rows, c \in Cols : x = <<r, c>> /\ x[1] = r /\ x[2] = c
    BY CoreParts
  <2>2. /\ used[x] <= sentA[r] /\ sentA[r] - used[x] <= design.fifo_depth
        /\ used[x] <= sentB[c] /\ sentB[c] - used[x] <= design.fifo_depth
        /\ sentC[x] <= Len(results[x])
        /\ Len(results[x]) + (IF holds[x] THEN 1 ELSE 0) - sentC[x] <= design.c_fifo_depth
        /\ drained[c] <= sentC[x] /\ sentC[x] - drained[c] <= design.fifo_depth
    BY <2>1 DEF ArrayInv, Fifos
  <2>3. Len(acc[x]) <= design.KSteps
    BY <2>1 DEF ArrayInv, Summed, SummedAt
  <2>4. PICK h \in 0 .. 1 : h = IF holds[x] THEN 1 ELSE 0
    OBVIOUS
  <2>5. Occupied(Len(results[x]) + h - sentC[x], design.c_fifo_depth)
    BY <1>3, <2>2, <2>4 DEF Occupied
  <2>6. \A u, v, d \in Nat : u <= v /\ v - u <= d => Occupied(v - u, d)
    BY DEF Occupied
  <2>7. /\ Occupied(sentA[r] - used[x], design.fifo_depth)
        /\ Occupied(sentB[c] - used[x], design.fifo_depth)
        /\ Occupied(sentC[x] - drained[c], design.fifo_depth)
    BY <1>3, <2>2, <2>6, Zenon
  <2>. QED BY <2>1, <2>3, <2>4, <2>5, <2>7
<1>. QED BY <1>1, <1>2, <1>4, <1>5, <1>6, <1>7 DEF TypeOK

\* and so in the tuned design,
LEMMA IsTypeOK ==
    ASSUME IInv
    PROVE  TypeOK
<1>1. Len(tgs) <= 2
  BY DEF IInv, HostInv, InFlight
<1>2. \A g \in Int : groups \in 0 .. g => groups \in Nat
  OBVIOUS
<1>3. Groups \in Int
  <2>1. PICK t, G \in Nat \ {0} : IsRegular(t, G)
    BY RegularShape DEF IInv, ArrayInv
  <2>. QED BY <2>1 DEF IsRegular
<1>. QED BY <1>1, <1>2, <1>3, ArrayTypeOK DEF IInv, HostInv, Phases

\* that what was given up is used,
LEMMA ArrayFreed ==
    ASSUME ArrayInv, FreedUsed, ~Running => tgs = <<>> /\ freed = Ends(streamA, streamB, streamC)
    PROVE  FreedMeansUsed
<1>1. \A x \in Cores : used[x] >= freed.A[ShimOf(x[1])] /\ used[x] >= freed.B[x[2]]
  BY CoreParts DEF FreedUsed
<1>2. ASSUME ~Running PROVE \A x \in Cores : sentC[x] = Len(results[x])
  <2>1. \A c \in Cols : drained[c] = Len(streamC[c]) /\ drained[c] \in Nat
    BY <1>2 DEF ArrayInv, Quiet, Types
  <2>2. \A c \in Cols : drained[c] >= Len(streamC[c])
    BY <2>1
  <2>. QED BY <2>2, DrainedMeansUsed, CoreParts
<1>. QED BY <1>1, <1>2 DEF FreedMeansUsed

\* and that what is stored is right.
LEMMA IsStoredRight ==
    ASSUME ArrayInv
    PROVE  StoredRight
<1>1. dispatch \in Nat
  BY DEF ArrayInv, Counts
<1>2. ASSUME NEW tile \in Tiles, NEW d \in {dispatch - 1, dispatch}, mem[Place(tile)] = Held(d, tile)
      PROVE  mem[Place(tile)] \in
                 {<<>>} \cup {Product(e, tile) : e \in {dispatch - 1, dispatch} \ {0}}
  BY <1>1, <1>2 DEF Held
<1>. QED BY <1>2 DEF ArrayInv, Memory, StoredRight

-----------------------------------------------------------------------------
(* A dispatch implements the GEMM of the module Gemm *)

\* The dispatch, of the first n, whose product a tile with this content holds.
Holder(content, n, tile) ==
    IF content = <<>> THEN 0
    ELSE IF \E e \in 1 .. n : content = Product(e, tile)
         THEN CHOOSE e \in 1 .. n : content = Product(e, tile)
         ELSE -1

\* The dispatches can be told apart, as the tiles of a product name theirs.
LEMMA HolderIs ==
    ASSUME Shape, NEW tile, NEW n \in Nat, NEW d \in 0 .. n, NEW content, content = Held(d, tile)
    PROVE  Holder(content, n, tile) = d
<1>1. 1 \in 1 .. design.KSteps
  BY DesignTypes DEF Positive
<1>2. \A e : Product(e, tile) # <<>> /\ Product(e, tile)[1][1][1] = e
  <2>1. ASSUME NEW e PROVE Product(e, tile) # <<>> /\ Product(e, tile)[1][1][1] = e
    <3>1. Product(e, tile)[1] = <<<<e, tile[1], 1 - 1>>, <<e, tile[2], 1 - 1>>>>
      BY <1>1 DEF Product
    <3>2. 1 \in DOMAIN Product(e, tile)
      BY <1>1 DEF Product
    <3>. QED BY <3>1, <3>2
  <2>. QED BY <2>1
<1>3. CASE d = 0
  BY <1>3 DEF Held, Holder
<1>4. CASE d # 0
  <2>1. content = Product(d, tile) /\ d \in 1 .. n
    BY <1>4 DEF Held
  <2>2. \A e \in 1 .. n : content = Product(e, tile) <=> e = d
    BY <1>2, <2>1
  <2>3. content # <<>>
    BY <1>2, <2>1
  <2>4. (CHOOSE e \in 1 .. n : content = Product(e, tile)) = d
    BY <2>1, <2>2
  <2>. QED BY <2>1, <2>3, <2>4 DEF Holder
<1>. QED BY <1>3, <1>4

\* StoredOf is the holder of each tile, before and after a step.
LEMMA StoredOfHolder ==
    /\ \A tile \in Tiles : StoredOf[tile] = Holder(mem[Place(tile)], dispatch, tile)
    /\ UNCHANGED design =>
          \A tile \in Tiles : StoredOf'[tile] = Holder(mem'[Place(tile)], dispatch', tile)
<1>1. \A tile \in Tiles : StoredOf[tile] = Holder(mem[Place(tile)], dispatch, tile)
  BY DEF StoredOf, Holder
<1>2. ASSUME UNCHANGED design, NEW tile \in Tiles
      PROVE  StoredOf'[tile] = Holder(mem'[Place(tile)], dispatch', tile)
  <2>1. Tiles' = Tiles /\ (\A t : Place(t)' = Place(t)) /\ \A d, t : Product(d, t)' = Product(d, t)
    BY <1>2, DesignKept
  <2>. QED BY <2>1 DEF StoredOf, Holder
<1>. QED BY <1>1, <1>2

\* The dispatch whose product a tile holds.
LEMMA StoredIsRecent ==
    ASSUME ArrayInv, NEW tile \in Tiles
    PROVE  /\ mem[Place(tile)] = Held(dispatch, tile) => StoredOf[tile] = dispatch
           /\ Running /\ mem[Place(tile)] = Held(dispatch - 1, tile) => StoredOf[tile] = dispatch - 1
<1>1. Shape /\ dispatch \in Nat /\ completed \in 0 .. dispatch
  BY DEF ArrayInv, Counts
<1>2. dispatch \in 0 .. dispatch
  BY <1>1
<1>3. Running => dispatch - 1 \in 0 .. dispatch
  BY <1>1 DEF Running
<1>. QED BY <1>1, <1>2, <1>3, HolderIs, StoredOfHolder

\* Memory tells the same as long as dispatch and memory are.
LEMMA StoredOfKept ==
    ASSUME UNCHANGED <<design, dispatch, mem>>
    PROVE  StoredOf' = StoredOf
<1>1. Tiles' = Tiles /\ (\A t : Place(t)' = Place(t)) /\ \A d, t : Product(d, t)' = Product(d, t)
  BY DesignKept
<1>. QED BY <1>1 DEF StoredOf

\* An idle array has stored nothing, as the GEMM before its first dispatch.
LEMMA IdleAbstract ==
    ASSUME ArrayInv, Idle
    PROVE  Abstract!Init
<1>1. dispatch = 0 /\ completed = 0
  BY DEF Idle
<1>2. ASSUME NEW tile \in Tiles PROVE StoredOf[tile] = 0
  <2>1. ~Running
    BY <1>1 DEF Running
  <2>2. mem[Place(tile)] = Held(dispatch, tile)
    BY <2>1 DEF ArrayInv, Memory
  <2>. QED BY <1>1, <2>2, StoredIsRecent
<1>3. DOMAIN StoredOf = Tiles
  BY DEF StoredOf
<1>. QED BY <1>1, <1>2, <1>3 DEF Abstract!Init

\* Every step is one of the abstract GEMM or none: Begin begins, ...
LEMMA BeginAbstract ==
    ASSUME ArrayInv, Begin
    PROVE  [Abstract!Next]_Abstract!vars
<1>0. DOMAIN StoredOf = Tiles /\ DOMAIN StoredOf' = Tiles'
  BY DEF StoredOf
<1>1. /\ ~Running /\ dispatch < Dispatches /\ dispatch' = dispatch + 1
      /\ UNCHANGED <<design, completed, mem>> /\ Running'
  BY BeginInv DEF Begin
<1>2. dispatch = completed /\ dispatch \in Nat
  BY <1>1 DEF ArrayInv, Counts, Running
<1>3. Tiles' = Tiles /\ \A t : Place(t)' = Place(t)
  BY <1>1, DesignKept
<1>4. ASSUME NEW tile \in Tiles PROVE StoredOf'[tile] = StoredOf[tile]
  <2>1. mem[Place(tile)] = Held(dispatch, tile)
    BY <1>1 DEF ArrayInv, Memory
  <2>2. StoredOf[tile] = dispatch
    BY <2>1, StoredIsRecent
  <2>3. dispatch' \in Nat /\ dispatch \in 0 .. dispatch'
    BY <1>1, <1>2
  <2>4. Holder(mem'[Place(tile)], dispatch', tile) = dispatch
    BY <1>1, <2>1, <2>3, HolderIs DEF ArrayInv
  <2>. QED BY <1>1, <2>2, <2>4, StoredOfHolder
<1>5. StoredOf' = StoredOf
  BY <1>0, <1>3, <1>4 DEF StoredOf
<1>6. Abstract!Begin
  BY <1>1, <1>2, <1>5 DEF Abstract!Begin
<1>. QED BY <1>6 DEF Abstract!Next

\* ... a drain stores, ...
LEMMA ArrayAbstract ==
    ASSUME ArrayInv, Array
    PROVE  [Abstract!Next]_Abstract!vars
<1>0. DOMAIN StoredOf = Tiles /\ DOMAIN StoredOf' = Tiles'
  BY DEF StoredOf
<1>1. UNCHANGED <<design, dispatch, completed>> /\ OnlyStores
  BY ArrayStep DEF sequenceVars
<1>2. Tiles' = Tiles /\ (\A t : Place(t)' = Place(t)) /\ \A d, t : Product(d, t)' = Product(d, t)
  BY <1>1, DesignKept
<1>3. CASE Running
  <2>1. ASSUME NEW tile \in Tiles PROVE StoredOf'[tile] \in {StoredOf[tile], dispatch}
    <3>1. CASE mem'[Place(tile)] = Product(dispatch, tile)
      <4>1. Shape /\ dispatch \in Nat /\ dispatch \in 0 .. dispatch /\ dispatch > 0
        BY <1>3 DEF ArrayInv, Counts, Running
      <4>2. mem'[Place(tile)] = Held(dispatch, tile)
        BY <3>1, <4>1 DEF Held
      <4>3. Holder(mem'[Place(tile)], dispatch, tile) = dispatch
        BY <4>1, <4>2, HolderIs
      <4>. QED BY <1>1, <4>3, StoredOfHolder
    <3>2. CASE mem'[Place(tile)] = mem[Place(tile)]
      <4>1. StoredOf'[tile] = StoredOf[tile]
        BY <1>1, <1>2, <3>2 DEF StoredOf
      <4>. QED BY <4>1
    <3>. QED BY <1>1, <3>1, <3>2 DEF OnlyStores
  <2>2. Abstract!Store
    BY <1>0, <1>1, <1>2, <1>3, <2>1 DEF Abstract!Store, Running
  <2>. QED BY <2>2 DEF Abstract!Next
<1>4. CASE ~Running
  <2>1. \A c \in Cols : ~Drain(c)
    BY <1>4 DEF ArrayInv, Quiet, Drain, Types, IsList
  <2>2. UNCHANGED mem
    BY <2>1 DEF Array, FillA, FillB, SendA, SendB, SendC, Acquire, MatMul
  <2>3. StoredOf' = StoredOf
    BY <1>1, <2>2, StoredOfKept
  <2>. QED BY <1>1, <2>3 DEF Abstract!vars
<1>. QED BY <1>3, <1>4

\* ... the end of the sequence completes, with everything stored, ...
LEMMA CompleteAbstract ==
    ASSUME ArrayInv, Running, completed' = dispatch, UNCHANGED <<design, dispatch, mem>>,
           \A tile \in Tiles : mem[Place(tile)] = Product(dispatch, tile)
    PROVE  [Abstract!Next]_Abstract!vars
<1>0. DOMAIN StoredOf = Tiles /\ DOMAIN StoredOf' = Tiles'
  BY DEF StoredOf
<1>1. dispatch \in Nat /\ dispatch > 0
  BY DEF ArrayInv, Counts, Running
<1>2. ASSUME NEW tile \in Tiles PROVE StoredOf[tile] = dispatch
  <2>1. mem[Place(tile)] = Held(dispatch, tile)
    BY <1>1 DEF Held
  <2>. QED BY <2>1, StoredIsRecent
<1>3. StoredOf' = StoredOf
  BY StoredOfKept
<1>4. Abstract!Complete
  BY <1>0, <1>2, <1>3 DEF Abstract!Complete, Running
<1>. QED BY <1>4 DEF Abstract!Next

\* ... and the rest of the sequence is not seen.
LEMMA KeptAbstract ==
    ASSUME UNCHANGED <<design, dispatch, completed, mem>>
    PROVE  [Abstract!Next]_Abstract!vars
<1>1. StoredOf' = StoredOf
  BY StoredOfKept
<1>. QED BY <1>1 DEF Abstract!vars

\* The steps of the tuned design.
LEMMA NextAbstract ==
    ASSUME IInv, [Next]_vars
    PROVE  [Abstract!Next]_Abstract!vars
<1>1. ASSUME Complete PROVE [Abstract!Next]_Abstract!vars
  <2>1. /\ UNCHANGED <<design, dispatch, mem>> /\ completed' = dispatch /\ Running
    BY <1>1 DEF Complete, FinishOldest
  <2>. QED BY <1>1, <2>1, CompleteStores, CompleteAbstract DEF IInv
<1>2. CASE Issue \/ Skip \/ Finish \/ UNCHANGED vars
  <2>1. UNCHANGED <<design, dispatch, completed, mem>>
    BY <1>2 DEF Issue, Skip, Finish, FinishOldest, vars, sequenceVars
  <2>. QED BY <2>1, KeptAbstract
<1>. QED BY <1>1, <1>2, BeginAbstract, ArrayAbstract DEF Next, Host, Finished, IInv

-----------------------------------------------------------------------------
(* The theorems.  They are about command lines that fit the design: all that the
   checks accept with TB_MAX_N_ROWS unset, or set to a size whose halves divide the
   row blocks. *)

\* The initial states.
LEMMA InitIInv ==
    ASSUME FittingLines, Init
    PROVE  IInv /\ Abstract!Init
<1>1. PICK o \in CommandLines : Accepted(o) /\ design = Build(o)
  BY DEF Init
<1>2. DesignFits(design)
  BY <1>1, BuildFits DEF FittingLines, Accepted
<1>3. Idle
  BY DEF Init
<1>4. IInv
  BY <1>2, <1>3, IdleIInv
<1>. QED BY <1>3, <1>4, IdleAbstract DEF IInv

\* The invariant of whole_array_tuned.py.
THEOREM Invariance ==
    ASSUME FittingLines
    PROVE  Spec => []IInv
<1>1. Init => IInv
  BY InitIInv
<1>2. IInv /\ [Next]_vars => IInv'
  BY NextIInv
<1>. QED BY <1>1, <1>2, PTL DEF Spec

\* The state is well-formed, and no FIFO of the array is fuller than it is deep.
THEOREM TypeCorrect ==
    ASSUME FittingLines
    PROVE  Spec => []TypeOK
<1>1. IInv => TypeOK
  BY IsTypeOK
<1>. QED BY <1>1, Invariance, PTL

\* finish() waits for the drains of a task group only, and gives up its fills too: by
\* then every core that listens has used them all, and a complete dispatch leaves
\* nothing for the next.
THEOREM FinishedMeansUsed ==
    ASSUME FittingLines
    PROVE  Spec => []FreedMeansUsed
<1>1. IInv => FreedMeansUsed
  BY ArrayFreed DEF IInv, HostInv, InFlight
<1>. QED BY <1>1, Invariance, PTL

\* Whatever is stored is the product of its row and its column, of the current
\* dispatch or the one before.
THEOREM StoresProducts ==
    ASSUME FittingLines
    PROVE  Spec => []StoredRight
<1>1. IInv => StoredRight
  BY IsStoredRight DEF IInv
<1>. QED BY <1>1, Invariance, PTL

\* A dispatch computes the GEMM: it stores nothing but its products, and all of them
\* before it completes.
THEOREM ComputesGemm ==
    ASSUME FittingLines
    PROVE  Spec => Abstract!Safety
<1>1. Init => Abstract!Init
  BY InitIInv
<1>2. IInv /\ [Next]_vars => [Abstract!Next]_Abstract!vars
  BY NextAbstract
<1>. QED BY <1>1, <1>2, Invariance, PTL DEF Spec, Abstract!Safety

-----------------------------------------------------------------------------
(* npu/ref/whole_array.py: the same array and sequence, and its block always fits *)

\* Its checks are those of the tuned design with the transfer block unset.
LEMMA VendoredFits ==
    ASSUME n_aie_rows \in Positive, fifo_depth \in Positive, NEW o \in Options,
           VendoredValidates(o), ShimsFit(o)
    PROVE  DesignFits(VendoredBuild(o))
<1> DEFINE unset == [o EXCEPT !.TB_MAX_N_ROWS = 0]
           d == Build(unset)
<1>1. /\ unset \in Options /\ unset.TB_MAX_N_ROWS = 0
      /\ unset.M = o.M /\ unset.m = o.m /\ unset.K = o.K /\ unset.k = o.k /\ unset.N = o.N
      /\ unset.n = o.n /\ unset.n_aie_cols = o.n_aie_cols /\ unset.dev = o.dev
  BY DEF Options
<1>. HIDE DEF unset
<1>2. ValidateShapeArgs(unset) /\ ShimsFit(unset) /\ BlocksFit(unset)
  BY <1>1 DEF VendoredValidates, ValidateShapeArgs, TransferBlockFits, ShimsFit, BlocksFit
<1>3. DesignFits(d)
  BY <1>1, <1>2, BuildFits
<1>4. VendoredBuild(o) = [d EXCEPT !.c_fifo_depth = fifo_depth]
  BY DEF VendoredBuild, unset
<1>. HIDE DEF d
<1>. QED BY <1>3, <1>4 DEF DesignFits, Design

\* Its initial states.
LEMMA VendoredInitIInv ==
    ASSUME VendoredLinesFit, VendoredInit
    PROVE  IInv /\ Abstract!Init
<1>1. PICK o \in CommandLines : VendoredValidates(o) /\ design = VendoredBuild(o)
  BY DEF VendoredInit
<1>2. DesignFits(design)
  BY <1>1, VendoredFits DEF VendoredLinesFit
<1>3. Idle
  BY DEF VendoredInit
<1>4. IInv
  BY <1>2, <1>3, IdleIInv
<1>. QED BY <1>3, <1>4, IdleAbstract DEF IInv

\* Its steps are steps of the same array.
LEMMA VendoredNextIsNext == VendoredNext => Next
BY DEF VendoredNext, VendoredSequence, VendoredFifos, VendoredCores, Next, Host, Array

\* The invariant of the vendored whole_array.py, and with it what it says.
THEOREM VendoredInvariance ==
    ASSUME VendoredLinesFit
    PROVE  VendoredSpec => [](TypeOK /\ FreedMeansUsed /\ StoredRight)
<1>1. VendoredInit => IInv
  BY VendoredInitIInv
<1>2. IInv /\ [VendoredNext]_vars => IInv'
  BY NextIInv, VendoredNextIsNext
<1>3. IInv => TypeOK /\ FreedMeansUsed /\ StoredRight
  BY IsTypeOK, ArrayFreed, IsStoredRight DEF IInv, HostInv, InFlight
<1>. QED BY <1>1, <1>2, <1>3, PTL DEF VendoredSpec

\* A dispatch of the vendored whole_array.py computes the GEMM.
THEOREM VendoredComputesGemm ==
    ASSUME VendoredLinesFit
    PROVE  VendoredSpec => Abstract!Safety
<1>1. VendoredInit => IInv /\ Abstract!Init
  BY VendoredInitIInv
<1>2. IInv /\ [VendoredNext]_vars => IInv'
  BY NextIInv, VendoredNextIsNext
<1>3. IInv /\ [VendoredNext]_vars => [Abstract!Next]_Abstract!vars
  BY NextAbstract, VendoredNextIsNext
<1>. QED BY <1>1, <1>2, <1>3, PTL DEF VendoredSpec, Abstract!Safety

-----------------------------------------------------------------------------
(* npu/ref/single_core.py: an array of one core, and two task groups in flight *)

Single == INSTANCE SingleCore

\* One core, and drains of two row blocks each that make up all of them.
SingleShape ==
    /\ design.n_aie_rows = 1 /\ design.n_aie_cols = 1
    /\ \E G \in Nat \ {0} : design.RowBlocks = 2 * G
SingleGroups == design.RowBlocks \div 2

\* What a task group occupies that goes up to block m.
EndsAt(e, m) ==
    /\ \A i \in Shims : e.A[i] = m * design.KSteps
    /\ \A c \in Cols : e.B[c] = m * design.KSteps /\ e.C[c] = m

\* One group is issued per iteration, until all of C is covered, ...
SinglePhases ==
    /\ iter \in Nat /\ waiting \in BOOLEAN
    /\ groups = IF iter < SingleGroups THEN iter ELSE SingleGroups

\* ... and from the second on, the one before is then waited for: the last one
\* reaches the ends of the streams, the one before some block.
SingleInFlight ==
    /\ ~Running \/ iter = 0 => tgs = <<>> /\ ~waiting
    /\ ~Running => freed = Ends(streamA, streamB, streamC)
    /\ Running /\ iter > 0 =>
          IF waiting
             THEN \E e, m : m \in Nat /\ EndsAt(e, m) /\ tgs = <<e, Ends(streamA, streamB, streamC)>>
             ELSE tgs = <<Ends(streamA, streamB, streamC)>>

SingleCovered == Running => Covers(groups * 2)

SingleIInv ==
    /\ ArrayInv /\ dispatch <= Dispatches /\ SingleShape
    /\ SinglePhases /\ SingleInFlight /\ FreedUsed /\ SingleCovered

\* Its array is the array.
LEMMA SingleArray ==
    ASSUME SingleShape
    PROVE  /\ Single!Fifos \/ Single!Core => Array
           /\ Single!Begin <=> Begin
           /\ Single!FinishOldest <=> FinishOldest
           /\ Single!vars = vars /\ (Single!Idle <=> Idle)
           /\ \A a, b, c : Single!Ends(a, b, c) = Ends(a, b, c)
<1>1. Rows = {0} /\ Cols = {0} /\ Shims = {0}
  BY DEF SingleShape, Rows, Cols, Shims, n_shim_mem_A
<1>2. <<0, 0>> \in Cores
  BY <1>1 DEF Cores
<1>3. /\ Single!Rows = Rows /\ Single!Cols = Cols /\ Single!Shims = Shims
      /\ \A r : Single!ShimOf(r) = ShimOf(r)
      /\ \A r, x : Single!ATile(r, x) = ATile(r, x)
  BY DEF Single!Rows, Single!Cols, Single!Shims, Single!ShimOf, Single!ATile,
         Single!n_shim_mem_A, Single!n_A_tiles_per_shim,
         Rows, Cols, Shims, ShimOf, ATile, n_shim_mem_A, n_A_tiles_per_shim
<1>4. /\ Single!vars = vars /\ Single!sequenceVars = sequenceVars /\ Single!streams = streams
      /\ Single!moved = moved /\ Single!coreVars = coreVars
      /\ \A t : Single!Place(t) = Place(t)
  BY DEF Single!vars, Single!sequenceVars, Single!streams, Single!moved, Single!coreVars,
         Single!Place, vars, sequenceVars, streams, moved, coreVars, Place
<1>5. Single!FillA(0) => FillA(0)
  BY <1>3, <1>4 DEF Single!FillA, FillA, Single!sequenceVars, Single!streams, Single!coreVars,
                    sequenceVars, streams, coreVars
<1>6. Single!FillB(0) => FillB(0)
  BY <1>3, <1>4 DEF Single!FillB, FillB, Single!sequenceVars, Single!streams, Single!coreVars,
                    sequenceVars, streams, coreVars
<1>7. Single!SendA(0) => SendA(0)
  BY <1>3, <1>4 DEF Single!SendA, SendA, Single!Listeners, Listeners, Single!sequenceVars,
                    Single!streams, Single!coreVars, sequenceVars, streams, coreVars
<1>8. Single!SendB(0) => SendB(0)
  BY <1>3, <1>4 DEF Single!SendB, SendB, Single!sequenceVars, Single!streams, Single!coreVars,
                    sequenceVars, streams, coreVars
<1>9. Single!SendC(<<0, 0>>) => SendC(<<0, 0>>)
  BY <1>3, <1>4 DEF Single!SendC, SendC, Single!sequenceVars, Single!streams, Single!coreVars,
                    sequenceVars, streams, coreVars
<1>10. Single!Drain(0) => Drain(0)
  BY <1>3, <1>4 DEF Single!Drain, Drain, Single!sequenceVars, Single!streams, Single!coreVars,
                    sequenceVars, streams, coreVars
<1>11. Single!Acquire(<<0, 0>>) => Acquire(<<0, 0>>)
  BY <1>3, <1>4 DEF Single!Acquire, Acquire, Single!zero, zero, Single!sequenceVars,
                    Single!streams, Single!moved, sequenceVars, streams, moved
<1>12. Single!MatMul(<<0, 0>>) => MatMul(<<0, 0>>)
  BY <1>3, <1>4 DEF Single!MatMul, MatMul, Single!sequenceVars, Single!streams, Single!moved,
                    sequenceVars, streams, moved
<1>13. Single!Fifos \/ Single!Core => Array
  BY <1>1, <1>2, <1>5, <1>6, <1>7, <1>8, <1>9, <1>10, <1>11, <1>12
     DEF Single!Fifos, Single!Core, Array
<1>14. \A a, b, c : Single!Ends(a, b, c) = Ends(a, b, c)
  BY <1>3 DEF Single!Ends, Ends
<1>15. /\ Single!Begin <=> Begin
       /\ Single!FinishOldest <=> FinishOldest
  BY <1>3 DEF Single!Begin, Begin, Single!FinishOldest, FinishOldest, Single!GroupDone, GroupDone,
              Single!Running, Running, Single!streams, Single!moved, Single!coreVars,
              streams, moved, coreVars
<1>16. Single!Idle <=> Idle
  <2>1. Single!Cores = Cores /\ Single!Tiles = Tiles
    BY <1>3 DEF Single!Cores, Cores, Single!Tiles, Tiles
  <2>2. [p \in {Single!Place(tile) : tile \in Tiles} |-> <<>>] =
           [p \in {Place(tile) : tile \in Tiles} |-> <<>>]
    BY <1>4
  <2>. QED BY <1>3, <1>14, <2>1, <2>2 DEF Single!Idle, Idle
<1>. QED BY <1>4, <1>13, <1>14, <1>15, <1>16

\* All that has been issued is a group that ends at the last block.
LEMMA EndsAtIssued ==
    ASSUME ArrayInv
    PROVE  Issued \in Nat /\ EndsAt(Ends(streamA, streamB, streamC), Issued)
<1>1. 0 \in Cols
  BY DesignTypes DEF ArrayInv, Cols, Positive
<1>2. Issued \in Nat
  BY <1>1 DEF ArrayInv, Types, IsList, Issued
<1>. QED BY <1>2, EndsParts DEF ArrayInv, Matched, EndsAt

\* When the drains of such a group are done, its fills have been used, though others
\* are behind it.
LEMMA GroupUsed ==
    ASSUME ArrayInv, NEW e, NEW m \in Nat, EndsAt(e, m), GroupDone(e)
    PROVE  \A r \in Rows, c \in Cols :
               /\ e.A[ShimOf(r)] \in Int /\ used[<<r, c>>] >= e.A[ShimOf(r)]
               /\ e.B[c] \in Int /\ used[<<r, c>>] >= e.B[c]
<1>1. PICK K \in Nat \ {0} : design.KSteps = K
  BY DesignTypes DEF ArrayInv, Positive
<1>2. m * K \in Nat
  BY <1>1
<1>3. ASSUME NEW r \in Rows, NEW c \in Cols PROVE used[<<r, c>>] >= m * K
  <2>1. PICK x : x = <<r, c>>
    OBVIOUS
  <2>2. PICK N, u, k : N = Len(results[x]) /\ u = used[x] /\ k = sentC[x]
    OBVIOUS
  <2>3. x \in Cores /\ N \in Nat /\ u \in Nat /\ k \in Nat /\ Len(acc[x]) \in Nat
    BY <2>1, <2>2, CoreParts DEF ArrayInv, Types, IsList
  <2>4. m <= N
    <3>1. m <= drained[c] /\ drained[c] \in Nat
      BY DEF EndsAt, GroupDone, ArrayInv, Types
    <3>2. drained[c] <= k /\ k <= N
      BY <2>1, <2>2 DEF ArrayInv, Fifos
    <3>. QED BY <2>3, <3>1, <3>2
  <2>5. N * K <= u /\ N * K \in Nat
    <3>1. N * K \in Nat
      BY <1>1, <2>3
    <3>2. u = N * K + (IF holds[x] THEN Len(acc[x]) ELSE 0)
      BY <1>1, <2>1, <2>2 DEF ArrayInv, Summed, SummedAt
    <3>3. PICK v, w : v = N * K /\ w = IF holds[x] THEN Len(acc[x]) ELSE 0
      OBVIOUS
    <3>4. u = v + w /\ w \in Nat /\ v \in Nat
      BY <2>3, <3>1, <3>2, <3>3
    <3>. QED BY <3>1, <3>3, <3>4
  <2>6. m * K <= N * K
    BY <1>1, <2>3, <2>4, Monotone
  <2>7. PICK v, w : v = m * K /\ w = N * K
    OBVIOUS
  <2>. QED BY <1>2, <2>1, <2>2, <2>3, <2>5, <2>6, <2>7
<1>4. \A r \in Rows : ShimOf(r) \in Shims
  BY ShimsSplitRows DEF ArrayInv
<1>5. PICK p : p = m * K
  OBVIOUS
<1>6. /\ \A r \in Rows : e.A[ShimOf(r)] = p
      /\ \A c \in Cols : e.B[c] = p
      /\ p \in Int /\ \A r \in Rows, c \in Cols : used[<<r, c>>] >= p
  BY <1>1, <1>2, <1>3, <1>4, <1>5 DEF EndsAt
<1>. QED BY <1>6, Zenon

\* What groups end at depends on the design only.
LEMMA SingleKept ==
    ASSUME UNCHANGED design
    PROVE  /\ SingleGroups' = SingleGroups /\ SingleShape' = SingleShape
           /\ \A e, m : EndsAt(e, m)' = EndsAt(e, m)
           /\ \A a, b, c : Ends(a, b, c)' = Ends(a, b, c)
           /\ Rows' = Rows /\ Cols' = Cols /\ Shims' = Shims /\ \A r : ShimOf(r)' = ShimOf(r)
<1>1. Rows' = Rows /\ Cols' = Cols /\ Shims' = Shims /\ \A r : ShimOf(r)' = ShimOf(r)
  BY DesignKept
<1>. QED BY <1>1, ShapesKept DEF SingleGroups, SingleShape, EndsAt

\* The tiling: an iteration for each of G groups of two row blocks, and one more that
\* has none if G is odd.
LEMMA SingleTiling ==
    ASSUME SingleShape
    PROVE  \E G \in Nat \ {0} :
               /\ design.RowBlocks = 2 * G /\ SingleGroups = G
               /\ Single!Iterations \in Nat /\ G <= Single!Iterations
               /\ iter \in Nat => Single!RowBase = 2 * iter
               /\ iter \in Nat => Single!NumTileRows = (IF iter < G THEN 2 ELSE 2 * G - 2 * iter)
<1>1. PICK G \in Nat \ {0} : design.RowBlocks = 2 * G
  BY DEF SingleShape
<1>2. SingleGroups = G
  BY <1>1 DEF SingleGroups
<1>3. Single!Iterations \in Nat /\ G <= Single!Iterations
  BY <1>1 DEF Single!Iterations, Single!rows_per_block
<1>4. ASSUME iter \in Nat
      PROVE  /\ Single!RowBase = 2 * iter
             /\ Single!NumTileRows = IF iter < G THEN 2 ELSE 2 * G - 2 * iter
  <2>1. PICK h, l : h = iter \div 2 /\ l = iter % 2
    OBVIOUS
  <2>2. h \in Nat /\ l \in 0 .. 1 /\ iter = 2 * h + l
    BY <1>4, <2>1
  <2>3. Single!RowBase = h * 4 + (l * 4) \div 2
    BY <2>1 DEF Single!RowBase, Single!rows_per_block
  <2>4. (l * 4) \div 2 = l * 2
    BY <2>2
  <2>5. Single!RowBase = 2 * iter
    BY <2>2, <2>3, <2>4
  <2>6. Single!NumTileRows = IF 2 < 2 * G - 2 * iter THEN 2 ELSE 2 * G - 2 * iter
    BY <1>1, <2>5 DEF Single!NumTileRows, Single!rows_per_block
  <2>. QED BY <1>4, <2>5, <2>6
<1>. QED BY <1>1, <1>2, <1>3, <1>4

\* What an iteration fills and drains.
LEMMA SingleTaps ==
    ASSUME Shape, SingleShape, NEW g \in Nat, 2 * g + 2 <= design.RowBlocks
    PROVE  /\ AFilled([i \in Shims |-> Single!AFills(dispatch, 2 * g, 2)], 2 * g, 2)
           /\ BFilled([c \in Cols |-> Single!BFills(dispatch, 2)], 2)
           /\ CDrained([c \in Cols |-> Single!CTap(g)], 2 * g, 2)
<1>1. PICK K \in Nat \ {0}, Reps \in Nat \ {0}, M \in Nat \ {0} :
          design.KSteps = K /\ design.Reps = Reps /\ design.RowBlocks = M
  BY DesignTypes DEF Positive
<1>2. /\ design.n_aie_cols = 1 /\ n_shim_mem_A = 1 /\ Cols = {0} /\ Shims = {0}
  BY DEF SingleShape, Cols, Shims, n_shim_mem_A
<1>3. PICK W, n, k : W = Reps * K /\ n = 2 * Reps * K /\ k = 2 * Reps
  OBVIOUS
<1>4. W \in Nat \ {0} /\ n \in Nat /\ n = 2 * W /\ k \in Nat
  <2>1. 1 * K <= Reps * K /\ 1 * K = K /\ Reps * K \in Nat
    BY Monotone
  <2>2. W \in Nat \ {0}
    BY <1>3, <2>1
  <2>3. 2 * Reps * K = 2 * (Reps * K) /\ 2 * Reps \in Nat
    OBVIOUS
  <2>4. n = 2 * W /\ k \in Nat
    BY <1>3, <2>3
  <2>. QED BY <2>2, <2>4
<1>5. AFilled([i \in Shims |-> Single!AFills(dispatch, 2 * g, 2)], 2 * g, 2)
  <2>1. ASSUME NEW e \in 1 .. n
        PROVE  (2 * g + (e - 1) \div W) % M = (2 * g + (e - 1) \div W) * 1 + 0
    <3>1. PICK q : q = (e - 1) \div W
      OBVIOUS
    <3>2. q \in 0 .. 2 - 1
      BY <1>4, <3>1, BlockInGroup
    <3>. QED BY <1>1, <3>1, <3>2
  <2>2. Single!AFills(dispatch, 2 * g, 2) = [e \in 1 .. n |->
            <<dispatch, (2 * g + (e - 1) \div W) % M, (e - 1) % K>>]
    BY <1>1, <1>3 DEF Single!AFills
  <2>3. /\ IsList(Single!AFills(dispatch, 2 * g, 2)) /\ Len(Single!AFills(dispatch, 2 * g, 2)) = n
        /\ \A e \in 1 .. n : Single!AFills(dispatch, 2 * g, 2)[e] =
              <<dispatch, (2 * g + (e - 1) \div W) % M, (e - 1) % K>>
    <3>1. PICK f : f = Single!AFills(dispatch, 2 * g, 2)
      OBVIOUS
    <3>2. \A e \in 1 .. n : f[e] = <<dispatch, (2 * g + (e - 1) \div W) % M, (e - 1) % K>>
      BY <2>2, <3>1
    <3>3. IsListOf(f, n)
      BY <2>2, <3>1, Zenon DEF IsListOf
    <3>. QED BY <1>4, <3>1, <3>2, <3>3, ListOf
  <2>4. \A e \in 1 .. n : Single!AFills(dispatch, 2 * g, 2)[e] =
            <<dispatch, (2 * g + (e - 1) \div W) * 1 + 0, (e - 1) % K>>
    BY <2>1, <2>3
  <2>. QED BY <1>1, <1>2, <1>3, <2>3, <2>4 DEF AFilled
<1>6. BFilled([c \in Cols |-> Single!BFills(dispatch, 2)], 2)
  <2>1. Single!BFills(dispatch, 2) = [e \in 1 .. n |->
            <<dispatch, ((e - 1) \div K) % Reps, (e - 1) % K>>]
    BY <1>1, <1>3 DEF Single!BFills
  <2>2. ASSUME NEW e \in 1 .. n
        PROVE  ((e - 1) \div K) % Reps = 0 + 1 * (((e - 1) \div K) % Reps)
    <3>1. PICK q : q = (e - 1) \div K
      OBVIOUS
    <3>2. q \in Int
      BY <1>4, <3>1, DivMod
    <3>3. q % Reps \in 0 .. Reps - 1
      BY <3>2, DivMod
    <3>. QED BY <3>1, <3>3
  <2>3. /\ IsList(Single!BFills(dispatch, 2)) /\ Len(Single!BFills(dispatch, 2)) = n
        /\ \A e \in 1 .. n : Single!BFills(dispatch, 2)[e] =
              <<dispatch, ((e - 1) \div K) % Reps, (e - 1) % K>>
    BY <1>4, <2>1, ListOf DEF IsListOf
  <2>4. \A e \in 1 .. n : Single!BFills(dispatch, 2)[e] =
            <<dispatch, 0 + 1 * (((e - 1) \div K) % Reps), (e - 1) % K>>
    BY <2>2, <2>3
  <2>. QED BY <1>1, <1>2, <1>3, <2>3, <2>4 DEF BFilled
<1>7. CDrained([c \in Cols |-> Single!CTap(g)], 2 * g, 2)
  <2>1. Single!CTap(g) = [e \in 1 .. k |->
            <<g * 2 + (e - 1) \div Reps, (e - 1) % Reps>>]
    BY <1>1, <1>3 DEF Single!CTap, Single!rows_per_block
  <2>2. \A e \in 1 .. k : (e - 1) % Reps = 0 + 1 * ((e - 1) % Reps)
    <3>1. \A e \in 1 .. k : e - 1 \in Int
      OBVIOUS
    <3>2. \A e \in 1 .. k : (e - 1) % Reps \in 0 .. Reps - 1
      BY <3>1, DivMod
    <3>. QED BY <3>2
  <2>3. /\ IsList(Single!CTap(g)) /\ Len(Single!CTap(g)) = k
        /\ \A e \in 1 .. k : Single!CTap(g)[e] = <<g * 2 + (e - 1) \div Reps, (e - 1) % Reps>>
    BY <1>4, <2>1 DEF IsList
  <2>4. g * 2 = 2 * g
    OBVIOUS
  <2>5. \A e \in 1 .. k : Single!CTap(g)[e] =
            <<2 * g + (e - 1) \div Reps, 0 + 1 * ((e - 1) % Reps)>>
    BY <2>2, <2>3, <2>4
  <2>. QED BY <1>1, <1>2, <1>3, <2>3, <2>5 DEF CDrained
<1>. QED BY <1>5, <1>6, <1>7

\* The first dispatch has not begun.
LEMMA SingleInitIInv ==
    ASSUME Single!LinesFit, Single!Init
    PROVE  SingleIInv /\ Abstract!Init
<1>1. PICK o \in CommandLines : design = Single!Build(o) /\ Single!Asserts(o) /\ Single!TilerAccepts(o)
  BY DEF Single!Init
<1>2. /\ o.M \in Positive /\ o.K \in Positive /\ o.N \in Positive
      /\ o.m \in Positive /\ o.k \in Positive /\ o.n \in Positive
  BY DEF Single!LinesFit, Single!Positive, Positive
<1>3. /\ o.M \div o.m \in Positive /\ o.K \div o.k \in Positive /\ o.N \div o.n \in Positive
      /\ (o.M \div o.m) % 2 = 0
  BY <1>1, <1>2, WholeTiles DEF Single!Asserts, Single!TilerAccepts, Single!rows_per_block
<1>4. /\ design.n_aie_rows = 1 /\ design.n_aie_cols = 1 /\ design.RowBlocks = o.M \div o.m
      /\ Shape
  BY <1>1, <1>3 DEF Single!Build, Single!rows_per_block, Shape, Design, Positive
<1>5. SingleShape
  <2>1. PICK M, G : M = o.M \div o.m /\ G = M \div 2
    OBVIOUS
  <2>2. M \in Nat \ {0} /\ M % 2 = 0
    BY <1>3, <2>1 DEF Positive
  <2>3. G \in Nat \ {0} /\ M = 2 * G
    BY <2>1, <2>2
  <2>. QED BY <1>4, <2>1, <2>3 DEF SingleShape
<1>6. Idle
  BY <1>5, SingleArray DEF Single!Init
<1>7. ArrayInv
  BY <1>4, <1>6, IdleInv
<1>8. dispatch = 0 /\ completed = 0 /\ iter = 0 /\ groups = 0 /\ waiting = FALSE /\ tgs = <<>>
      /\ freed = Ends(streamA, streamB, streamC)
  BY <1>6 DEF Idle
<1>9. ~Running
  BY <1>8 DEF Running
<1>10. SinglePhases
  <2>1. PICK G \in Nat \ {0} : SingleGroups = G
    BY <1>5, SingleTiling
  <2>2. groups = (IF iter < G THEN iter ELSE G) /\ iter \in Nat
    BY <1>8
  <2>3. waiting \in BOOLEAN
    BY <1>8
  <2>. QED BY <2>1, <2>2, <2>3 DEF SinglePhases
<1>11. SingleInFlight /\ SingleCovered
  BY <1>8, <1>9 DEF SingleInFlight, SingleCovered
<1>12. FreedUsed
  <2>1. Issued \in Nat /\ EndsAt(freed, Issued)
    BY <1>7, <1>8, EndsAtIssued
  <2>2. \A c \in Cols : drained[c] = Issued /\ drained[c] \in Nat
    BY <1>7, <1>9 DEF ArrayInv, Quiet, Matched, Types
  <2>3. GroupDone(freed)
    BY <2>1, <2>2 DEF GroupDone, EndsAt
  <2>. QED BY <1>7, <2>1, <2>3, GroupUsed DEF FreedUsed
<1>. QED BY <1>5, <1>6, <1>7, <1>8, <1>10, <1>11, <1>12, IdleAbstract, DispatchesAssumption
         DEF SingleIInv

\* Steps of the array.
LEMMA SingleArrayIInv ==
    ASSUME SingleIInv, Array
    PROVE  SingleIInv'
<1>1. /\ ArrayInv' /\ (\A n : Covers(n) => Covers(n)')
      /\ UNCHANGED <<design, sequenceVars, streams>>
  BY ArrayStep DEF SingleIInv
<1>2. UNCHANGED <<design, dispatch, completed, iter, groups, waiting, tgs, freed,
                  streamA, streamB, streamC>>
  BY <1>1 DEF sequenceVars, streams
<1>3. /\ SingleGroups' = SingleGroups /\ SingleShape' = SingleShape
      /\ \A e, m : EndsAt(e, m)' = EndsAt(e, m)
      /\ \A a, b, c : Ends(a, b, c)' = Ends(a, b, c)
      /\ Rows' = Rows /\ Cols' = Cols /\ \A r : ShimOf(r)' = ShimOf(r)
  BY <1>2, SingleKept
<1>4. SinglePhases' /\ SingleInFlight' /\ SingleCovered'
  BY <1>1, <1>2, <1>3 DEF SingleIInv, SinglePhases, SingleInFlight, SingleCovered, Running
<1>5. FreedUsed'
  <2>1. ASSUME NEW r \in Rows, NEW c \in Cols
        PROVE  /\ freed.A[ShimOf(r)] \in Int /\ used'[<<r, c>>] >= freed.A[ShimOf(r)]
               /\ freed.B[c] \in Int /\ used'[<<r, c>>] >= freed.B[c]
    <3>1. used[<<r, c>>] \in Nat /\ used'[<<r, c>>] \in Nat /\ used[<<r, c>>] <= used'[<<r, c>>]
      BY ArrayAhead DEF SingleIInv
    <3>2. /\ freed.A[ShimOf(r)] \in Int /\ used[<<r, c>>] >= freed.A[ShimOf(r)]
          /\ freed.B[c] \in Int /\ used[<<r, c>>] >= freed.B[c]
      BY DEF SingleIInv, FreedUsed
    <3>. QED BY <3>1, <3>2
  <2>. QED BY <1>2, <1>3, <2>1 DEF FreedUsed
<1>. QED BY <1>1, <1>2, <1>3, <1>4, <1>5 DEF SingleIInv

\* A dispatch begins.
LEMMA SingleBeginIInv ==
    ASSUME SingleIInv, Begin
    PROVE  SingleIInv'
<1>1. ArrayInv' /\ Covers(0)' /\ Running'
  BY BeginInv DEF SingleIInv
<1>2. /\ ~Running /\ dispatch < Dispatches /\ dispatch' = dispatch + 1 /\ iter' = 0 /\ groups' = 0
      /\ UNCHANGED <<design, completed, waiting, tgs, freed, streamA, streamB, streamC, used>>
  BY DEF Begin, streams, coreVars
<1>3. /\ SingleGroups' = SingleGroups /\ SingleShape' = SingleShape
      /\ Rows' = Rows /\ Cols' = Cols /\ \A r : ShimOf(r)' = ShimOf(r)
  BY <1>2, SingleKept
<1>4. SinglePhases'
  <2>1. PICK G \in Nat \ {0} : SingleGroups = G
    BY SingleTiling DEF SingleIInv
  <2>. QED BY <1>2, <1>3, <2>1 DEF SingleIInv, SinglePhases
<1>5. SingleInFlight' /\ FreedUsed'
  BY <1>1, <1>2, <1>3 DEF SingleIInv, SingleInFlight, FreedUsed
<1>6. SingleCovered'
  BY <1>1, <1>2 DEF SingleCovered
<1>7. dispatch' <= Dispatches
  BY <1>2, DispatchesAssumption DEF SingleIInv, ArrayInv, Counts
<1>. QED BY <1>1, <1>3, <1>4, <1>5, <1>6, <1>7 DEF SingleIInv

\* An iteration for which no rows are left.
LEMMA SingleSkipIInv ==
    ASSUME SingleIInv, Single!Skip
    PROVE  SingleIInv'
<1>1. /\ Running /\ ~waiting /\ Single!NumTileRows <= 0 /\ iter' = iter + 1
      /\ UNCHANGED <<design, dispatch, completed, groups, waiting, tgs, freed>>
      /\ UNCHANGED <<design, dispatch, completed, streams, moved, coreVars, mem>>
      /\ UNCHANGED <<streamA, streamB, streamC, used>>
  BY DEF Single!Skip, Single!Running, Running, Single!streams, Single!moved, Single!coreVars,
         streams, moved, coreVars
<1>2. ArrayInv' /\ \A n : Covers(n) => Covers(n)'
  BY <1>1, ArrayInvKept DEF SingleIInv
<1>3. /\ SingleGroups' = SingleGroups /\ SingleShape' = SingleShape
      /\ \A e, m : EndsAt(e, m)' = EndsAt(e, m)
      /\ \A a, b, c : Ends(a, b, c)' = Ends(a, b, c)
      /\ Rows' = Rows /\ Cols' = Cols /\ \A r : ShimOf(r)' = ShimOf(r)
  BY <1>1, SingleKept
<1>4. PICK G \in Nat \ {0} :
          /\ SingleGroups = G
          /\ iter \in Nat => Single!NumTileRows = (IF iter < G THEN 2 ELSE 2 * G - 2 * iter)
  BY SingleTiling DEF SingleIInv
<1>5. iter \in Nat /\ iter >= G /\ groups = G /\ waiting = FALSE
  BY <1>1, <1>4 DEF SingleIInv, SinglePhases
<1>6. SinglePhases'
  <2>1. iter' \in Nat /\ groups' = IF iter' < G THEN iter' ELSE G
    BY <1>1, <1>5
  <2>2. waiting' \in BOOLEAN
    BY <1>1, <1>5
  <2>. QED BY <1>3, <1>4, <2>1, <2>2 DEF SinglePhases
<1>7. SingleInFlight'
  <2>1. iter > 0 /\ iter' > 0 /\ Running'
    BY <1>1, <1>5 DEF Running
  <2>. QED BY <1>1, <1>3, <2>1 DEF SingleIInv, SingleInFlight
<1>8. FreedUsed' /\ SingleCovered'
  BY <1>1, <1>2, <1>3 DEF SingleIInv, FreedUsed, SingleCovered, Running
<1>. QED BY <1>1, <1>2, <1>3, <1>6, <1>7, <1>8 DEF SingleIInv

\* The older of two task groups is given up; the newer is still on its way.
LEMMA SingleFinishIInv ==
    ASSUME SingleIInv, Single!Finish
    PROVE  SingleIInv'
<1>1. /\ Running /\ waiting /\ FinishOldest /\ waiting' = FALSE
      /\ UNCHANGED <<design, dispatch, completed, iter, groups, streamA, streamB, streamC, used>>
      /\ UNCHANGED <<design, dispatch, completed, streams, moved, coreVars, mem>>
  BY SingleArray DEF SingleIInv, Single!Finish, Single!Running, Running, FinishOldest, streams, moved,
                     coreVars
<1>2. ArrayInv' /\ \A n : Covers(n) => Covers(n)'
  BY <1>1, ArrayInvKept DEF SingleIInv
<1>3. /\ SingleGroups' = SingleGroups /\ SingleShape' = SingleShape
      /\ \A a, b, c : Ends(a, b, c)' = Ends(a, b, c)
      /\ Rows' = Rows /\ Cols' = Cols /\ \A r : ShimOf(r)' = ShimOf(r)
  BY <1>1, SingleKept
<1>4. iter > 0 /\ iter \in Nat
  BY <1>1 DEF SingleIInv, SinglePhases, SingleInFlight
<1>5. PICK e, m : m \in Nat /\ EndsAt(e, m) /\ tgs = <<e, Ends(streamA, streamB, streamC)>>
  BY <1>1, <1>4 DEF SingleIInv, SingleInFlight
<1>6. Head(tgs) = e /\ Tail(tgs) = <<Ends(streamA, streamB, streamC)>>
  BY <1>5
<1>7. GroupDone(e) /\ freed' = e /\ tgs' = <<Ends(streamA, streamB, streamC)>>
  BY <1>1, <1>6 DEF FinishOldest
<1>8. SinglePhases'
  BY <1>1, <1>3 DEF SingleIInv, SinglePhases
<1>9. SingleInFlight'
  <2>1. Running' /\ iter' > 0 /\ ~waiting'
    BY <1>1, <1>4 DEF Running
  <2>. QED BY <1>1, <1>3, <1>7, <2>1 DEF SingleInFlight
<1>10. FreedUsed'
  <2>1. \A r \in Rows, c \in Cols :
            /\ e.A[ShimOf(r)] \in Int /\ used[<<r, c>>] >= e.A[ShimOf(r)]
            /\ e.B[c] \in Int /\ used[<<r, c>>] >= e.B[c]
    BY <1>5, <1>7, GroupUsed DEF SingleIInv
  <2>. QED BY <1>1, <1>3, <1>7, <2>1 DEF FreedUsed
<1>11. SingleCovered'
  BY <1>1, <1>2 DEF SingleIInv, SingleCovered, Running
<1>. QED BY <1>1, <1>2, <1>3, <1>8, <1>9, <1>10, <1>11 DEF SingleIInv

\* An iteration issues the fills and the drain of its rows, the next two row blocks.
LEMMA SingleIssueIInv ==
    ASSUME SingleIInv, Single!Issue
    PROVE  SingleIInv'
<1> DEFINE a == [i \in Shims |-> Single!AFills(dispatch, 2 * groups, 2)]
           b == [c \in Cols |-> Single!BFills(dispatch, 2)]
           s == [c \in Cols |-> Single!CTap(groups)]
<1>1. /\ Running /\ ~waiting /\ Single!NumTileRows > 0
      /\ tgs' = Append(tgs, Ends(streamA', streamB', streamC')) /\ groups' = groups + 1
      /\ iter' = iter + 1 /\ waiting' = (iter > 0)
      /\ UNCHANGED <<design, dispatch, completed, freed, moved, coreVars, mem, used>>
      /\ UNCHANGED <<design, dispatch, completed, moved, coreVars, mem>>
  BY SingleArray DEF SingleIInv, Single!Issue, Single!Running, Running, Single!moved, Single!coreVars,
                     moved, coreVars
<1>2. ArrayInv /\ Shape /\ SingleShape
  BY DEF SingleIInv, ArrayInv
<1>3. /\ SingleGroups' = SingleGroups /\ SingleShape' = SingleShape
      /\ \A e, m : EndsAt(e, m)' = EndsAt(e, m)
      /\ \A x, y, z : Ends(x, y, z)' = Ends(x', y', z')
      /\ Rows' = Rows /\ Cols' = Cols /\ \A r : ShimOf(r)' = ShimOf(r)
  BY <1>1, SingleKept
<1>4. PICK G \in Nat \ {0} :
          /\ design.RowBlocks = 2 * G /\ SingleGroups = G
          /\ iter \in Nat => Single!RowBase = 2 * iter
          /\ iter \in Nat => Single!NumTileRows = (IF iter < G THEN 2 ELSE 2 * G - 2 * iter)
  BY <1>2, SingleTiling
<1>5. /\ iter \in 0 .. G - 1 /\ groups = iter /\ Single!NumTileRows = 2
      /\ Single!RowBase = 2 * groups /\ 2 * groups + 2 <= design.RowBlocks
  <2>1. iter \in Nat /\ groups = IF iter < G THEN iter ELSE G
    BY <1>4 DEF SingleIInv, SinglePhases
  <2>2. iter < G
    BY <1>1, <1>4, <2>1
  <2>. QED BY <1>4, <2>1, <2>2
<1>6. Issues(a, b, s)
  <2>1. Shims = {0} /\ Cols = {0}
    BY <1>2 DEF SingleShape, Shims, Cols, n_shim_mem_A
  <2>2. DOMAIN streamA = Shims /\ DOMAIN streamB = Cols /\ DOMAIN streamC = Cols
    BY <1>2 DEF ArrayInv, Types
  <2>3. /\ streamA' = [streamA EXCEPT ![0] = streamA[0] \o Single!AFills(dispatch, 2 * groups, 2)]
        /\ streamB' = [streamB EXCEPT ![0] = streamB[0] \o Single!BFills(dispatch, 2)]
        /\ streamC' = [streamC EXCEPT ![0] = streamC[0] \o Single!CTap(groups)]
    BY <1>5 DEF Single!Issue
  <2>. QED BY <2>1, <2>2, <2>3 DEF Issues
<1>7. AFilled(a, 2 * groups, 2) /\ BFilled(b, 2) /\ CDrained(s, 2 * groups, 2)
  <2>1. groups \in Nat /\ 2 * groups + 2 <= design.RowBlocks
    BY <1>5
  <2>. QED BY <1>2, <2>1, SingleTaps, Zenon
<1>. HIDE DEF a, b, s
<1>8. PICK base, next, n : base = 2 * groups /\ next = base + 2 /\ n = 2 * design.Reps
  OBVIOUS
<1>9. base \in Nat /\ next \in Nat /\ next = (groups + 1) * 2 /\ base = groups * 2 /\ n \in Nat
      /\ base + 2 <= design.RowBlocks
  BY <1>2, <1>5, <1>8, DesignTypes DEF Positive
<1>10. GroupOf(a, b, s, n) /\ GroupCovers(s, n, base, next)
  <2>1. AFilled(a, base, 2) /\ CDrained(s, base, 2)
    BY <1>7, <1>8
  <2>2. GroupOf(a, b, s, 2 * design.Reps) /\ GroupCovers(s, 2 * design.Reps, base, base + 2)
    BY <1>2, <1>7, <1>9, <2>1, GroupFills
  <2>. QED BY <1>8, <2>2
<1>11. ArrayInv' /\ (Covers(base) => Covers(next)')
  <2>1. ArrayInv' /\ AlsoCovers(s, n)
    BY <1>1, <1>2, <1>6, <1>9, <1>10, IssueInv
  <2>. QED BY <1>9, <1>10, <2>1 DEF AlsoCovers
<1>12. SinglePhases'
  <2>1. iter' \in Nat /\ groups' = (IF iter' < G THEN iter' ELSE G) /\ waiting' \in BOOLEAN
    BY <1>1, <1>4, <1>5
  <2>. QED BY <1>3, <1>4, <2>1 DEF SinglePhases
<1>13. SingleInFlight'
  <2>1. Running' /\ iter' > 0 /\ iter' # 0
    BY <1>1, <1>5 DEF Running
  <2>2. PICK new : new = Ends(streamA', streamB', streamC')
    OBVIOUS
  <2>3. Ends(streamA, streamB, streamC)' = new
    BY <1>3, <2>2
  <2>4. CASE iter = 0
    <3>1. tgs = <<>> /\ ~waiting'
      <4>1. ~(iter > 0)
        BY <2>4
      <4>2. tgs = <<>>
        BY <2>4 DEF SingleIInv, SingleInFlight
      <4>. QED BY <1>1, <4>1, <4>2
    <3>2. tgs' = <<new>>
      BY <1>1, <2>2, <3>1
    <3>. QED BY <2>1, <2>3, <3>1, <3>2 DEF SingleInFlight
  <2>5. CASE iter # 0
    <3>1. iter > 0 /\ waiting'
      <4>1. iter > 0
        BY <1>5, <2>5
      <4>. QED BY <1>1, <4>1
    <3>2. PICK e, m : e = Ends(streamA, streamB, streamC) /\ m = Issued
      OBVIOUS
    <3>3. m \in Nat /\ EndsAt(e, m)
      BY <1>2, <3>2, EndsAtIssued
    <3>4. tgs = <<e>>
      BY <1>1, <3>1, <3>2 DEF SingleIInv, SingleInFlight
    <3>5. tgs' = <<e, new>>
      <4>1. tgs' = Append(tgs, new)
        BY <1>1, <2>2
      <4>2. IsList(tgs) /\ Len(tgs) = 1 /\ tgs[1] = e
        BY <3>4 DEF IsList
      <4>3. Append(tgs, new) = <<e, new>>
        <5>1. PICK f : f = <<e, new>>
          OBVIOUS
        <5>2. IsListOf(f, Len(tgs) + 1)
          BY <4>2, <5>1 DEF IsListOf
        <5>3. new = f[Len(tgs) + 1] /\ \A i \in 1 .. Len(tgs) : tgs[i] = f[i]
          BY <4>2, <5>1
        <5>4. Append(tgs, new) = f
          BY <4>2, <5>2, <5>3, AppendedIs
        <5>. QED BY <5>1, <5>4
      <4>. QED BY <4>1, <4>3
    <3>6. EndsAt(e, m)'
      BY <1>3, <3>3
    <3>. QED BY <2>1, <2>3, <3>1, <3>3, <3>5, <3>6 DEF SingleInFlight
  <2>. QED BY <2>4, <2>5
<1>14. FreedUsed'
  BY <1>1, <1>3 DEF SingleIInv, FreedUsed
<1>15. SingleCovered'
  <2>1. Covers(base)
    BY <1>1, <1>9 DEF SingleIInv, SingleCovered
  <2>2. groups' * 2 = next
    BY <1>1, <1>9
  <2>. QED BY <1>11, <2>1, <2>2 DEF SingleCovered
<1>. QED BY <1>1, <1>3, <1>11, <1>12, <1>13, <1>14, <1>15 DEF SingleIInv

\* The last task group is given up: everything has been stored.
LEMMA SingleCompleteStores ==
    ASSUME SingleIInv, Single!Complete
    PROVE  /\ Running /\ ~waiting /\ completed' = dispatch
           /\ \A c \in Cols : drained[c] = Len(streamC[c])
           /\ \A tile \in Tiles : mem[Place(tile)] = Product(dispatch, tile)
           /\ tgs' = <<>> /\ freed' = Ends(streamA, streamB, streamC)
           /\ UNCHANGED <<design, dispatch, iter, groups, waiting, streams, moved, coreVars, mem>>
<1>1. /\ Running /\ ~waiting /\ iter >= Single!Iterations /\ completed' = dispatch /\ FinishOldest
      /\ UNCHANGED <<design, dispatch, iter, groups, waiting, streams, moved, coreVars, mem>>
  BY SingleArray DEF SingleIInv, Single!Complete, Single!Running, Running, FinishOldest
<1>2. PICK G \in Nat \ {0} :
          /\ design.RowBlocks = 2 * G /\ SingleGroups = G
          /\ Single!Iterations \in Nat /\ G <= Single!Iterations
  BY SingleTiling DEF SingleIInv
<1>3. iter \in Nat /\ iter > 0 /\ groups = G
  BY <1>1, <1>2 DEF SingleIInv, SinglePhases
<1>4. PICK e : e = Ends(streamA, streamB, streamC)
  OBVIOUS
<1>5. tgs = <<e>>
  BY <1>1, <1>3, <1>4 DEF SingleIInv, SingleInFlight
<1>6. Head(tgs) = e /\ Tail(tgs) = <<>>
  BY <1>5
<1>7. GroupDone(e) /\ freed' = e /\ tgs' = <<>>
  BY <1>1, <1>6 DEF FinishOldest
<1>8. \A c \in Cols : drained[c] >= Len(streamC[c])
  BY <1>4, <1>7, EndsParts DEF GroupDone
<1>9. \A c \in Cols : drained[c] = Len(streamC[c])
  BY <1>8, DrainedMeansUsed DEF SingleIInv
<1>10. Covers(design.RowBlocks)
  <2>1. groups * 2 = design.RowBlocks
    BY <1>2, <1>3
  <2>. QED BY <1>1, <2>1 DEF SingleIInv, SingleCovered
<1>11. ASSUME NEW tile \in Tiles PROVE mem[Place(tile)] = Product(dispatch, tile)
  <2>1. tile[1] < design.RowBlocks * design.n_aie_rows
    BY DesignTypes DEF SingleIInv, ArrayInv, Tiles, Positive
  <2>2. ~Pending(tile)
    <3>1. \A c \in Cols : Len(streamC[c]) \in Nat
      BY DEF SingleIInv, ArrayInv, Types, IsList
    <3>. QED BY <1>9, <3>1 DEF Pending
  <2>. QED BY <1>10, <2>1, <2>2 DEF Covers
<1>. QED BY <1>1, <1>4, <1>7, <1>9, <1>11

\* The sequence ends.
LEMMA SingleCompleteIInv ==
    ASSUME SingleIInv, Single!Complete
    PROVE  SingleIInv'
<1>1. /\ Running /\ ~waiting /\ completed' = dispatch
      /\ UNCHANGED <<design, dispatch, iter, groups, waiting, streams, moved, coreVars, mem>>
      /\ UNCHANGED <<streamA, streamB, streamC, filledA, filledB, sentA, sentB, sentC, drained,
                     used, holds, acc, results>>
      /\ \A c \in Cols : drained[c] = Len(streamC[c])
      /\ \A tile \in Tiles : mem[Place(tile)] = Product(dispatch, tile)
      /\ tgs' = <<>> /\ freed' = Ends(streamA, streamB, streamC)
  BY SingleCompleteStores DEF streams, moved, coreVars
<1>2. /\ SingleGroups' = SingleGroups /\ SingleShape' = SingleShape
      /\ \A a, b, c : Ends(a, b, c)' = Ends(a, b, c)
      /\ Rows' = Rows /\ Cols' = Cols /\ Shims' = Shims /\ \A r : ShimOf(r)' = ShimOf(r)
  BY <1>1, SingleKept
<1>3. ArrayInv'
  BY <1>1, CompletedInv DEF SingleIInv
<1>4. ~Running'
  BY <1>1, <1>3 DEF Running, ArrayInv, Counts
<1>5. SinglePhases'
  BY <1>1, <1>2 DEF SingleIInv, SinglePhases
<1>6. SingleInFlight'
  BY <1>1, <1>2, <1>4 DEF SingleInFlight
<1>7. FreedUsed'
  <2>1. PICK e, m : e = freed' /\ m = Issued
    OBVIOUS
  <2>2. m \in Nat /\ EndsAt(e, m)
    BY <1>1, <2>1, EndsAtIssued DEF SingleIInv
  <2>3. \A c \in Cols : drained[c] = m /\ drained[c] \in Nat
    BY <1>1, <2>1 DEF SingleIInv, ArrayInv, Matched, Types
  <2>4. GroupDone(e)
    BY <2>2, <2>3 DEF GroupDone, EndsAt
  <2>5. \A r \in Rows, c \in Cols :
            /\ e.A[ShimOf(r)] \in Int /\ used[<<r, c>>] >= e.A[ShimOf(r)]
            /\ e.B[c] \in Int /\ used[<<r, c>>] >= e.B[c]
    BY <2>2, <2>4, GroupUsed DEF SingleIInv
  <2>. QED BY <1>1, <1>2, <2>1, <2>5 DEF FreedUsed
<1>8. SingleCovered'
  BY <1>4 DEF SingleCovered
<1>. QED BY <1>1, <1>2, <1>3, <1>5, <1>6, <1>7, <1>8 DEF SingleIInv

\* Every step keeps the invariant, and is one of the abstract GEMM or none.
LEMMA SingleStep ==
    ASSUME SingleIInv, [Single!Next]_(Single!vars)
    PROVE  SingleIInv' /\ [Abstract!Next]_Abstract!vars
<1>1. CASE Single!Begin
  <2>1. Begin
    BY <1>1, SingleArray DEF SingleIInv
  <2>. QED BY <2>1, SingleBeginIInv, BeginAbstract DEF SingleIInv
<1>2. CASE Single!Fifos \/ Single!Core
  <2>1. Array
    BY <1>2, SingleArray DEF SingleIInv
  <2>. QED BY <2>1, SingleArrayIInv, ArrayAbstract DEF SingleIInv
<1>3. CASE Single!Issue \/ Single!Skip \/ Single!Finish
  <2>1. UNCHANGED <<design, dispatch, completed, mem>>
    BY <1>3 DEF Single!Issue, Single!Skip, Single!Finish, Single!FinishOldest
  <2>2. SingleIInv'
    BY <1>3, SingleIssueIInv, SingleSkipIInv, SingleFinishIInv
  <2>. QED BY <2>1, <2>2, KeptAbstract
<1>4. CASE Single!Complete
  <2>1. /\ Running /\ completed' = dispatch /\ UNCHANGED <<design, dispatch, mem>>
        /\ \A tile \in Tiles : mem[Place(tile)] = Product(dispatch, tile)
    BY <1>4, SingleCompleteStores
  <2>2. SingleIInv'
    BY <1>4, SingleCompleteIInv
  <2>. QED BY <2>1, <2>2, CompleteAbstract DEF SingleIInv
<1>5. CASE UNCHANGED Single!vars
  <2>1. UNCHANGED vars
    BY <1>5 DEF Single!vars, Single!sequenceVars, Single!streams, Single!moved, Single!coreVars,
                vars, sequenceVars, streams, moved, coreVars
  <2>2. /\ UNCHANGED <<design, dispatch, completed, mem>>
        /\ UNCHANGED <<design, dispatch, completed, streams, moved, coreVars, mem>>
        /\ UNCHANGED <<iter, groups, waiting, tgs, freed, streamA, streamB, streamC, used>>
    BY <2>1 DEF vars, sequenceVars, streams, coreVars
  <2>3. ArrayInv' /\ \A n : Covers(n) => Covers(n)'
    BY <2>2, ArrayInvKept DEF SingleIInv
  <2>4. /\ SingleGroups' = SingleGroups /\ SingleShape' = SingleShape
        /\ \A e, m : EndsAt(e, m)' = EndsAt(e, m)
        /\ \A a, b, c : Ends(a, b, c)' = Ends(a, b, c)
        /\ Rows' = Rows /\ Cols' = Cols /\ \A r : ShimOf(r)' = ShimOf(r)
    BY <2>2, SingleKept
  <2>5. SinglePhases' /\ SingleInFlight' /\ FreedUsed' /\ SingleCovered'
    BY <2>2, <2>3, <2>4 DEF SingleIInv, SinglePhases, SingleInFlight, FreedUsed, SingleCovered,
                            Running
  <2>6. SingleIInv'
    BY <2>2, <2>3, <2>4, <2>5 DEF SingleIInv
  <2>. QED BY <2>2, <2>6, KeptAbstract
<1>. QED BY <1>1, <1>2, <1>3, <1>4, <1>5 DEF Single!Next, Single!Host, Single!Finished

\* The single-core design keeps the same properties for every size its checks accept: with
\* two task groups in flight, the fills of the older are used up before it is given up.
THEOREM SingleInvariance ==
    ASSUME Single!LinesFit
    PROVE  Single!Spec => [](TypeOK /\ FreedMeansUsed /\ StoredRight)
<1>1. Single!Init => SingleIInv
  BY SingleInitIInv
<1>2. SingleIInv /\ [Single!Next]_(Single!vars) => SingleIInv'
  BY SingleStep
<1>3. SingleIInv => TypeOK /\ FreedMeansUsed /\ StoredRight
  <2>1. ASSUME SingleIInv PROVE groups \in Nat /\ Len(tgs) <= 2
    <3>1. PICK G \in Nat \ {0} : SingleGroups = G
      BY <2>1, SingleTiling DEF SingleIInv
    <3>2. groups \in Nat
      BY <2>1, <3>1 DEF SingleIInv, SinglePhases
    <3>3. tgs = <<>> \/ (\E x : tgs = <<x>>) \/ \E x, y : tgs = <<x, y>>
      BY <2>1 DEF SingleIInv, SinglePhases, SingleInFlight
    <3>4. Len(tgs) <= 2
      <4>1. \A x : Len(<<x>>) = 1 /\ \A y : Len(<<x, y>>) = 2
        OBVIOUS
      <4>2. Len(tgs) \in 0 .. 2
        <5>1. CASE tgs = <<>>
          BY <5>1
        <5>2. CASE \E x : tgs = <<x>>
          BY <4>1, <5>2
        <5>3. CASE \E x, y : tgs = <<x, y>>
          BY <4>1, <5>3
        <5>. QED BY <3>3, <5>1, <5>2, <5>3
      <4>3. \A n \in 0 .. 2 : n <= 2
        OBVIOUS
      <4>. QED BY <4>2, <4>3, Zenon
    <3>. QED BY <3>2, <3>4
  <2>. QED BY <2>1, ArrayTypeOK, ArrayFreed, IsStoredRight
           DEF SingleIInv, SinglePhases, SingleInFlight
<1>. QED BY <1>1, <1>2, <1>3, PTL DEF Single!Spec

\* A dispatch of the single-core design computes the GEMM.
THEOREM SingleComputesGemm ==
    ASSUME Single!LinesFit
    PROVE  Single!Spec => Abstract!Safety
<1>1. Single!Init => SingleIInv /\ Abstract!Init
  BY SingleInitIInv
<1>2. SingleIInv /\ [Single!Next]_(Single!vars) => SingleIInv' /\ [Abstract!Next]_Abstract!vars
  BY SingleStep
<1>. QED BY <1>1, <1>2, PTL DEF Single!Spec, Abstract!Safety

=============================================================================
