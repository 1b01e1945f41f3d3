-------------------------- MODULE AccumulateProofs --------------------------
(***************************************************************************)
(* For any callers, calls, tensors, shapes, and sizes of tiles and chunks:  *)
(* what the device sees is the slice of the tile it should, g_acc holds the *)
(* exact sums from the return of accumulate to the next one that begins,    *)
(* and the rows a call writes before that are right.                        *)
(*                                                                         *)
(* The invariant says, of the caller that holds g_mu, how far its sums have *)
(* got: the tiles before t0 are exact in g_acc, and column n of the current *)
(* tile is summed over the first Upto(c, n) of K, in part or in g_acc.      *)
(* Three facts carry it: the places WithBlock replaces are those of the     *)
(* block (BlockAt, by the uniqueness of quotient and remainder); a dispatch *)
(* computes the products of its slice (DispatchOf, from what the slabs and  *)
(* the staging buffer hold); and slices are disjoint, so that adding their  *)
(* bags is the bag of their union (PartialAdd).                             *)
(***************************************************************************)
EXTENDS Accumulate, ResidencyProofs, FiniteSetTheorems

-----------------------------------------------------------------------------
(* Arithmetic *)

\* How many chunks of size b cover x, and where they begin.
LEMMA Cover ==
    ASSUME NEW x \in Nat \ {0}, NEW b \in Nat \ {0}, NEW C, C = (x + b - 1) \div b
    PROVE  /\ C \in Nat \ {0}
           /\ C * b >= x
           /\ \A i \in 0 .. C - 1 : i * b \in Nat /\ i * b < x /\ (i + 1) * b = i * b + b
<1>1. /\ C \in Int
      /\ (x + b - 1) % b \in 0 .. b - 1
      /\ x + b - 1 = b * C + ((x + b - 1) % b)
  <2> DEFINE y == x + b - 1
  <2>1. y \in Int
    OBVIOUS
  <2>. HIDE DEF y
  <2>2. y \div b \in Int /\ y % b \in 0 .. b - 1 /\ y = b * (y \div b) + (y % b)
    BY <2>1, DivMod
  <2>. QED BY <2>2, Zenon DEF y
<1> DEFINE m == (x + b - 1) % b
<1>. HIDE DEF m
<1>2. b * C = C * b /\ C * b \in Int
  BY <1>1
<1>3. C * b >= x
  BY <1>1, <1>2 DEF m
<1>4. C >= 1
  <2>1. C <= 0 => C * b <= 0
    BY <1>1
  <2>. QED BY <1>1, <1>2, <1>3, <2>1
<1>5. C * b <= x + b - 1
  BY <1>1, <1>2 DEF m
<1>6. ASSUME NEW i \in 0 .. C - 1
      PROVE  i * b \in Nat /\ i * b < x /\ (i + 1) * b = i * b + b
  <2>1. i \in Nat /\ i <= C - 1
    BY <1>1
  <2>2. i * b \in Nat /\ (i + 1) * b = i * b + b
    BY <2>1
  <2>3. C * b = (i + 1) * b + (C - (i + 1)) * b
    BY <1>1, <2>1
  <2>4. (C - (i + 1)) * b \in Nat
    <3>1. C - (i + 1) \in Nat
      BY <1>1, <2>1
    <3>. QED BY <3>1
  <2>. QED BY <1>2, <1>5, <2>2, <2>3, <2>4
<1>. QED BY <1>1, <1>3, <1>4, <1>6

\* What the chunks of a served shape are.
LEMMA KCover ==
    ASSUME NEW K \in Nat \ {0}
    PROVE  /\ KChunks(K) \in Nat \ {0}
           /\ KChunks(K) * kKChunk >= K
           /\ \A i \in 0 .. KChunks(K) - 1 :
                 i * kKChunk \in Nat /\ i * kKChunk < K /\ (i + 1) * kKChunk = i * kKChunk + kKChunk
BY Cover, kChunkAssumption DEF KChunks

LEMMA NCover ==
    ASSUME NEW N \in Nat \ {0}
    PROVE  /\ NChunks(N) \in Nat \ {0}
           /\ NChunks(N) * kNChunk >= N
           /\ \A i \in 0 .. NChunks(N) - 1 :
                 i * kNChunk \in Nat /\ i * kNChunk < N /\ (i + 1) * kNChunk = i * kNChunk + kNChunk
BY Cover, kChunkAssumption DEF NChunks

\* A place in a flat array, p rows from another one: n and n0 are the columns.
LEMMA Relative ==
    ASSUME NEW N \in Nat \ {0}, NEW p \in Int, NEW n \in 0 .. N - 1, NEW n0 \in 0 .. N
    PROVE  LET d == N * p + (n - n0)
           IN  /\ n >= n0 => d \div N = p /\ d % N = n - n0 /\ (d >= 0 <=> p >= 0)
               /\ n < n0 => d % N = N + n - n0
<1> DEFINE d == N * p + (n - n0)
<1>1. ASSUME NEW q \in Int, NEW e \in 0 .. N - 1, d = N * q + e
      PROVE  d \div N = q /\ d % N = e
  BY <1>1, DivModUnique
<1>2. n >= n0 => d \div N = p /\ d % N = n - n0
  <2>1. n >= n0 => n - n0 \in 0 .. N - 1
    OBVIOUS
  <2>. QED BY <1>1, <2>1
<1>3. n < n0 => d % N = N + n - n0
  <2>1. n < n0 => N + n - n0 \in 0 .. N - 1 /\ p - 1 \in Int
    OBVIOUS
  <2>2. d = N * (p - 1) + (N + n - n0)
    <3>1. N * (p - 1) = N * p - N /\ N * p \in Int
      OBVIOUS
    <3>. QED BY <3>1
  <2>. QED BY <1>1, <2>1, <2>2
<1>4. n >= n0 => (d >= 0 <=> p >= 0)
  <2>1. N * p \in Int
    OBVIOUS
  <2>2. p >= 0 => N * p >= 0
    OBVIOUS
  <2>3. p < 0 => N * p <= -N
    <3>. SUFFICES ASSUME p < 0 PROVE N * p <= -N
      OBVIOUS
    <3>1. N * (-p - 1) >= 0
      OBVIOUS
    <3>2. N * (-p - 1) = -(N * p) - N
      OBVIOUS
    <3>. QED BY <2>1, <3>1, <3>2
  <2>. QED BY <2>1, <2>2, <2>3
<1>. QED BY <1>2, <1>3, <1>4

\* Where row r, column n is.  (A name, for the provers to match.)
Index(N, r, n) == r * N + n

\* What is at row r, column n once a block has been written at row r0, column n0.
BlockFact(a, N, r0, n0, rows, cols, new, r, n) ==
    WithBlock(a, Index(N, r0, n0), N, rows, cols, new)[Index(N, r, n)] =
        IF r0 <= r /\ r < r0 + rows /\ n0 <= n /\ n < n0 + cols
           THEN new[r - r0][n - n0] ELSE a[Index(N, r, n)]

\* The rows and columns of a block are replaced, and nothing else.
LEMMA BlockAt ==
    ASSUME NEW a, NEW N \in Nat \ {0}, NEW r0 \in Nat, NEW n0 \in Nat,
           NEW rows \in Nat, NEW cols \in Nat, n0 + cols <= N, NEW new,
           NEW r \in Nat, NEW n \in 0 .. N - 1, Index(N, r, n) \in DOMAIN a
    PROVE  BlockFact(a, N, r0, n0, rows, cols, new, r, n)
<1>. SUFFICES WithBlock(a, Index(N, r0, n0), N, rows, cols, new)[Index(N, r, n)] =
                  IF r0 <= r /\ r < r0 + rows /\ n0 <= n /\ n < n0 + cols
                     THEN new[r - r0][n - n0] ELSE a[Index(N, r, n)]
  BY DEF BlockFact
<1> DEFINE i == r * N + n
           off == r0 * N + n0
           d == i - off
<1>1. i \in Int /\ off \in Int
  OBVIOUS
<1>2. WithBlock(a, off, N, rows, cols, new)[i] =
          IF i >= off /\ d \div N < rows /\ d % N < cols
             THEN new[d \div N][d % N] ELSE a[i]
  BY DEF WithBlock, Index
<1>3. /\ n >= n0 => d \div N = r - r0 /\ d % N = n - n0 /\ (d >= 0 <=> r >= r0)
      /\ n < n0 => d % N = N + n - n0
  <2> DEFINE p == r - r0
  <2>1. n0 \in 0 .. N /\ p \in Int /\ d \in Int /\ (p >= 0 <=> r >= r0)
    OBVIOUS
  <2>2. d = N * p + (n - n0)
    <3>1. N * (r - r0) = r * N - r0 * N /\ r * N \in Int /\ r0 * N \in Int
      OBVIOUS
    <3>. QED BY <3>1
  <2>. HIDE DEF d, i, off, p
  <2>3. LET e == N * p + (n - n0)
        IN  /\ n >= n0 => e \div N = p /\ e % N = n - n0 /\ (e >= 0 <=> p >= 0)
            /\ n < n0 => e % N = N + n - n0
    BY <2>1, Relative, Zenon
  <2>4. /\ n >= n0 => d \div N = p /\ d % N = n - n0 /\ (d >= 0 <=> p >= 0)
        /\ n < n0 => d % N = N + n - n0
    BY <2>2, <2>3, Zenon
  <2>. QED BY <2>1, <2>4 DEF p
<1>4. i >= off <=> d >= 0
  BY <1>1
<1>. HIDE DEF d, i, off
<1>5. CASE n < n0
  BY <1>2, <1>3, <1>5 DEF i, off, Index
<1>6. CASE n >= n0
  <2>1. (i >= off /\ d \div N < rows /\ d % N < cols) <=>
            (r0 <= r /\ r < r0 + rows /\ n0 <= n /\ n < n0 + cols)
    BY <1>3, <1>4, <1>6
  <2>. QED BY <1>2, <1>3, <1>6, <2>1 DEF i, off, Index
<1>. QED BY <1>5, <1>6

LEMMA BlockDomain ==
    ASSUME NEW a, NEW off, NEW N, NEW rows, NEW cols, NEW new
    PROVE  DOMAIN WithBlock(a, off, N, rows, cols, new) = DOMAIN a
BY DEF WithBlock

\* Places of an array of R rows are in it.
LEMMA InArray ==
    ASSUME NEW N \in Nat, NEW R \in Nat, NEW r \in 0 .. R - 1, NEW n \in 0 .. N - 1
    PROVE  r * N + n \in 0 .. R * N - 1
<1>1. r * N \in Nat /\ R * N \in Nat
  OBVIOUS
<1>2. R * N = r * N + N + (R - r - 1) * N
  OBVIOUS
<1>3. (R - r - 1) * N \in Nat
  OBVIOUS
<1>. QED BY <1>1, <1>2, <1>3

-----------------------------------------------------------------------------
(* Sums *)

\* The products of a slice of K, the call's sum being cut off at K.
Products(c, nth, x, t, n, from, to) ==
    {<<Activation(c, nth, t, k), <<x.s, n, k>>>> : k \in from .. Least(to, x.K) - 1}

\* The sum over K of a slice that begins at 0.
Partial(c, nth, x, t, n, to) == SetToBag(Products(c, nth, x, t, n, 0, to))

LEMMA DisjointBags ==
    ASSUME NEW S, NEW R, S \cap R = {}
    PROVE  SetToBag(S) (+) SetToBag(R) = SetToBag(S \cup R)
BY DEF SetToBag, (+)

LEMMA PartialFull ==
    ASSUME NEW c, NEW nth, NEW x, NEW t, NEW n, NEW to \in Nat, x.K \in Nat, to >= x.K
    PROVE  Partial(c, nth, x, t, n, to) = ExactSum(c, nth, x, t, n)
<1>1. Least(to, x.K) = x.K
  BY DEF Least
<1>. QED BY <1>1 DEF Partial, Products, ExactSum

LEMMA PartialNone ==
    ASSUME NEW c, NEW nth, NEW x, NEW t, NEW n, x.K \in Nat
    PROVE  Partial(c, nth, x, t, n, 0) = EmptyBag
<1>1. 0 .. Least(0, x.K) - 1 = {}
  BY DEF Least
<1>2. Products(c, nth, x, t, n, 0, 0) = {}
  BY <1>1 DEF Products
<1>. QED BY <1>2 DEF Partial, EmptyBag

\* The next slice is added: all its products are new.
LEMMA PartialAdd ==
    ASSUME NEW c, NEW nth, NEW x, NEW t, NEW n, NEW from \in Nat, NEW to \in Nat,
           x.K \in Nat, from <= x.K, from <= to
    PROVE  Partial(c, nth, x, t, n, from) (+) SetToBag(Products(c, nth, x, t, n, from, to))
               = Partial(c, nth, x, t, n, to)
<1> DEFINE p(k) == <<Activation(c, nth, t, k), <<x.s, n, k>>>>
           m == Least(to, x.K)
           S == {p(k) : k \in 0 .. from - 1}
           R == {p(k) : k \in from .. m - 1}
<1>1. Least(from, x.K) = from /\ m \in Nat /\ from <= m
  BY DEF Least
<1>2. \A k, l : p(k) = p(l) => k = l
  OBVIOUS
<1>3. Products(c, nth, x, t, n, 0, from) = S /\ Products(c, nth, x, t, n, from, to) = R
  BY <1>1 DEF Products
<1>4. Products(c, nth, x, t, n, 0, to) = {p(k) : k \in 0 .. m - 1}
  BY DEF Products
<1>. HIDE DEF p, m
<1>5. S \cap R = {}
  <2>1. ASSUME NEW k \in 0 .. from - 1, NEW l \in from .. m - 1
        PROVE  p(k) # p(l)
    BY <1>1, <1>2
  <2>. QED BY <2>1
<1>6. 0 .. m - 1 = (0 .. from - 1) \cup (from .. m - 1)
  BY <1>1
<1>7. S \cup R = {p(k) : k \in 0 .. m - 1}
  BY <1>6
<1>. HIDE DEF S, R
<1>. QED BY <1>3, <1>4, <1>5, <1>7, DisjointBags DEF Partial

\* What a dispatch computes for one row of the tile and one column of the chunk: the
\* products of its slice of K, if what the device sees is that slice.
LEMMA DispatchOf ==
    ASSUME NEW a, NEW r, NEW c \in Callers, NEW nth, NEW x, NEW t,
           x.s \in Tensors, x.K \in Nat, x.N \in Nat,
           NEW kBegin \in Nat, kBegin < x.K, NEW nBegin \in Nat,
           NEW j \in 0 .. kNChunk - 1, nBegin + j < x.N,
           \A i \in 0 .. kKChunk - 1 :
               a[r][i] = IF kBegin + i < x.K THEN Activation(c, nth, t, kBegin + i) ELSE Zero
    PROVE  DispatchSum(a, Slab(x.s, x.K, x.N, nBegin, kBegin), r, j) =
               SetToBag(Products(c, nth, x, t, nBegin + j, kBegin, kBegin + kKChunk))
<1> DEFINE slab == Slab(x.s, x.K, x.N, nBegin, kBegin)
           p(k) == <<Activation(c, nth, t, k), <<x.s, nBegin + j, k>>>>
           I == {e \in 0 .. kKChunk - 1 : a[r][e] # Zero /\ slab[j][e] # Pad}
           m == Least(kBegin + kKChunk, x.K)
<1>1. m \in Nat /\ kKChunk \in Nat
  BY kChunkAssumption DEF Least
<1>2. ASSUME NEW i \in 0 .. kKChunk - 1
      PROVE  slab[j][i] = IF i < Least(kKChunk, x.K - kBegin)
                             THEN <<x.s, nBegin + j, kBegin + i>> ELSE Pad
  BY DEF Slab
<1>3. \A k : Activation(c, nth, t, k) # Zero
  BY CallersAssumption DEF Activation, Zero
<1>4. \A k : <<x.s, nBegin + j, k>> # Pad
  BY TensorsAssumption DEF Pad
<1>. HIDE DEF slab
<1>5. ASSUME NEW i \in 0 .. kKChunk - 1
      PROVE  /\ i < Least(kKChunk, x.K - kBegin) <=> kBegin + i < x.K
             /\ i \in I <=> kBegin + i < x.K
             /\ kBegin + i < x.K => <<a[r][i], slab[j][i]>> = p(kBegin + i)
  <2>1. i < Least(kKChunk, x.K - kBegin) <=> kBegin + i < x.K
    BY <1>1 DEF Least
  <2>. QED BY <1>2, <1>3, <1>4, <2>1
<1>6. {<<a[r][i], slab[j][i]>> : i \in I} = {p(k) : k \in kBegin .. m - 1}
  <2>1. ASSUME NEW i \in I
        PROVE  /\ kBegin + i \in kBegin .. m - 1
               /\ <<a[r][i], slab[j][i]>> = p(kBegin + i)
    <3>1. i \in 0 .. kKChunk - 1 /\ kBegin + i < x.K
      BY <1>5
    <3>2. kBegin + i \in kBegin .. m - 1
      BY <1>1, <3>1 DEF Least
    <3>. QED BY <1>5, <3>1, <3>2
  <2>2. ASSUME NEW k \in kBegin .. m - 1
        PROVE  k - kBegin \in I /\ p(k) = <<a[r][k - kBegin], slab[j][k - kBegin]>>
    <3> DEFINE i == k - kBegin
    <3>1. i \in 0 .. kKChunk - 1 /\ kBegin + i < x.K /\ kBegin + i = k
      BY <1>1 DEF Least
    <3>. HIDE DEF i
    <3>2. i \in I /\ <<a[r][i], slab[j][i]>> = p(k)
      BY <1>5, <3>1
    <3>. QED BY <3>2 DEF i
  <2>. HIDE DEF I, p, m
  <2>. QED BY <2>1, <2>2
<1>7. DispatchSum(a, slab, r, j) = SetToBag({<<a[r][i], slab[j][i]>> : i \in I})
  BY DEF DispatchSum
<1>8. Products(c, nth, x, t, nBegin + j, kBegin, kBegin + kKChunk) = {p(k) : k \in kBegin .. m - 1}
  BY DEF Products
<1>. HIDE DEF I, p, m
<1>. QED BY <1>6, <1>7, <1>8 DEF slab

-----------------------------------------------------------------------------
(* The invariant *)

\* Between taking g_mu and releasing it; and inside a tile.
Holds(c) == pc[c] \in {"tile", "stage", "dispatch", "copyout"}
InTile(c) == pc[c] \in {"stage", "dispatch", "copyout"}

AccTypes ==
    /\ pc \in [Callers -> Locations]
    /\ call \in [Callers -> CallSet \cup {NoCall.x}]
    /\ count \in [Callers -> Nat]
    /\ mu \in Callers \cup {NoCaller}
    /\ DOMAIN dst = Callers
    /\ \A c \in Callers : /\ pc[c] # "idle" => call[c] \in CallSet
                          /\ Len(dst[c]) \in Nat /\ DOMAIN dst[c] = 1 .. Len(dst[c])
    /\ \E L \in Nat : DOMAIN gAcc = 0 .. L - 1

\* The lock is held by whoever is between taking and releasing it.
Mutex == \A c \in Callers : Holds(c) <=> mu = c

\* What its holder relies on: the tensor, room in g_acc, its loop variables.
Ready(c) ==
    /\ Supports(call[c].K, call[c].N)
    /\ call[c].s \in DOMAIN resident
    /\ resident[call[c].s] = Built(call[c].s, call[c].K, call[c].N)
    /\ \A t \in 0 .. call[c].T - 1, n \in 0 .. call[c].N - 1 : t * call[c].N + n \in DOMAIN gAcc
    /\ t0 \in Nat
    /\ accOf = NoCall
    /\ InTile(c) => t0 < call[c].T
    /\ pc[c] \in {"stage", "dispatch"} => kc \in 0 .. KChunks(call[c].K) - 1
    /\ pc[c] = "dispatch" => nc \in 0 .. NChunks(call[c].N) - 1

\* What the device sees.
Slice(c) ==
    pc[c] = "dispatch" =>
        \A r \in 0 .. kMTile - 1, i \in 0 .. kKChunk - 1 :
            aDev[r][i] = IF t0 + r < call[c].T /\ kc * kKChunk + i < call[c].K
                            THEN Activation(c, count[c], t0 + r, kc * kKChunk + i)
                            ELSE Zero

\* The tiles before the current one are in g_acc.
Before(c) ==
    \A t \in 0 .. call[c].T - 1, n \in 0 .. call[c].N - 1 :
        t < t0 => gAcc[t * call[c].N + n] = ExactSum(c, count[c], call[c], t, n)

\* How much of K column n of the current tile has been summed over.
Upto(c, n) ==
    IF pc[c] = "stage" THEN kc * kKChunk
    ELSE IF pc[c] = "dispatch"
         THEN IF n < nc * kNChunk THEN (kc + 1) * kKChunk ELSE kc * kKChunk
    ELSE KChunks(call[c].K) * kKChunk

\* The sums of the current tile, wherever they are kept.
Current(c) ==
    InTile(c) =>
        \A r \in 0 .. Rows(call[c]) - 1, n \in 0 .. call[c].N - 1 :
            IF KChunks(call[c].K) > 1
               THEN /\ r * call[c].N + n \in DOMAIN part
                    /\ part[r * call[c].N + n] =
                           Partial(c, count[c], call[c], t0 + r, n, Upto(c, n))
               ELSE Upto(c, n) > 0 =>
                        gAcc[(t0 + r) * call[c].N + n] =
                            Partial(c, count[c], call[c], t0 + r, n, Upto(c, n))

Work(c) == Holds(c) => Ready(c) /\ Slice(c) /\ Before(c) /\ Current(c)

\* The call that filled g_acc was made, and if it is the last of its caller, that caller
\* is in epilogue or has returned from it.
Filled ==
    \/ accOf = NoCall
    \/ /\ accOf.by \in Callers /\ accOf.nth \in Nat /\ accOf.x \in CallSet
       /\ accOf.nth <= count[accOf.by]
       /\ accOf.nth = count[accOf.by] =>
             call[accOf.by] = accOf.x /\ pc[accOf.by] \in {"idle", "epilogue"}

Unwritten == \A c \in Callers : pc[c] \notin {"idle", "epilogue"} => dst[c] = <<>>

AccInv ==
    /\ IInv /\ AccTypes /\ Mutex
    /\ \A c \in Callers : Work(c)
    /\ Filled /\ AccumulatorValid /\ Unwritten /\ DstRightIfValid

-----------------------------------------------------------------------------
(* Facts used by many steps *)

LEMMA CallTypes ==
    ASSUME NEW x \in CallSet
    PROVE  x.s \in Tensors /\ x.K \in Nat /\ x.N \in Nat /\ x.T \in Nat
BY CallSetAssumption, ShapesAssumption

LEMMA Served ==
    ASSUME NEW K \in Nat, NEW N \in Nat, Supports(K, N)
    PROVE  K \in Nat \ {0} /\ N \in Nat \ {0}
BY ServedDimsAssumption DEF Supports

\* With NoCall nothing is claimed.
LEMMA NothingValid ==
    ASSUME accOf = NoCall
    PROVE  Filled /\ AccumulatorValid /\ DstRightIfValid
<1>1. accOf.x.T = 0 /\ accOf.by = NoCaller
  BY DEF NoCall
<1>2. AccumulatorValid
  BY <1>1 DEF AccumulatorValid
<1>3. DstRightIfValid
  BY <1>1, CallersAssumption DEF DstRightIfValid
<1>. QED BY <1>2, <1>3 DEF Filled

\* Lookups keep what Residency's invariant says, and find what they report.
LEMMA LookupIInv ==
    ASSUME IInv, NEW x \in CallSet, Lookup(x.s, x.K, x.N)
    PROVE  /\ IInv'
           /\ served'.result # NoResident =>
                 /\ Supports(x.K, x.N) /\ x.s \in DOMAIN resident'
                 /\ resident'[x.s] = Built(x.s, x.K, x.N)
<1>1. x.s \in Tensors /\ x.K \in Nat /\ x.N \in Nat
  BY CallTypes
<1>2. IInv'
  BY <1>1, RefusedIInv, HitIInv, LoadsIInv, ThrowsIInv DEF Lookup
<1>. SUFFICES ASSUME served'.result # NoResident
              PROVE  /\ Supports(x.K, x.N) /\ x.s \in DOMAIN resident'
                     /\ resident'[x.s] = Built(x.s, x.K, x.N)
  BY <1>2
<1>3. LookupHit(x.s, x.K, x.N) \/ LookupLoads(x.s, x.K, x.N)
  BY DEF Lookup, LookupFailed, LookupRejected, LookupThrows, Serve
<1>4. served'.s = x.s /\ served'.K = x.K /\ served'.N = x.N
  BY <1>3 DEF LookupHit, LookupLoads, Serve
<1>5. Supports(x.K, x.N) /\ served'.result = Built(x.s, x.K, x.N)
  BY <1>2, <1>4 DEF IInv, Right
<1>6. x.s \in DOMAIN resident' /\ resident'[x.s] = served'.result
  BY <1>3 DEF LookupHit, LookupLoads, Serve
<1>. QED BY <1>5, <1>6

\* What the holder of the lock relies on is untouched by the steps of the others.
LEMMA Frame ==
    ASSUME NEW h \in Callers, Work(h), pc'[h] = pc[h], call'[h] = call[h], count'[h] = count[h],
           UNCHANGED <<resident, t0, kc, nc, part, aDev, gAcc, accOf>>
    PROVE  Work(h)'
<1>1. (Upto(h, 0))' = Upto(h, 0) /\ \A n : (Upto(h, n))' = Upto(h, n)
  BY DEF Upto
<1>2. Rows(call[h])' = Rows(call[h])
  BY DEF Rows
<1>. QED BY <1>1, <1>2 DEF Work, Holds, InTile, Ready, Slice, Before, Current

\* The same of a caller that has no lock: nothing.
LEMMA Idle == ASSUME NEW c, ~(Holds(c)') PROVE Work(c)'
BY DEF Work

LEMMA Stutter == ASSUME UNCHANGED resVars, IInv PROVE IInv'
BY NextIInv

-----------------------------------------------------------------------------
(* The steps *)

LEMMA InitAccInv == Init => AccInv
<1>. SUFFICES ASSUME Init PROVE AccInv
  OBVIOUS
<1>1. IInv
  BY InitIInv DEF Init
<1>2. accOf = NoCall
  BY DEF Init
<1>3. AccTypes
  <2>1. Len(<<>>) = 0 /\ DOMAIN <<>> = 1 .. 0
    OBVIOUS
  <2>2. DOMAIN gAcc = 0 .. 0 - 1
    BY DEF Init
  <2>3. \E L \in Nat : DOMAIN gAcc = 0 .. L - 1
    BY <2>2
  <2>. QED BY <2>1, <2>3 DEF Init, AccTypes, Locations
<1>4. \A c \in Callers : ~Holds(c)
  BY DEF Init, Holds
<1>5. Mutex /\ \A c \in Callers : Work(c)
  BY <1>4, CallersAssumption DEF Init, Mutex, Work
<1>6. Unwritten
  BY DEF Init, Unwritten
<1>. QED BY <1>1, <1>2, <1>3, <1>5, <1>6, NothingValid DEF AccInv

LEMMA CallAccInv == ASSUME AccInv, NEW c \in Callers, Call(c) PROVE AccInv'
<1>1. PICK x \in CallSet : call' = [call EXCEPT ![c] = x]
  BY DEF Call
<1>2. /\ pc[c] = "idle" /\ count' = [count EXCEPT ![c] = @ + 1] /\ dst' = [dst EXCEPT ![c] = <<>>]
      /\ pc' = [pc EXCEPT ![c] = "lock"]
      /\ UNCHANGED <<mu, t0, kc, nc, part, aHost, aDev, gAcc, accOf>>
      /\ UNCHANGED resVars
  BY DEF Call, Goto
<1>3. IInv' /\ resident' = resident
  BY <1>2, Stutter DEF AccInv, resVars
<1>5. \A h \in Callers \ {c} : pc'[h] = pc[h] /\ call'[h] = call[h] /\ count'[h] = count[h]
                               /\ dst'[h] = dst[h]
  BY <1>1, <1>2 DEF AccInv, AccTypes
<1>6. pc'[c] = "lock" /\ dst'[c] = <<>> /\ count'[c] = count[c] + 1 /\ count[c] \in Nat
  BY <1>2 DEF AccInv, AccTypes
<1>4. AccTypes'
  <2>1. Len(<<>>) = 0 /\ DOMAIN <<>> = 1 .. 0
    OBVIOUS
  <2>2. pc' \in [Callers -> Locations] /\ DOMAIN dst' = Callers /\ mu' = mu /\ gAcc' = gAcc
    BY <1>2 DEF AccInv, AccTypes, Locations
  <2>3. call' \in [Callers -> CallSet \cup {NoCall.x}] /\ call'[c] \in CallSet
    BY <1>1 DEF AccInv, AccTypes
  <2>4. count' \in [Callers -> Nat]
    BY <1>2 DEF AccInv, AccTypes
  <2>5. ASSUME NEW h \in Callers
        PROVE  /\ pc'[h] # "idle" => call'[h] \in CallSet
               /\ Len(dst'[h]) \in Nat /\ DOMAIN dst'[h] = 1 .. Len(dst'[h])
    BY <1>5, <1>6, <2>1, <2>3 DEF AccInv, AccTypes
  <2>. QED BY <2>2, <2>3, <2>4, <2>5 DEF AccInv, AccTypes
<1>7. Mutex'
  BY <1>2, <1>5, <1>6 DEF AccInv, Mutex, Holds
<1>8. \A h \in Callers : Work(h)'
  <2>1. ~(Holds(c)')
    BY <1>6 DEF Holds
  <2>. QED BY <1>2, <1>3, <1>5, <2>1, Frame, Idle DEF AccInv
<1>9. Unwritten'
  BY <1>5, <1>6 DEF AccInv, Unwritten
<1>10. Filled' /\ AccumulatorValid' /\ DstRightIfValid'
  <2>1. Filled'
    BY <1>2, <1>5, <1>6 DEF AccInv, Filled
  <2>2. AccumulatorValid'
    BY <1>2 DEF AccInv, AccumulatorValid
  <2>3. DstRightIfValid'
    <3>1. 1 .. Len(dst'[c]) = {}
      BY <1>6
    <3>2. \A h \in Callers \ {c} :
             accOf.by = h /\ accOf.nth = count[h] =>
                 \A t \in 1 .. Len(dst[h]) : \A n \in 0 .. call[h].N - 1 :
                     dst[h][t][n] = ExactSum(h, count[h], call[h], t - 1, n)
      BY DEF AccInv, DstRightIfValid
    <3>. QED BY <1>2, <1>5, <3>1, <3>2 DEF DstRightIfValid
  <2>. QED BY <2>1, <2>2, <2>3
<1>. QED BY <1>3, <1>4, <1>7, <1>8, <1>9, <1>10 DEF AccInv

LEMMA RefuseAccInv == ASSUME AccInv, NEW c \in Callers, Refuse(c) PROVE AccInv'
<1>1. /\ pc[c] = "lock" /\ mu = NoCaller
      /\ Lookup(call[c].s, call[c].K, call[c].N)
      /\ pc' = [pc EXCEPT ![c] = "idle"]
      /\ UNCHANGED <<call, count, mu, t0, kc, nc, part, aHost, aDev, gAcc, accOf, dst>>
  BY DEF Refuse, Goto
<1>2. IInv'
  BY <1>1, LookupIInv DEF AccInv, AccTypes
<1>3. AccTypes'
  BY <1>1 DEF AccInv, AccTypes, Locations
<1>4. \A h \in Callers \ {c} : pc'[h] = pc[h]
  BY <1>1
<1>5. pc'[c] = "idle" /\ dst[c] = <<>>
  BY <1>1 DEF AccInv, AccTypes, Unwritten
<1>6. \A h \in Callers : ~Holds(h) /\ ~(Holds(h)')
  BY <1>1, <1>4, <1>5, CallersAssumption DEF AccInv, Mutex, Holds
<1>7. Mutex' /\ \A h \in Callers : Work(h)'
  BY <1>1, <1>6, CallersAssumption DEF Mutex, Work
<1>8. Unwritten' /\ Filled' /\ AccumulatorValid' /\ DstRightIfValid'
  <2>1. Unwritten'
    BY <1>1, <1>4, <1>5 DEF AccInv, Unwritten
  <2>2. Filled'
    BY <1>1, <1>4, <1>5 DEF AccInv, Filled
  <2>3. AccumulatorValid'
    BY <1>1 DEF AccInv, AccumulatorValid
  <2>4. DstRightIfValid'
    BY <1>1 DEF AccInv, DstRightIfValid
  <2>. QED BY <2>1, <2>2, <2>3, <2>4
<1>. QED BY <1>2, <1>3, <1>7, <1>8 DEF AccInv

\* Growing an array.
LEMMA Grown ==
    ASSUME NEW a, NEW L \in Nat, DOMAIN a = 0 .. L - 1, NEW n \in Nat
    PROVE  \E M \in Nat : M >= n /\ DOMAIN Grow(a, n) = 0 .. M - 1
<1>1. Size(a) = L
  <2>1. 0 \in Int /\ L - 1 \in Int
    OBVIOUS
  <2>2. Cardinality(0 .. L - 1) = IF 0 > L - 1 THEN 0 ELSE (L - 1) - 0 + 1
    BY <2>1, FS_Interval, Zenon
  <2>. QED BY <2>2 DEF Size
<1>2. DOMAIN Grow(a, n) = 0 .. (IF L < n THEN n ELSE L) - 1
  BY <1>1 DEF Grow
<1>. QED BY <1>2

LEMMA BeginAccInv == ASSUME AccInv, NEW c \in Callers, Begin(c) PROVE AccInv'
<1> DEFINE x == call[c]
<1>1. /\ pc[c] = "lock" /\ mu = NoCaller
      /\ Lookup(x.s, x.K, x.N) /\ served'.result # NoResident
      /\ mu' = c /\ t0' = 0 /\ gAcc' = Grow(gAcc, x.T * x.N) /\ accOf' = NoCall
      /\ pc' = [pc EXCEPT ![c] = "tile"]
      /\ UNCHANGED <<call, count, kc, nc, part, aHost, aDev, dst>>
  BY DEF Begin, Goto
<1>2. x \in CallSet
  BY <1>1 DEF AccInv, AccTypes
<1>3. x.s \in Tensors /\ x.K \in Nat /\ x.N \in Nat /\ x.T \in Nat
  BY <1>2, CallTypes
<1>4. /\ IInv' /\ Supports(x.K, x.N) /\ x.s \in DOMAIN resident'
      /\ resident'[x.s] = Built(x.s, x.K, x.N)
  BY <1>1, <1>2, LookupIInv DEF AccInv
<1>5. PICK M \in Nat : M >= x.T * x.N /\ DOMAIN gAcc' = 0 .. M - 1
  <2>1. x.T * x.N \in Nat
    BY <1>3
  <2>2. PICK L \in Nat : DOMAIN gAcc = 0 .. L - 1
    BY DEF AccInv, AccTypes
  <2>3. \E M \in Nat : M >= x.T * x.N /\ DOMAIN Grow(gAcc, x.T * x.N) = 0 .. M - 1
    BY <2>1, <2>2, Grown
  <2>. QED BY <1>1, <2>3
<1>. HIDE DEF x
<1>6. pc'[c] = "tile" /\ (\A h \in Callers \ {c} : pc'[h] = pc[h])
  BY <1>1 DEF AccInv, AccTypes
<1>7. AccTypes'
  <2>1. \E L \in Nat : DOMAIN gAcc' = 0 .. L - 1
    BY <1>5
  <2>. QED BY <1>1, <2>1 DEF AccInv, AccTypes, Locations
<1>8. \A h \in Callers : Holds(h)' <=> h = c
  BY <1>1, <1>6, CallersAssumption DEF AccInv, Mutex, Holds
<1>9. Mutex'
  BY <1>1, <1>8 DEF Mutex
<1>10. Work(c)'
  <2>1. \A t \in 0 .. x.T - 1, n \in 0 .. x.N - 1 : t * x.N + n \in DOMAIN gAcc'
    <3>. SUFFICES ASSUME NEW t \in 0 .. x.T - 1, NEW n \in 0 .. x.N - 1
                  PROVE  t * x.N + n \in DOMAIN gAcc'
      OBVIOUS
    <3>1. t * x.N + n \in 0 .. x.T * x.N - 1 /\ x.T * x.N \in Int
      BY <1>3, InArray
    <3>. QED BY <1>5, <3>1
  <2>2. Ready(c)'
    BY <1>1, <1>4, <1>6, <2>1 DEF Ready, InTile, x
  <2>3. Slice(c)' /\ Current(c)'
    BY <1>6 DEF Slice, Current, InTile
  <2>4. Before(c)'
    BY <1>1 DEF Before
  <2>. QED BY <2>2, <2>3, <2>4 DEF Work
<1>11. \A h \in Callers : Work(h)'
  BY <1>8, <1>10, Idle
<1>12. Unwritten'
  BY <1>1, <1>6 DEF AccInv, Unwritten
<1>13. accOf' = NoCall
  BY <1>1
<1>14. Filled' /\ AccumulatorValid' /\ DstRightIfValid'
  <2>1. accOf'.x.T = 0 /\ accOf'.by = NoCaller
    BY <1>13 DEF NoCall
  <2>. QED BY <1>13, <2>1, CallersAssumption DEF Filled, AccumulatorValid, DstRightIfValid
<1>. QED BY <1>4, <1>7, <1>9, <1>11, <1>12, <1>14 DEF AccInv

-----------------------------------------------------------------------------
(* The steps of the holder of g_mu *)

LEMMA Holder ==
    ASSUME AccInv, NEW c \in Callers, Holds(c)
    PROVE  /\ call[c] \in CallSet /\ call[c].s \in Tensors /\ call[c].T \in Nat
           /\ call[c].K \in Nat \ {0} /\ call[c].N \in Nat \ {0}
           /\ mu = c /\ \A h \in Callers \ {c} : ~Holds(h)
           /\ Ready(c) /\ Slice(c) /\ Before(c) /\ Current(c)
           /\ dst[c] = <<>>
<1>1. call[c] \in CallSet /\ dst[c] = <<>>
  BY DEF AccInv, AccTypes, Unwritten, Holds
<1>2. Ready(c) /\ Slice(c) /\ Before(c) /\ Current(c)
  BY DEF AccInv, Work
<1>3. call[c].K \in Nat \ {0} /\ call[c].N \in Nat \ {0}
  BY <1>1, <1>2, CallTypes, Served DEF Ready
<1>4. mu = c /\ \A h \in Callers \ {c} : ~Holds(h)
  BY DEF AccInv, Mutex
<1>. QED BY <1>1, <1>2, <1>3, <1>4, CallTypes

\* A step inside a call of accumulate disturbs what it relies on itself only.
LEMMA HolderStep ==
    ASSUME AccInv, NEW c \in Callers, Holds(c), Holds(c)',
           pc' \in [Callers -> Locations], \A h \in Callers \ {c} : pc'[h] = pc[h],
           UNCHANGED <<call, count, mu, accOf, dst>>, UNCHANGED resVars,
           \E L \in Nat : DOMAIN gAcc' = 0 .. L - 1,
           Work(c)'
    PROVE  AccInv'
<1>1. /\ call[c] \in CallSet /\ mu = c /\ \A h \in Callers \ {c} : ~Holds(h)
      /\ accOf = NoCall /\ dst[c] = <<>>
  BY Holder DEF Ready
<1>2. IInv'
  BY Stutter DEF AccInv
<1>3. AccTypes'
  BY <1>1 DEF AccInv, AccTypes, Holds
<1>4. \A h \in Callers \ {c} : ~(Holds(h)')
  BY <1>1 DEF Holds
<1>5. Mutex'
  BY <1>1, <1>4 DEF Mutex
<1>6. \A h \in Callers : Work(h)'
  BY <1>4, Idle
<1>7. Unwritten'
  BY <1>1 DEF AccInv, Unwritten
<1>8. Filled' /\ AccumulatorValid' /\ DstRightIfValid'
  <2>1. accOf'.x.T = 0 /\ accOf'.by = NoCaller /\ accOf' = NoCall
    BY <1>1 DEF NoCall
  <2>. QED BY <2>1, CallersAssumption DEF Filled, AccumulatorValid, DstRightIfValid
<1>. QED BY <1>2, <1>3, <1>5, <1>6, <1>7, <1>8 DEF AccInv

\* A step that gives up the lock, and leaves the accumulator as it is.
LEMMA ThrowAccInv == ASSUME AccInv, NEW c \in Callers, Throw(c) PROVE AccInv'
<1>1. /\ Holds(c) /\ mu' = NoCaller /\ pc' = [pc EXCEPT ![c] = "idle"]
      /\ UNCHANGED resVars
      /\ UNCHANGED <<call, count, t0, kc, nc, part, aHost, aDev, gAcc, accOf, dst>>
  BY DEF Throw, MayThrow, Goto, Holds
<1>2. /\ mu = c /\ (\A h \in Callers \ {c} : ~Holds(h)) /\ accOf = NoCall
  BY <1>1, Holder DEF Ready
<1>3. IInv'
  BY <1>1, Stutter DEF AccInv
<1>4. AccTypes'
  BY <1>1 DEF AccInv, AccTypes, Locations
<1>5. pc'[c] = "idle" /\ \A h \in Callers \ {c} : pc'[h] = pc[h]
  BY <1>1 DEF AccInv, AccTypes
<1>6. \A h \in Callers : ~(Holds(h)')
  BY <1>2, <1>5 DEF Holds
<1>7. Mutex' /\ \A h \in Callers : Work(h)'
  BY <1>1, <1>6, CallersAssumption DEF Mutex, Work
<1>8. Unwritten'
  BY <1>1, <1>5 DEF AccInv, Unwritten
<1>9. Filled' /\ AccumulatorValid' /\ DstRightIfValid'
  <2>1. accOf'.x.T = 0 /\ accOf'.by = NoCaller /\ accOf' = NoCall
    BY <1>1, <1>2 DEF NoCall
  <2>. QED BY <2>1, CallersAssumption DEF Filled, AccumulatorValid, DstRightIfValid
<1>. QED BY <1>3, <1>4, <1>7, <1>8, <1>9 DEF AccInv

\* The sums of a tile begin with 0.
LEMMA BeginTileAccInv == ASSUME AccInv, NEW c \in Callers, BeginTile(c) PROVE AccInv'
<1> DEFINE x == call[c]
<1>1. /\ pc[c] = "tile" /\ t0 < x.T /\ kc' = 0
      /\ part' = IF KChunks(x.K) > 1 THEN [i \in 0 .. kMTile * x.N - 1 |-> EmptyBag] ELSE <<>>
      /\ pc' = [pc EXCEPT ![c] = "stage"]
      /\ UNCHANGED resVars
      /\ UNCHANGED <<call, count, mu, t0, nc, aHost, aDev, gAcc, accOf, dst>>
  BY DEF BeginTile, Goto
<1>2. /\ x.K \in Nat \ {0} /\ x.N \in Nat \ {0} /\ x.T \in Nat
      /\ Ready(c) /\ Before(c)
  BY <1>1, Holder DEF Holds
<1>3. pc'[c] = "stage" /\ pc' \in [Callers -> Locations] /\ \A h \in Callers \ {c} : pc'[h] = pc[h]
  BY <1>1 DEF AccInv, AccTypes, Locations
<1>4. Ready(c)'
  <2>1. kc' \in 0 .. KChunks(x.K) - 1
    <3>1. KChunks(x.K) \in Nat \ {0}
      BY <1>2, KCover
    <3>. QED BY <1>1, <3>1
  <2>2. resident' = resident
    BY <1>1 DEF resVars
  <2>. HIDE DEF x
  <2>. QED BY <1>1, <1>2, <1>3, <2>1, <2>2 DEF Ready, InTile, x
<1>5. Slice(c)' /\ Before(c)'
  BY <1>1, <1>2, <1>3 DEF Slice, Before
<1>6. Current(c)'
  <2>1. \A n : Upto(c, n)' = 0
    <3>1. 0 * kKChunk = 0
      BY kChunkAssumption
    <3>. QED BY <1>1, <1>3, <3>1 DEF Upto
  <2>2. Rows(x)' = Rows(x) /\ Rows(x) \in Nat /\ Rows(x) <= kMTile
    BY <1>1, <1>2, kMTileAssumption DEF Rows, Least, Ready
  <2>3. ASSUME NEW r \in 0 .. Rows(x) - 1, NEW n \in 0 .. x.N - 1, KChunks(x.K) > 1
        PROVE  /\ r * x.N + n \in DOMAIN part'
               /\ part'[r * x.N + n] = Partial(c, count[c], x, t0 + r, n, 0)
    <3>1. r * x.N + n \in 0 .. kMTile * x.N - 1
      BY <1>2, <2>2, InArray, kMTileAssumption
    <3>2. Partial(c, count[c], x, t0 + r, n, 0) = EmptyBag
      BY <1>2, PartialNone
    <3>. QED BY <1>1, <2>3, <3>1, <3>2
  <2>. HIDE DEF x
  <2>4. \A r \in 0 .. Rows(x) - 1, n \in 0 .. x.N - 1 :
           IF KChunks(x.K) > 1
              THEN /\ r * x.N + n \in DOMAIN part'
                   /\ part'[r * x.N + n] = Partial(c, count[c], x, t0 + r, n, 0)
              ELSE 0 > 0 => gAcc[(t0 + r) * x.N + n] = Partial(c, count[c], x, t0 + r, n, 0)
    BY <2>3
  <2>5. x' = x /\ count' = count /\ t0' = t0 /\ gAcc' = gAcc
    BY <1>1 DEF x
  <2>. QED BY <2>1, <2>2, <2>4, <2>5 DEF Current, x
<1>7. Work(c)' /\ Holds(c)' /\ Holds(c)
  BY <1>1, <1>3, <1>4, <1>5, <1>6 DEF Work, Holds
<1>8. \E L \in Nat : DOMAIN gAcc' = 0 .. L - 1
  BY <1>1 DEF AccInv, AccTypes
<1>. QED BY <1>1, <1>3, <1>7, <1>8, HolderStep

\* The whole staging buffer is the slice: what it does not fill is zeroed, and if it fills
\* the buffer every element is written.
LEMMA StageAccInv == ASSUME AccInv, NEW c \in Callers, Stage(c) PROVE AccInv'
<1> DEFINE x == call[c]
           kept(r, i) == r < Rows(x) /\ i < KKeep(x.K, kc)
<1>1. /\ pc[c] = "stage" /\ nc' = 0 /\ aDev' = aHost'
      /\ aHost' = [r \in 0 .. kMTile - 1 |-> [i \in 0 .. kKChunk - 1 |->
                      IF kept(r, i) THEN Activation(c, count[c], t0 + r, kc * kKChunk + i)
                      ELSE IF Rows(x) < kMTile \/ KKeep(x.K, kc) < kKChunk THEN Zero
                      ELSE aHost[r][i]]]
      /\ pc' = [pc EXCEPT ![c] = "dispatch"]
      /\ UNCHANGED resVars
      /\ UNCHANGED <<call, count, mu, t0, kc, part, gAcc, accOf, dst>>
  BY DEF Stage, Goto
<1>2. /\ x.K \in Nat \ {0} /\ x.N \in Nat \ {0} /\ x.T \in Nat
      /\ Ready(c) /\ Before(c) /\ Current(c)
  BY <1>1, Holder DEF Holds
<1>3. pc'[c] = "dispatch" /\ pc' \in [Callers -> Locations] /\ \A h \in Callers \ {c} : pc'[h] = pc[h]
  BY <1>1 DEF AccInv, AccTypes, Locations
<1>4. t0 \in Nat /\ t0 < x.T /\ kc * kKChunk \in Nat /\ kc * kKChunk < x.K
  <2>1. kc \in 0 .. KChunks(x.K) - 1 /\ t0 \in Nat /\ t0 < x.T
    BY <1>1, <1>2 DEF Ready, InTile
  <2>. QED BY <1>2, <2>1, KCover
<1>5. ASSUME NEW r \in 0 .. kMTile - 1, NEW i \in 0 .. kKChunk - 1
      PROVE  aDev'[r][i] = IF t0 + r < x.T /\ kc * kKChunk + i < x.K
                              THEN Activation(c, count[c], t0 + r, kc * kKChunk + i)
                              ELSE Zero
  <2>1. aDev'[r][i] = IF kept(r, i) THEN Activation(c, count[c], t0 + r, kc * kKChunk + i)
                      ELSE IF Rows(x) < kMTile \/ KKeep(x.K, kc) < kKChunk THEN Zero
                      ELSE aHost[r][i]
    BY <1>1, Zenon
  <2> DEFINE kBegin == kc * kKChunk
  <2>. HIDE DEF kBegin, x
  <2>2. kBegin \in Nat /\ kBegin < x.K /\ x.K \in Nat /\ x.T \in Nat
    BY <1>2, <1>4 DEF kBegin
  <2>3. (r < Rows(x) <=> t0 + r < x.T) /\ (Rows(x) < kMTile \/ r < Rows(x))
    BY <1>4, <2>2, kMTileAssumption DEF Rows, Least
  <2>4. KKeep(x.K, kc) = Least(kKChunk, x.K - kBegin)
    BY DEF KKeep, kBegin
  <2>5. /\ i < KKeep(x.K, kc) <=> kBegin + i < x.K
        /\ KKeep(x.K, kc) < kKChunk \/ i < KKeep(x.K, kc)
    BY <2>2, <2>4, kChunkAssumption DEF Least
  <2>. QED BY <2>1, <2>3, <2>5 DEF kBegin
<1>6. Ready(c)'
  <2>1. nc' \in 0 .. NChunks(x.N) - 1
    <3>1. NChunks(x.N) \in Nat \ {0}
      BY <1>2, NCover
    <3>. QED BY <1>1, <3>1
  <2>2. resident' = resident
    BY <1>1 DEF resVars
  <2>. HIDE DEF x
  <2>. QED BY <1>1, <1>2, <1>3, <2>1, <2>2 DEF Ready, InTile, x
<1>7. Slice(c)'
  BY <1>1, <1>5 DEF Slice
<1>8. Before(c)'
  BY <1>1, <1>2 DEF Before
<1>9. Current(c)'
  <2>1. ASSUME NEW n \in 0 .. x.N - 1 PROVE Upto(c, n)' = Upto(c, n)
    <3>1. nc' * kNChunk = 0
      BY <1>1, kChunkAssumption
    <3>2. n \in Nat
      BY <1>2
    <3>. QED BY <1>1, <1>3, <3>1, <3>2 DEF Upto
  <2>2. Rows(x)' = Rows(x)
    BY <1>1 DEF Rows
  <2>. HIDE DEF kept
  <2>. QED BY <1>1, <1>2, <2>1, <2>2 DEF Current, InTile
<1>10. Work(c)' /\ Holds(c)' /\ Holds(c)
  BY <1>1, <1>3, <1>6, <1>7, <1>8, <1>9 DEF Work, Holds
<1>11. \E L \in Nat : DOMAIN gAcc' = 0 .. L - 1
  BY <1>1 DEF AccInv, AccTypes
<1>. HIDE DEF kept, x
<1>. QED BY <1>1, <1>3, <1>10, <1>11, HolderStep

\* The last K chunk has been summed: the tile's sums are exact, and now in g_acc.
LEMMA CopyOutAccInv == ASSUME AccInv, NEW c \in Callers, CopyOut(c) PROVE AccInv'
<1> DEFINE x == call[c]
           summed == [r \in 0 .. Rows(x) - 1 |-> [j \in 0 .. x.N - 1 |-> part[r * x.N + j]]]
<1>1. /\ pc[c] = "copyout" /\ t0' = t0 + kMTile
      /\ gAcc' = IF KChunks(x.K) > 1
                    THEN WithBlock(gAcc, t0 * x.N, x.N, Rows(x), x.N, summed) ELSE gAcc
      /\ pc' = [pc EXCEPT ![c] = "tile"]
      /\ UNCHANGED resVars
      /\ UNCHANGED <<call, count, mu, kc, nc, part, aHost, aDev, accOf, dst>>
  BY DEF CopyOut, Goto
<1>2. /\ x.K \in Nat \ {0} /\ x.N \in Nat \ {0} /\ x.T \in Nat
      /\ Ready(c) /\ Before(c) /\ Current(c)
  BY <1>1, Holder DEF Holds
<1>3. pc'[c] = "tile" /\ pc' \in [Callers -> Locations] /\ \A h \in Callers \ {c} : pc'[h] = pc[h]
  BY <1>1 DEF AccInv, AccTypes, Locations
<1>4. t0 \in Nat /\ t0 < x.T
  BY <1>1, <1>2 DEF Ready, InTile
<1>5. DOMAIN gAcc' = DOMAIN gAcc
  BY <1>1, BlockDomain
<1>6. Rows(x) \in Nat /\ Rows(x) = Least(kMTile, x.T - t0)
  BY <1>2, <1>4, kMTileAssumption DEF Rows, Least
<1>7. \A n : Upto(c, n) = KChunks(x.K) * kKChunk
  BY <1>1 DEF Upto
<1>8. KChunks(x.K) \in Nat \ {0} /\ KChunks(x.K) * kKChunk \in Nat /\ KChunks(x.K) * kKChunk >= x.K
  <2>1. KChunks(x.K) \in Nat \ {0} /\ KChunks(x.K) * kKChunk >= x.K
    BY <1>2, KCover
  <2>. QED BY <2>1, kChunkAssumption
<1>. HIDE DEF summed
<1>9. ASSUME NEW r \in 0 .. Rows(x) - 1, NEW n \in 0 .. x.N - 1
      PROVE  IF KChunks(x.K) > 1
                THEN part[r * x.N + n] = ExactSum(c, count[c], x, t0 + r, n)
                ELSE gAcc[(t0 + r) * x.N + n] = ExactSum(c, count[c], x, t0 + r, n)
  <2>1. Partial(c, count[c], x, t0 + r, n, KChunks(x.K) * kKChunk)
            = ExactSum(c, count[c], x, t0 + r, n)
    BY <1>2, <1>8, PartialFull
  <2>2. KChunks(x.K) * kKChunk > 0
    BY <1>2, <1>8
  <2>. QED BY <1>1, <1>2, <1>7, <2>1, <2>2 DEF Current, InTile
<1>10. Before(c)'
  <2>. SUFFICES ASSUME NEW t \in 0 .. x.T - 1, NEW n \in 0 .. x.N - 1, t < t0 + kMTile
                PROVE  gAcc'[t * x.N + n] = ExactSum(c, count[c], x, t, n)
    BY <1>1 DEF Before
  <2>. HIDE DEF x
  <2>1. t \in Nat /\ t * x.N + n \in DOMAIN gAcc
    BY <1>2 DEF Ready, x
  <2>2. t >= t0 => t - t0 \in 0 .. Rows(x) - 1 /\ t0 + (t - t0) = t
    BY <1>2, <1>4, <1>6, <2>1, kMTileAssumption DEF Least
  <2>3. t < t0 => gAcc[t * x.N + n] = ExactSum(c, count[c], x, t, n)
    BY <1>2 DEF Before, x
  <2>4. CASE ~(KChunks(x.K) > 1)
    <3>1. t >= t0 => gAcc[t * x.N + n] = ExactSum(c, count[c], x, t, n)
      BY <1>9, <2>2, <2>4
    <3>2. gAcc' = gAcc
      BY <1>1, <2>4
    <3>. QED BY <1>4, <2>1, <2>3, <3>1, <3>2
  <2>5. CASE KChunks(x.K) > 1
    <3>1. t0 * x.N = t0 * x.N + 0 /\ 0 + x.N <= x.N /\ x.N \in Nat
      BY <1>2, <1>4
    <3>2. gAcc' = WithBlock(gAcc, t0 * x.N + 0, x.N, Rows(x), x.N, summed)
      BY <1>1, <2>5, <3>1
    <3>3. gAcc'[t * x.N + n] =
              IF t0 <= t /\ t < t0 + Rows(x) /\ 0 <= n /\ n < 0 + x.N
                 THEN summed[t - t0][n - 0] ELSE gAcc[t * x.N + n]
      <4>1. 0 \in Nat
        OBVIOUS
      <4>2. /\ x.N \in Nat \ {0} /\ t0 \in Nat /\ Rows(x) \in Nat /\ n \in 0 .. x.N - 1
            /\ x.N \in Nat /\ t \in Nat /\ 0 + x.N <= x.N
        BY <1>2, <1>4, <1>6, <2>1
      <4>3. Index(x.N, t, n) \in DOMAIN gAcc
        BY <2>1 DEF Index
      <4>4. WithBlock(gAcc, Index(x.N, t0, 0), x.N, Rows(x), x.N, summed)[Index(x.N, t, n)] =
                IF t0 <= t /\ t < t0 + Rows(x) /\ 0 <= n /\ n < 0 + x.N
                   THEN summed[t - t0][n - 0] ELSE gAcc[Index(x.N, t, n)]
        <5> DEFINE N == x.N
                   R == Rows(x)
        <5>1. /\ N \in Nat \ {0} /\ t0 \in Nat /\ R \in Nat /\ n \in 0 .. N - 1
              /\ N \in Nat /\ t \in Nat /\ 0 + N <= N /\ Index(N, t, n) \in DOMAIN gAcc
          BY <4>2, <4>3
        <5>. HIDE DEF N, R
        <5>2. WithBlock(gAcc, Index(N, t0, 0), N, R, N, summed)[Index(N, t, n)] =
                IF t0 <= t /\ t < t0 + R /\ 0 <= n /\ n < 0 + N
                   THEN summed[t - t0][n - 0] ELSE gAcc[Index(N, t, n)]
          <6>1. BlockFact(gAcc, N, t0, 0, R, N, summed, t, n)
            BY <4>1, <5>1, BlockAt
          <6>. QED BY <6>1 DEF BlockFact
        <5>. QED BY <5>2 DEF N, R
      <4>. QED BY <3>2, <4>4, Zenon DEF Index
    <3>4. 0 <= n /\ n < 0 + x.N /\ n - 0 = n
      BY <1>2
    <3>5. t >= t0 => gAcc'[t * x.N + n] = part[(t - t0) * x.N + n]
      <4>1. t >= t0 => t < t0 + Rows(x)
        BY <1>4, <1>6, <2>1, <2>2
      <4>2. t >= t0 => gAcc'[t * x.N + n] = summed[t - t0][n]
        BY <1>4, <2>1, <3>3, <3>4, <4>1
      <4>. QED BY <2>2, <4>2 DEF summed
    <3>6. t < t0 => gAcc'[t * x.N + n] = gAcc[t * x.N + n]
      BY <1>4, <2>1, <3>3
    <3>7. t >= t0 => gAcc'[t * x.N + n] = ExactSum(c, count[c], x, t, n)
      BY <1>9, <2>2, <2>5, <3>5
    <3>. QED BY <1>4, <2>1, <2>3, <3>6, <3>7
  <2>. QED BY <2>4, <2>5
<1>11. Ready(c)'
  <2>1. t0' \in Nat
    BY <1>1, <1>4, kMTileAssumption
  <2>2. resident' = resident
    BY <1>1 DEF resVars
  <2>. HIDE DEF x
  <2>. QED BY <1>1, <1>2, <1>3, <1>5, <2>1, <2>2 DEF Ready, InTile, x
<1>12. Work(c)' /\ Holds(c)' /\ Holds(c)
  BY <1>1, <1>3, <1>10, <1>11 DEF Work, Holds, Slice, Current, InTile
<1>13. \E L \in Nat : DOMAIN gAcc' = 0 .. L - 1
  BY <1>5 DEF AccInv, AccTypes
<1>. HIDE DEF x
<1>. QED BY <1>1, <1>3, <1>12, <1>13, HolderStep

\* All tiles are done: from here g_acc is said to hold the call's sums.
LEMMA ReturnAccInv == ASSUME AccInv, NEW c \in Callers, Return(c) PROVE AccInv'
<1>1. /\ pc[c] = "tile" /\ t0 >= call[c].T /\ mu' = NoCaller
      /\ accOf' = [by |-> c, nth |-> count[c], x |-> call[c]]
      /\ pc' = [pc EXCEPT ![c] = "epilogue"]
      /\ UNCHANGED resVars
      /\ UNCHANGED <<call, count, t0, kc, nc, part, aHost, aDev, gAcc, dst>>
  BY DEF Return, Goto
<1>2. /\ call[c] \in CallSet /\ call[c].T \in Nat
      /\ mu = c /\ (\A h \in Callers \ {c} : ~Holds(h))
      /\ Ready(c) /\ Before(c) /\ dst[c] = <<>>
  BY <1>1, Holder DEF Holds
<1>3. IInv'
  BY <1>1, Stutter DEF AccInv
<1>4. AccTypes'
  BY <1>1, <1>2 DEF AccInv, AccTypes, Locations
<1>5. pc'[c] = "epilogue" /\ \A h \in Callers \ {c} : pc'[h] = pc[h]
  BY <1>1 DEF AccInv, AccTypes
<1>6. \A h \in Callers : ~(Holds(h)')
  BY <1>2, <1>5 DEF Holds
<1>7. Mutex' /\ \A h \in Callers : Work(h)'
  BY <1>1, <1>6, CallersAssumption DEF Mutex, Work
<1>8. Unwritten'
  BY <1>1, <1>5 DEF AccInv, Unwritten
<1>9. Filled'
  BY <1>1, <1>2, <1>5 DEF AccInv, AccTypes, Filled
<1>10. AccumulatorValid'
  <2>1. \A t \in 0 .. call[c].T - 1, n \in 0 .. call[c].N - 1 :
            gAcc[t * call[c].N + n] = ExactSum(c, count[c], call[c], t, n)
    <3>1. \A t \in 0 .. call[c].T - 1 : t < t0
      BY <1>1, <1>2 DEF Ready
    <3>. QED BY <1>2, <3>1 DEF Before
  <2>2. gAcc' = gAcc /\ accOf'.x = call[c] /\ accOf'.by = c /\ accOf'.nth = count[c]
    BY <1>1
  <2>. QED BY <2>1, <2>2 DEF AccumulatorValid
<1>11. DstRightIfValid'
  <2>1. 1 .. Len(dst[c]) = {}
    BY <1>2
  <2>. QED BY <1>1, <2>1 DEF DstRightIfValid
<1>. QED BY <1>3, <1>4, <1>7, <1>8, <1>9, <1>10, <1>11 DEF AccInv

-----------------------------------------------------------------------------
(* Epilogue *)

\* A row is appended.
LEMMA Appended ==
    ASSUME NEW q, NEW row, Len(q) \in Nat, DOMAIN q = 1 .. Len(q)
    PROVE  /\ Len(Append(q, row)) = Len(q) + 1
           /\ DOMAIN Append(q, row) = 1 .. Len(q) + 1
           /\ Append(q, row)[Len(q) + 1] = row
           /\ \A t \in 1 .. Len(q) : Append(q, row)[t] = q[t]
<1>1. Len(Append(q, row)) = Len(q) + 1 /\ DOMAIN Append(q, row) = 1 .. Len(q) + 1
  OBVIOUS
<1>2. Append(q, row)[Len(q) + 1] = row /\ \A t \in 1 .. Len(q) : Append(q, row)[t] = q[t]
  OBVIOUS
<1>. QED BY <1>1, <1>2

\* The row read from g_acc is right if g_acc is still the caller's.
LEMMA EpilogueAccInv == ASSUME AccInv, NEW c \in Callers, Epilogue(c) PROVE AccInv'
<1> DEFINE x == call[c]
           t == Len(dst[c])
           row == [n \in 0 .. x.N - 1 |-> gAcc[t * x.N + n]]
<1>1. /\ pc[c] = "epilogue" /\ t < x.T /\ dst' = [dst EXCEPT ![c] = Append(dst[c], row)]
      /\ UNCHANGED resVars
      /\ UNCHANGED <<pc, call, count, mu, t0, kc, nc, part, aHost, aDev, gAcc, accOf>>
  BY DEF Epilogue
<1>2. x \in CallSet /\ x.T \in Nat /\ x.N \in Nat /\ t \in Nat /\ DOMAIN dst[c] = 1 .. t
  <2>1. x \in CallSet /\ t \in Nat /\ DOMAIN dst[c] = 1 .. t
    BY <1>1 DEF AccInv, AccTypes
  <2>. QED BY <2>1, CallTypes
<1>. HIDE DEF x, row
<1>3. \A h \in Callers \ {c} : dst'[h] = dst[h]
  BY <1>1 DEF AccInv, AccTypes
<1>4. /\ Len(dst'[c]) = t + 1 /\ DOMAIN dst'[c] = 1 .. t + 1
      /\ dst'[c][t + 1] = row /\ \A e \in 1 .. t : dst'[c][e] = dst[c][e]
  <2>1. dst'[c] = Append(dst[c], row)
    BY <1>1 DEF AccInv, AccTypes
  <2>. QED BY <1>2, <2>1, Appended
<1>5. IInv'
  BY <1>1, Stutter DEF AccInv
<1>6. AccTypes'
  <2>1. ASSUME NEW h \in Callers
        PROVE  /\ pc'[h] # "idle" => call'[h] \in CallSet
               /\ Len(dst'[h]) \in Nat /\ DOMAIN dst'[h] = 1 .. Len(dst'[h])
    BY <1>1, <1>2, <1>3, <1>4 DEF AccInv, AccTypes
  <2>2. DOMAIN dst' = Callers
    BY <1>1 DEF AccInv, AccTypes
  <2>. QED BY <1>1, <2>1, <2>2 DEF AccInv, AccTypes
<1>7. Mutex'
  BY <1>1 DEF AccInv, Mutex, Holds
<1>8. \A h \in Callers : Work(h)'
  <2>1. resident' = resident
    BY <1>1 DEF resVars
  <2>. QED BY <1>1, <2>1, Frame DEF AccInv
<1>9. Unwritten'
  BY <1>1, <1>3 DEF AccInv, Unwritten
<1>10. Filled' /\ AccumulatorValid'
  BY <1>1 DEF AccInv, Filled, AccumulatorValid
<1>11. DstRightIfValid'
  <2>1. ASSUME accOf.by = c, accOf.nth = count[c], NEW e \in 1 .. t + 1, NEW n \in 0 .. x.N - 1
        PROVE  dst'[c][e][n] = ExactSum(c, count[c], x, e - 1, n)
    <3>1. CASE e \in 1 .. t
      BY <1>4, <2>1, <3>1 DEF AccInv, DstRightIfValid, x
    <3>2. CASE e \notin 1 .. t
      <4>1. e = t + 1 /\ e - 1 = t /\ t \in 0 .. x.T - 1
        BY <1>1, <1>2, <3>2
      <4>2. accOf.x = x
        <5>1. accOf # NoCall
          BY <2>1, CallersAssumption DEF NoCall
        <5>. QED BY <2>1, <5>1 DEF AccInv, Filled, x
      <4>3. gAcc[t * x.N + n] = ExactSum(c, count[c], x, t, n)
        BY <2>1, <4>1, <4>2 DEF AccInv, AccumulatorValid
      <4>. QED BY <1>4, <4>1, <4>3 DEF row
    <3>. QED BY <3>1, <3>2
  <2>2. \A h \in Callers \ {c} :
             accOf.by = h /\ accOf.nth = count[h] =>
                 \A e \in 1 .. Len(dst[h]) : \A n \in 0 .. call[h].N - 1 :
                     dst[h][e][n] = ExactSum(h, count[h], call[h], e - 1, n)
    BY DEF AccInv, DstRightIfValid
  <2>. HIDE DEF t
  <2>. QED BY <1>1, <1>3, <1>4, <2>1, <2>2 DEF DstRightIfValid, x
<1>. QED BY <1>5, <1>6, <1>7, <1>8, <1>9, <1>10, <1>11 DEF AccInv

LEMMA DoneAccInv == ASSUME AccInv, NEW c \in Callers, Done(c) PROVE AccInv'
<1>1. /\ pc[c] = "epilogue" /\ pc' = [pc EXCEPT ![c] = "idle"]
      /\ UNCHANGED resVars
      /\ UNCHANGED <<call, count, mu, t0, kc, nc, part, aHost, aDev, gAcc, accOf, dst>>
  BY DEF Done, Goto
<1>2. IInv' /\ resident' = resident
  BY <1>1, Stutter DEF AccInv, resVars
<1>3. AccTypes'
  BY <1>1 DEF AccInv, AccTypes, Locations
<1>4. pc'[c] = "idle" /\ \A h \in Callers \ {c} : pc'[h] = pc[h]
  BY <1>1 DEF AccInv, AccTypes
<1>5. Mutex'
  BY <1>1, <1>4 DEF AccInv, Mutex, Holds
<1>6. \A h \in Callers : Work(h)'
  <2>1. ~(Holds(c)')
    BY <1>4 DEF Holds
  <2>. QED BY <1>1, <1>2, <1>4, <2>1, Frame, Idle DEF AccInv
<1>7. Unwritten'
  BY <1>1, <1>4 DEF AccInv, Unwritten
<1>8. Filled'
  BY <1>1, <1>4 DEF AccInv, Filled
<1>9. AccumulatorValid' /\ DstRightIfValid'
  BY <1>1 DEF AccInv, AccumulatorValid, DstRightIfValid
<1>. QED BY <1>2, <1>3, <1>5, <1>6, <1>7, <1>8, <1>9 DEF AccInv

-----------------------------------------------------------------------------
(* Dispatch *)

\* Where the chunk is, and how much of it carries data.
LEMMA Chunk ==
    ASSUME AccInv, NEW c \in Callers, pc[c] = "dispatch"
    PROVE  /\ t0 \in Nat /\ t0 < call[c].T
           /\ Rows(call[c]) \in Nat /\ Rows(call[c]) = Least(kMTile, call[c].T - t0)
           /\ kc \in Nat /\ kc < KChunks(call[c].K)
           /\ kc * kKChunk \in Nat /\ kc * kKChunk < call[c].K
           /\ (kc + 1) * kKChunk = kc * kKChunk + kKChunk
           /\ nc \in Nat /\ nc < NChunks(call[c].N)
           /\ nc * kNChunk \in Nat /\ nc * kNChunk < call[c].N
           /\ (nc + 1) * kNChunk = nc * kNChunk + kNChunk
           /\ NKeep(call[c].N, nc) = Least(kNChunk, call[c].N - nc * kNChunk)
           /\ NKeep(call[c].N, nc) \in Nat
           /\ nc * kNChunk + NKeep(call[c].N, nc) <= call[c].N
<1> DEFINE x == call[c]
<1>1. /\ x.K \in Nat \ {0} /\ x.N \in Nat \ {0} /\ x.T \in Nat
      /\ t0 \in Nat /\ t0 < x.T
      /\ kc \in 0 .. KChunks(x.K) - 1 /\ nc \in 0 .. NChunks(x.N) - 1
  <2>1. Holds(c)
    BY DEF Holds
  <2>. QED BY <2>1, Holder DEF Ready, InTile
<1>. HIDE DEF x
<1>2. Rows(x) \in Nat /\ Rows(x) = Least(kMTile, x.T - t0)
  BY <1>1, kMTileAssumption DEF Rows, Least
<1>3. /\ kc \in Nat /\ kc < KChunks(x.K) /\ kc * kKChunk \in Nat /\ kc * kKChunk < x.K
      /\ (kc + 1) * kKChunk = kc * kKChunk + kKChunk
  <2>1. KChunks(x.K) \in Nat
    BY <1>1, KCover
  <2>. QED BY <1>1, <2>1, KCover
<1>4. /\ nc \in Nat /\ nc < NChunks(x.N) /\ nc * kNChunk \in Nat /\ nc * kNChunk < x.N
      /\ (nc + 1) * kNChunk = nc * kNChunk + kNChunk
  <2>1. NChunks(x.N) \in Nat
    BY <1>1, NCover
  <2>. QED BY <1>1, <2>1, NCover
<1> DEFINE nOff == nc * kNChunk
<1>5. NKeep(x.N, nc) = Least(kNChunk, x.N - nOff)
  BY DEF NKeep
<1>6. nOff \in Nat /\ nOff < x.N
  BY <1>4
<1>. HIDE DEF nOff
<1>7. NKeep(x.N, nc) \in Nat /\ nOff + NKeep(x.N, nc) <= x.N
  BY <1>1, <1>5, <1>6, kChunkAssumption DEF Least
<1>. QED BY <1>1, <1>2, <1>3, <1>4, <1>5, <1>7 DEF nOff, x

\* What comes back for row r and column j: the next slice of the sum of that row and
\* column of the output.
LEMMA ChunkSum ==
    ASSUME AccInv, NEW c \in Callers, pc[c] = "dispatch",
           NEW r \in 0 .. Rows(call[c]) - 1, NEW j \in 0 .. NKeep(call[c].N, nc) - 1
    PROVE  DispatchSum(aDev, ChunkAt(resident[call[c].s], nc, kc), r, j) =
               SetToBag(Products(c, count[c], call[c], t0 + r, nc * kNChunk + j,
                                 kc * kKChunk, (kc + 1) * kKChunk))
<1> DEFINE x == call[c]
           kBegin == kc * kKChunk
           nBegin == nc * kNChunk
<1>1. /\ x.s \in Tensors /\ x.K \in Nat /\ x.N \in Nat /\ x.T \in Nat
      /\ resident[x.s] = Built(x.s, x.K, x.N) /\ Slice(c)
      /\ kc \in 0 .. KChunks(x.K) - 1 /\ nc \in 0 .. NChunks(x.N) - 1
  <2>1. Holds(c)
    BY DEF Holds
  <2>. QED BY <2>1, Holder DEF Ready
<1>2. ChunkAt(resident[x.s], nc, kc) = Slab(x.s, x.K, x.N, nBegin, kBegin)
  BY <1>1, ChunkOf
<1>3. /\ kBegin \in Nat /\ kBegin < x.K /\ (kc + 1) * kKChunk = kBegin + kKChunk
      /\ nBegin \in Nat /\ Rows(x) = Least(kMTile, x.T - t0) /\ t0 \in Nat /\ t0 < x.T
      /\ NKeep(x.N, nc) = Least(kNChunk, x.N - nBegin)
  BY Chunk
<1>4. \A i \in 0 .. kKChunk - 1 :
          aDev[r][i] = IF kBegin + i < x.K THEN Activation(c, count[c], t0 + r, kBegin + i) ELSE Zero
  <2>1. r \in 0 .. kMTile - 1 /\ t0 + r < x.T
    <3>. HIDE DEF x, kBegin, nBegin
    <3>1. r \in 0 .. Rows(x) - 1
      BY DEF x
    <3>. QED BY <1>1, <1>3, <3>1, kMTileAssumption DEF Least
  <2>. QED BY <1>1, <2>1 DEF Slice
<1>. HIDE DEF x, kBegin, nBegin
<1>5. j \in 0 .. kNChunk - 1 /\ nBegin + j < x.N
  <2>1. j \in 0 .. NKeep(x.N, nc) - 1
    BY DEF x
  <2>. QED BY <1>1, <1>3, <2>1, kChunkAssumption DEF Least
<1>6. DispatchSum(aDev, Slab(x.s, x.K, x.N, nBegin, kBegin), r, j) =
          SetToBag(Products(c, count[c], x, t0 + r, nBegin + j, kBegin, kBegin + kKChunk))
  BY <1>1, <1>3, <1>4, <1>5, DispatchOf
<1>. QED BY <1>2, <1>3, <1>6 DEF x, kBegin, nBegin

\* The columns of the chunk move on to the next slice, the others stay where they are.
LEMMA DispatchUpto ==
    ASSUME AccInv, NEW c \in Callers, Dispatch(c), NEW n \in 0 .. call[c].N - 1
    PROVE  LET inChunk == nc * kNChunk <= n /\ n < nc * kNChunk + NKeep(call[c].N, nc)
           IN  /\ inChunk => Upto(c, n) = kc * kKChunk
               /\ InTile(c)' => Upto(c, n)' = IF inChunk THEN (kc + 1) * kKChunk ELSE Upto(c, n)
<1> DEFINE x == call[c]
           nOff == nc * kNChunk
           inChunk == nOff <= n /\ n < nOff + NKeep(x.N, nc)
<1>1. pc[c] = "dispatch" /\ call' = call /\ pc \in [Callers -> Locations]
  BY DEF Dispatch, AccInv, AccTypes
<1>2. /\ nOff \in Nat /\ nOff < x.N /\ (nc + 1) * kNChunk = nOff + kNChunk /\ nc \in Nat
      /\ NKeep(x.N, nc) = Least(kNChunk, x.N - nOff)
  BY <1>1, Chunk
<1>3. /\ x.N \in Nat \ {0} /\ x.K \in Nat \ {0}
  <2>1. Holds(c)
    BY <1>1 DEF Holds
  <2>. QED BY <2>1, Holder
<1>4. n \in 0 .. x.N - 1
  OBVIOUS
<1>5. Upto(c, n) = IF n < nOff THEN (kc + 1) * kKChunk ELSE kc * kKChunk
  BY <1>1 DEF Upto
<1>6. CASE nc + 1 < NChunks(x.N)
  <2>1. pc' = pc /\ nc' = nc + 1 /\ kc' = kc
    BY <1>6 DEF Dispatch
  <2>2. (nc + 1) * kNChunk < x.N
    <3>1. nc + 1 \in 0 .. NChunks(x.N) - 1
      <4>1. NChunks(x.N) \in Nat
        BY <1>3, NCover
      <4>. QED BY <1>2, <1>6, <4>1
    <3>. QED BY <1>3, <3>1, NCover
  <2>3. Upto(c, n)' = IF n < (nc + 1) * kNChunk THEN (kc + 1) * kKChunk ELSE kc * kKChunk
    BY <1>1, <2>1 DEF Upto
  <2>4. NKeep(x.N, nc) = kNChunk
    <3>. HIDE DEF nOff, x
    <3>. QED BY <1>2, <1>3, <2>2, kChunkAssumption DEF Least
  <2>5. n < (nc + 1) * kNChunk <=> n < nOff \/ inChunk
    <3>. HIDE DEF nOff, x
    <3>. QED BY <1>2, <1>3, <1>4, <2>4, kChunkAssumption
  <2>6. inChunk => ~(n < nOff)
    <3>. HIDE DEF nOff, x
    <3>. QED BY <1>2, <1>3, <1>4
  <2>. QED BY <1>5, <2>3, <2>5, <2>6
<1>7. CASE ~(nc + 1 < NChunks(x.N))
  <2>1. /\ kc' = kc + 1
        /\ pc' = [pc EXCEPT ![c] = IF kc + 1 < KChunks(x.K) THEN "stage" ELSE "copyout"]
    BY <1>7 DEF Dispatch, Goto
  <2>2. x.N <= nOff + kNChunk
    <3>1. NChunks(x.N) * kNChunk >= x.N /\ NChunks(x.N) \in Nat
      BY <1>3, NCover
    <3>2. NChunks(x.N) = nc + 1
      <4>1. nc < NChunks(x.N)
        BY <1>1, Chunk
      <4>. QED BY <1>2, <1>7, <3>1, <4>1
    <3>. HIDE DEF nOff, x
    <3>3. (nc + 1) * kNChunk >= x.N
      BY <3>1, <3>2
    <3>. QED BY <1>2, <3>3
  <2>3. inChunk <=> ~(n < nOff)
    <3>. HIDE DEF nOff, x
    <3>. QED BY <1>2, <1>3, <1>4, <2>2, kChunkAssumption DEF Least
  <2>4. Upto(c, n)' = (kc + 1) * kKChunk
    <3>1. CASE kc + 1 < KChunks(x.K)
      <4>1. pc'[c] = "stage"
        BY <1>1, <2>1, <3>1
      <4>. QED BY <2>1, <4>1 DEF Upto
    <3>2. CASE ~(kc + 1 < KChunks(x.K))
      <4>1. pc'[c] = "copyout"
        BY <1>1, <2>1, <3>2
      <4>2. KChunks(x.K) = kc + 1
        <5>1. kc < KChunks(x.K) /\ kc \in Nat /\ KChunks(x.K) \in Nat
          BY <1>1, <1>3, Chunk, KCover
        <5>. QED BY <3>2, <5>1
      <4>. QED BY <1>1, <4>1, <4>2 DEF Upto
    <3>. QED BY <3>1, <3>2
  <2>. QED BY <1>5, <2>3, <2>4
<1>. QED BY <1>6, <1>7

\* The sums of the chunk are added to those of the K chunks before it, or are all there is
\* to them and go to g_acc.
LEMMA DispatchCells ==
    ASSUME AccInv, NEW c \in Callers, Dispatch(c),
           NEW r \in 0 .. Rows(call[c]) - 1, NEW n \in 0 .. call[c].N - 1
    PROVE  LET N == call[c].N
               inChunk == nc * kNChunk <= n /\ n < nc * kNChunk + NKeep(N, nc)
               slice == SetToBag(Products(c, count[c], call[c], t0 + r, n,
                                          kc * kKChunk, (kc + 1) * kKChunk))
           IN  IF KChunks(call[c].K) > 1
                  THEN /\ r * N + n \in DOMAIN part'
                       /\ part'[r * N + n] = IF inChunk THEN part[r * N + n] (+) slice
                                                        ELSE part[r * N + n]
                  ELSE gAcc'[(t0 + r) * N + n] = IF inChunk THEN slice
                                                            ELSE gAcc[(t0 + r) * N + n]
<1> DEFINE x == call[c]
           N == x.N
           R == Rows(x)
           nOff == nc * kNChunk
           keep == NKeep(N, nc)
           inChunk == nOff <= n /\ n < nOff + keep
           slice == SetToBag(Products(c, count[c], x, t0 + r, n, kc * kKChunk, (kc + 1) * kKChunk))
           slab == ChunkAt(resident[x.s], nc, kc)
           sums == [q \in 0 .. R - 1 |-> [j \in 0 .. keep - 1 |-> DispatchSum(aDev, slab, q, j)]]
           added == [q \in 0 .. R - 1 |-> [j \in 0 .. keep - 1 |->
                        part[q * N + nOff + j] (+) sums[q][j]]]
<1>1. /\ pc[c] = "dispatch"
      /\ KChunks(x.K) = 1 => gAcc' = WithBlock(gAcc, t0 * N + nOff, N, R, keep, sums)
      /\ KChunks(x.K) # 1 => part' = WithBlock(part, nOff, N, R, keep, added)
  BY DEF Dispatch
<1>2. /\ x.K \in Nat \ {0} /\ N \in Nat \ {0} /\ x.T \in Nat /\ Ready(c) /\ Current(c)
  <2>1. Holds(c)
    BY <1>1 DEF Holds
  <2>. QED BY <2>1, Holder
<1>3. /\ t0 \in Nat /\ t0 < x.T /\ R \in Nat /\ R = Least(kMTile, x.T - t0)
      /\ nOff \in Nat /\ keep \in Nat /\ nOff + keep <= N
  BY <1>1, Chunk
<1>4. KChunks(x.K) \in Nat \ {0}
  BY <1>2, KCover
<1>5. r \in 0 .. R - 1 /\ n \in 0 .. N - 1
  OBVIOUS
<1>6. inChunk => n - nOff \in 0 .. keep - 1 /\ nOff + (n - nOff) = n
  <2>. HIDE DEF nOff, N, keep
  <2>. QED BY <1>2, <1>3, <1>5
<1>7. inChunk => sums[r][n - nOff] = slice
  <2>1. inChunk => DispatchSum(aDev, slab, r, n - nOff) = slice
    <3>. SUFFICES ASSUME inChunk PROVE DispatchSum(aDev, slab, r, n - nOff) = slice
      OBVIOUS
    <3>1. n - nOff \in 0 .. NKeep(call[c].N, nc) - 1
      BY <1>6
    <3>2. DispatchSum(aDev, slab, r, n - nOff) =
              SetToBag(Products(c, count[c], x, t0 + r, nOff + (n - nOff),
                                kc * kKChunk, (kc + 1) * kKChunk))
      BY <1>1, <3>1, ChunkSum
    <3>. QED BY <1>6, <3>2
  <2>. HIDE DEF slice, slab
  <2>. QED BY <1>5, <1>6, <2>1
<1>8. CASE KChunks(x.K) = 1
  <2>1. Index(N, t0 + r, n) \in DOMAIN gAcc /\ t0 + r \in Nat
    <3>. HIDE DEF R
    <3>1. t0 + r \in 0 .. x.T - 1 /\ t0 + r \in Nat
      BY <1>2, <1>3, <1>5, kMTileAssumption DEF Least
    <3>. QED BY <1>2, <3>1 DEF Ready, Index
  <2>2. gAcc' = WithBlock(gAcc, Index(N, t0, nOff), N, R, keep, sums)
    BY <1>1, <1>8 DEF Index
  <2>. HIDE DEF N, R, nOff, keep, sums, slice
  <2>3. gAcc'[Index(N, t0 + r, n)] =
            IF t0 <= t0 + r /\ t0 + r < t0 + R /\ nOff <= n /\ n < nOff + keep
               THEN sums[(t0 + r) - t0][n - nOff] ELSE gAcc[Index(N, t0 + r, n)]
    <3>1. WithBlock(gAcc, Index(N, t0, nOff), N, R, keep, sums)[Index(N, t0 + r, n)] =
            IF t0 <= t0 + r /\ t0 + r < t0 + R /\ nOff <= n /\ n < nOff + keep
               THEN sums[(t0 + r) - t0][n - nOff] ELSE gAcc[Index(N, t0 + r, n)]
      <4> DEFINE q == t0 + r
      <4>1. q \in Nat /\ Index(N, q, n) \in DOMAIN gAcc
        BY <2>1
      <4>. HIDE DEF q
      <4>2. WithBlock(gAcc, Index(N, t0, nOff), N, R, keep, sums)[Index(N, q, n)] =
              IF t0 <= q /\ q < t0 + R /\ nOff <= n /\ n < nOff + keep
                 THEN sums[q - t0][n - nOff] ELSE gAcc[Index(N, q, n)]
        <5>1. /\ N \in Nat \ {0} /\ t0 \in Nat /\ nOff \in Nat /\ R \in Nat /\ keep \in Nat
              /\ nOff + keep <= N /\ q \in Nat /\ n \in 0 .. N - 1
              /\ Index(N, q, n) \in DOMAIN gAcc
          BY <1>2, <1>3, <1>5, <4>1
        <5>. HIDE DEF x, inChunk, slab
        <5>2. BlockFact(gAcc, N, t0, nOff, R, keep, sums, q, n)
          BY <5>1, BlockAt
        <5>. QED BY <5>2 DEF BlockFact
      <4>. QED BY <4>2 DEF q
    <3>. QED BY <2>2, <3>1
  <2>4. t0 <= t0 + r /\ t0 + r < t0 + R /\ (t0 + r) - t0 = r
    BY <1>3, <1>5
  <2>5. gAcc'[Index(N, t0 + r, n)] = IF inChunk THEN slice ELSE gAcc[Index(N, t0 + r, n)]
    BY <1>7, <2>3, <2>4
  <2>6. gAcc'[(t0 + r) * N + n] = IF inChunk THEN slice ELSE gAcc[(t0 + r) * N + n]
    BY <2>5 DEF Index
  <2>. QED BY <1>8, <2>6 DEF N, nOff, keep, slice
<1>9. CASE KChunks(x.K) # 1
  <2>1. Index(N, r, n) \in DOMAIN part
    BY <1>1, <1>2, <1>4, <1>9 DEF Current, InTile, Index
  <2>2. part' = WithBlock(part, Index(N, 0, nOff), N, R, keep, added)
    <3>1. Index(N, 0, nOff) = nOff
      <4>1. 0 * N = 0
        BY <1>2
      <4>. QED BY <1>3, <4>1 DEF Index
    <3>. QED BY <1>1, <1>9, <3>1
  <2>3. DOMAIN part' = DOMAIN part
    BY <2>2, BlockDomain
  <2>4. inChunk => added[r][n - nOff] = part[Index(N, r, n)] (+) slice
    <3>1. inChunk => added[r][n - nOff] = part[r * N + nOff + (n - nOff)] (+) sums[r][n - nOff]
      <4>. HIDE DEF sums
      <4>. QED BY <1>5, <1>6
    <3>2. inChunk => r * N + nOff + (n - nOff) = r * N + n
      <4>1. r * N \in Int /\ nOff \in Int /\ n \in Int
        BY <1>2, <1>3, <1>5
      <4>. HIDE DEF nOff, N
      <4>. QED BY <4>1
    <3>. HIDE DEF added, sums, slice, nOff, N, keep
    <3>. QED BY <1>7, <3>1, <3>2 DEF Index
  <2>. HIDE DEF N, R, nOff, keep, added, slice
  <2>5. WithBlock(part, Index(N, 0, nOff), N, R, keep, added)[Index(N, r, n)] =
            IF 0 <= r /\ r < 0 + R /\ nOff <= n /\ n < nOff + keep
               THEN added[r - 0][n - nOff] ELSE part[Index(N, r, n)]
    <3> DEFINE z == 0
    <3>1. /\ N \in Nat \ {0} /\ z \in Nat /\ nOff \in Nat /\ R \in Nat /\ keep \in Nat
          /\ nOff + keep <= N /\ r \in Nat /\ n \in 0 .. N - 1 /\ Index(N, r, n) \in DOMAIN part
      BY <1>2, <1>3, <1>5, <2>1
    <3>. HIDE DEF z, x, inChunk, slab, sums
    <3>2. WithBlock(part, Index(N, z, nOff), N, R, keep, added)[Index(N, r, n)] =
              IF z <= r /\ r < z + R /\ nOff <= n /\ n < nOff + keep
                 THEN added[r - z][n - nOff] ELSE part[Index(N, r, n)]
      <4>1. BlockFact(part, N, z, nOff, R, keep, added, r, n)
        BY <3>1, BlockAt
      <4>. QED BY <4>1 DEF BlockFact
    <3>. QED BY <3>2 DEF z
  <2>6. 0 <= r /\ r < 0 + R /\ r - 0 = r
    BY <1>3, <1>5
  <2>7. part'[Index(N, r, n)] = IF inChunk THEN part[Index(N, r, n)] (+) slice
                                           ELSE part[Index(N, r, n)]
    BY <2>2, <2>4, <2>5, <2>6
  <2>8. /\ r * N + n \in DOMAIN part'
        /\ part'[r * N + n] = IF inChunk THEN part[r * N + n] (+) slice ELSE part[r * N + n]
    BY <2>1, <2>3, <2>7 DEF Index
  <2>9. KChunks(x.K) > 1
    BY <1>4, <1>9
  <2>. QED BY <2>8, <2>9 DEF N, nOff, keep, slice
<1>. QED BY <1>8, <1>9

\* The tiles before the current one are not touched.
LEMMA DispatchBefore ==
    ASSUME AccInv, NEW c \in Callers, Dispatch(c)
    PROVE  DOMAIN gAcc' = DOMAIN gAcc /\ Before(c)'
<1> DEFINE x == call[c]
           N == x.N
           R == Rows(x)
           nOff == nc * kNChunk
           keep == NKeep(N, nc)
           slab == ChunkAt(resident[x.s], nc, kc)
           sums == [q \in 0 .. R - 1 |-> [j \in 0 .. keep - 1 |-> DispatchSum(aDev, slab, q, j)]]
<1>1. /\ pc[c] = "dispatch" /\ UNCHANGED <<call, count, t0>>
      /\ gAcc' = gAcc \/ gAcc' = WithBlock(gAcc, t0 * N + nOff, N, R, keep, sums)
  BY DEF Dispatch
<1>2. N \in Nat \ {0} /\ x.T \in Nat /\ Ready(c) /\ Before(c)
  <2>1. Holds(c)
    BY <1>1 DEF Holds
  <2>. QED BY <2>1, Holder
<1>3. /\ t0 \in Nat /\ R \in Nat /\ nOff \in Nat /\ keep \in Nat /\ nOff + keep <= N
  BY <1>1, Chunk
<1>4. DOMAIN gAcc' = DOMAIN gAcc
  BY <1>1, BlockDomain
<1>5. ASSUME NEW t \in 0 .. x.T - 1, NEW n \in 0 .. N - 1, t < t0
      PROVE  gAcc'[t * N + n] = gAcc[t * N + n]
  <2>1. t \in Nat /\ Index(N, t, n) \in DOMAIN gAcc
    BY <1>2 DEF Ready, Index
  <2>2. gAcc' = gAcc \/ gAcc' = WithBlock(gAcc, Index(N, t0, nOff), N, R, keep, sums)
    BY <1>1 DEF Index
  <2>. HIDE DEF N, R, nOff, keep, sums, slab, x
  <2>3. /\ N \in Nat \ {0} /\ t0 \in Nat /\ nOff \in Nat /\ R \in Nat /\ keep \in Nat
        /\ nOff + keep <= N /\ t \in Nat /\ n \in 0 .. N - 1
        /\ Index(N, t, n) \in DOMAIN gAcc
    BY <1>2, <1>3, <2>1
  <2>4. WithBlock(gAcc, Index(N, t0, nOff), N, R, keep, sums)[Index(N, t, n)] =
            IF t0 <= t /\ t < t0 + R /\ nOff <= n /\ n < nOff + keep
               THEN sums[t - t0][n - nOff] ELSE gAcc[Index(N, t, n)]
    <3>1. BlockFact(gAcc, N, t0, nOff, R, keep, sums, t, n)
      BY <2>3, BlockAt
    <3>. QED BY <3>1 DEF BlockFact
  <2>5. ~(t0 <= t)
    BY <1>3, <1>5, <2>1
  <2>. QED BY <2>2, <2>4, <2>5 DEF Index
<1>6. Before(c)'
  <2>. HIDE DEF sums
  <2>. QED BY <1>1, <1>2, <1>5 DEF Before
<1>. QED BY <1>4, <1>6

\* The sums of the tile, after a dispatch.
LEMMA DispatchCurrent ==
    ASSUME AccInv, NEW c \in Callers, Dispatch(c)
    PROVE  Current(c)'
<1> DEFINE x == call[c]
           N == x.N
           Sum(r, n, u) == Partial(c, count[c], x, t0 + r, n, u)
           inChunk(n) == nc * kNChunk <= n /\ n < nc * kNChunk + NKeep(N, nc)
           slice(r, n) == SetToBag(Products(c, count[c], x, t0 + r, n,
                                            kc * kKChunk, (kc + 1) * kKChunk))
<1>1. /\ pc[c] = "dispatch" /\ UNCHANGED <<call, count, t0>>
      /\ KChunks(x.K) = 1 => part' = part
  BY DEF Dispatch
<1>2. /\ x.K \in Nat \ {0} /\ N \in Nat \ {0} /\ Current(c) /\ InTile(c)
  <2>1. Holds(c) /\ InTile(c)
    BY <1>1 DEF Holds, InTile
  <2>. QED BY <2>1, Holder
<1>3. /\ kc \in Nat /\ kc < KChunks(x.K) /\ kc * kKChunk \in Nat /\ kc * kKChunk < x.K
      /\ (kc + 1) * kKChunk = kc * kKChunk + kKChunk
  BY <1>1, Chunk
<1>4. \A r, n : Sum(r, n, kc * kKChunk) (+) slice(r, n) = Sum(r, n, (kc + 1) * kKChunk)
  <2>1. /\ kc * kKChunk \in Nat /\ (kc + 1) * kKChunk \in Nat /\ x.K \in Nat
        /\ kc * kKChunk <= x.K /\ kc * kKChunk <= (kc + 1) * kKChunk
    BY <1>2, <1>3, kChunkAssumption
  <2>. QED BY <2>1, PartialAdd
<1>5. KChunks(x.K) > 1 \/ (KChunks(x.K) = 1 /\ kc = 0)
  <2>1. KChunks(x.K) \in Nat \ {0}
    BY <1>2, KCover
  <2>. QED BY <1>3, <2>1
<1>6. ~(KChunks(x.K) > 1) => \A r, n : slice(r, n) = Sum(r, n, (kc + 1) * kKChunk)
  <2>1. ~(KChunks(x.K) > 1) => kc * kKChunk = 0
    BY <1>5, kChunkAssumption
  <2>. QED BY <2>1 DEF Partial
<1>7. ASSUME InTile(c)', NEW r \in 0 .. Rows(x) - 1, NEW n \in 0 .. N - 1
      PROVE  IF KChunks(x.K) > 1
                THEN r * N + n \in DOMAIN part' /\ part'[r * N + n] = Sum(r, n, Upto(c, n)')
                ELSE Upto(c, n)' > 0 => gAcc'[(t0 + r) * N + n] = Sum(r, n, Upto(c, n)')
  <2>1. /\ inChunk(n) => Upto(c, n) = kc * kKChunk
        /\ Upto(c, n)' = IF inChunk(n) THEN (kc + 1) * kKChunk ELSE Upto(c, n)
    BY <1>7, DispatchUpto
  <2>2. IF KChunks(x.K) > 1
           THEN part[r * N + n] = Sum(r, n, Upto(c, n))
           ELSE Upto(c, n) > 0 => gAcc[(t0 + r) * N + n] = Sum(r, n, Upto(c, n))
    BY <1>2 DEF Current
  <2>3. IF KChunks(x.K) > 1
           THEN /\ r * N + n \in DOMAIN part'
                /\ part'[r * N + n] = IF inChunk(n) THEN part[r * N + n] (+) slice(r, n)
                                                    ELSE part[r * N + n]
           ELSE gAcc'[(t0 + r) * N + n] = IF inChunk(n) THEN slice(r, n)
                                                        ELSE gAcc[(t0 + r) * N + n]
    BY DispatchCells
  <2>. HIDE DEF x, N, Sum, slice, inChunk
  <2>4. CASE inChunk(n)
    BY <1>4, <1>6, <2>1, <2>2, <2>3, <2>4
  <2>5. CASE ~inChunk(n)
    BY <2>1, <2>2, <2>3, <2>5
  <2>. QED BY <2>4, <2>5
<1>8. Rows(x)' = Rows(x) /\ count' = count /\ t0' = t0 /\ call' = call
  BY <1>1 DEF Rows
<1>. HIDE DEF slice, inChunk
<1>. QED BY <1>7, <1>8 DEF Current

LEMMA DispatchAccInv == ASSUME AccInv, NEW c \in Callers, Dispatch(c) PROVE AccInv'
<1> DEFINE x == call[c]
<1>1. /\ pc[c] = "dispatch"
      /\ UNCHANGED resVars
      /\ UNCHANGED <<call, count, mu, t0, aHost, aDev, accOf, dst>>
  BY DEF Dispatch
<1>2. /\ x.K \in Nat \ {0} /\ x.N \in Nat \ {0} /\ x.T \in Nat /\ Ready(c) /\ Slice(c)
  <2>1. Holds(c)
    BY <1>1 DEF Holds
  <2>. QED BY <2>1, Holder
<1>3. /\ kc \in Nat /\ kc < KChunks(x.K) /\ nc \in Nat /\ nc < NChunks(x.N) /\ t0 < x.T
      /\ KChunks(x.K) \in Nat /\ NChunks(x.N) \in Nat
  BY <1>1, <1>2, Chunk, KCover, NCover
<1>4. \/ pc' = pc /\ nc' = nc + 1 /\ kc' = kc /\ nc + 1 < NChunks(x.N)
      \/ /\ nc' = nc /\ kc' = kc + 1
         /\ \/ kc + 1 < KChunks(x.K) /\ pc' = [pc EXCEPT ![c] = "stage"]
            \/ pc' = [pc EXCEPT ![c] = "copyout"]
  BY DEF Dispatch, Goto
<1>5. /\ pc' \in [Callers -> Locations] /\ (\A h \in Callers \ {c} : pc'[h] = pc[h])
      /\ \/ pc'[c] = "dispatch" /\ nc' = nc + 1 /\ kc' = kc /\ nc + 1 < NChunks(x.N)
         \/ pc'[c] = "stage" /\ kc' = kc + 1 /\ kc + 1 < KChunks(x.K)
         \/ pc'[c] = "copyout"
  BY <1>1, <1>4 DEF AccInv, AccTypes, Locations
<1>6. DOMAIN gAcc' = DOMAIN gAcc /\ Before(c)' /\ Current(c)'
  BY DispatchBefore, DispatchCurrent
<1>7. Ready(c)'
  <2>1. /\ pc'[c] \in {"stage", "dispatch"} => kc' \in 0 .. KChunks(x.K) - 1
        /\ pc'[c] = "dispatch" => nc' \in 0 .. NChunks(x.N) - 1
    BY <1>3, <1>5
  <2>2. resident' = resident
    BY <1>1 DEF resVars
  <2>. HIDE DEF x
  <2>. QED BY <1>1, <1>2, <1>3, <1>6, <2>1, <2>2 DEF Ready, x
<1>8. Slice(c)'
  BY <1>1, <1>2, <1>5 DEF Slice
<1>9. Work(c)' /\ Holds(c)' /\ Holds(c)
  BY <1>1, <1>5, <1>6, <1>7, <1>8 DEF Work, Holds
<1>10. \E L \in Nat : DOMAIN gAcc' = 0 .. L - 1
  BY <1>6 DEF AccInv, AccTypes
<1>. HIDE DEF x
<1>. QED BY <1>1, <1>5, <1>9, <1>10, HolderStep

-----------------------------------------------------------------------------
LEMMA NextAccInv == ASSUME AccInv, [Next]_vars PROVE AccInv'
<1>1. CASE UNCHANGED vars
  <2>1. /\ UNCHANGED resVars
        /\ UNCHANGED <<pc, call, count, mu, t0, kc, nc, part, aHost, aDev, gAcc, accOf, dst>>
    BY <1>1 DEF vars, accVars
  <2>2. IInv' /\ resident' = resident
    BY <2>1, Stutter DEF AccInv, resVars
  <2>3. \A h \in Callers : Work(h)'
    BY <2>1, <2>2, Frame DEF AccInv
  <2>4. AccTypes' /\ Mutex'
    BY <2>1 DEF AccInv, AccTypes, Mutex, Holds
  <2>5. Unwritten' /\ Filled' /\ AccumulatorValid'
    BY <2>1 DEF AccInv, Unwritten, Filled, AccumulatorValid
  <2>6. DstRightIfValid'
    BY <2>1 DEF AccInv, DstRightIfValid
  <2>. QED BY <2>2, <2>3, <2>4, <2>5, <2>6 DEF AccInv
<1>2. ASSUME NEW c \in Callers, Call(c) \/ Step(c) PROVE AccInv'
  BY <1>2, CallAccInv, RefuseAccInv, BeginAccInv, BeginTileAccInv, StageAccInv, DispatchAccInv,
     ThrowAccInv, CopyOutAccInv, ReturnAccInv, EpilogueAccInv, DoneAccInv DEF Step
<1>3. CASE Finished
  BY <1>1, <1>3 DEF Finished
<1>. QED BY <1>1, <1>2, <1>3 DEF Next

\* The inductive invariant.
THEOREM AccumulateInvariance == Spec => []AccInv
<1>1. Init => AccInv
  BY InitAccInv
<1>2. AccInv /\ [Next]_vars => AccInv'
  BY NextAccInv
<1>. QED BY <1>1, <1>2, PTL DEF Spec

\* The accumulator is what the header promises, until the next call of accumulate.
THEOREM AccumulatorHolds == Spec => []AccumulatorValid
<1>1. AccInv => AccumulatorValid
  BY DEF AccInv
<1>. QED BY <1>1, AccumulateInvariance, PTL

\* A call that is not overlapped by another writes the right rows.
THEOREM RowsRight == Spec => []DstRightIfValid
<1>1. AccInv => DstRightIfValid
  BY DEF AccInv
<1>. QED BY <1>1, AccumulateInvariance, PTL

\* What the device sees at a dispatch is the slice and nothing else.
THEOREM StagedSlice == Spec => []StagedSliceOnly
<1>1. AccInv => StagedSliceOnly
  BY DEF AccInv, Work, Slice, Holds, StagedSliceOnly
<1>. QED BY <1>1, AccumulateInvariance, PTL

-----------------------------------------------------------------------------
(* Types: what AccTypes and Ready leave out of TypeOK *)

Bounded ==
    /\ count \in [Callers -> 0 .. MaxCalls]
    /\ mu # NoCaller => t0 % kMTile = 0
    /\ \A c \in Callers : Len(dst[c]) <= call[c].T

\* A caller that has made all the calls there may be has left none.
LEMMA CallsLeft ==
    ASSUME count \in [Callers -> 0 .. MaxCalls], Cardinality(CallsMade) < MaxCalls,
           NEW c \in Callers
    PROVE  count[c] < MaxCalls
<1>. SUFFICES ASSUME count[c] = MaxCalls PROVE FALSE
  BY MaxCallsAssumption
<1> DEFINE S == 1 .. MaxCalls
           f == [i \in S |-> <<c, i>>]
<1>1. IsFiniteSet(S) /\ Cardinality(S) = MaxCalls
  BY MaxCallsAssumption, FS_Interval
<1>2. IsFiniteSet(CallsMade)
  <2>1. IsFiniteSet(Callers \X S)
    BY <1>1, CallersAssumption, FS_Product
  <2>. QED BY <2>1, FS_Subset DEF CallsMade
<1>3. f \in [S -> CallsMade]
  BY MaxCallsAssumption DEF CallsMade
<1>. HIDE DEF S
<1>4. \E i, j \in S : i # j /\ f[i] = f[j]
  <2>. HIDE DEF f
  <2>. QED BY <1>1, <1>2, <1>3, FS_PigeonHole
<1>. QED BY <1>4

\* The first token of the next tile.
LEMMA NextTile ==
    ASSUME NEW t \in Nat, t % kMTile = 0
    PROVE  (t + kMTile) % kMTile = 0
<1> DEFINE q == t \div kMTile
<1>1. q \in Int /\ t = kMTile * q + 0
  BY kMTileAssumption, DivMod
<1>. HIDE DEF q
<1>2. kMTile * (q + 1) + 0 = t + kMTile
  BY <1>1, kMTileAssumption
<1>3. (kMTile * (q + 1) + 0) % kMTile = 0
  <2>1. 0 \in 0 .. kMTile - 1 /\ q + 1 \in Int
    BY <1>1, kMTileAssumption
  <2>. QED BY <2>1, kMTileAssumption, DivModUnique, Zenon
<1>. QED BY <1>2, <1>3

\* What a step adds to count, t0 and dst.
LEMMA BoundedStep ==
    ASSUME AccInv, Bounded, NEW c \in Callers, Call(c) \/ Step(c)
    PROVE  Bounded'
<1>1. ASSUME NEW h \in Callers PROVE call[h].T \in Nat
  <2>1. NoCall.x.T = 0
    BY DEF NoCall
  <2>2. call[h] \in CallSet \cup {NoCall.x}
    BY DEF AccInv, AccTypes
  <2>. QED BY <2>1, <2>2, CallTypes
<1>2. CASE Call(c)
  <2>1. PICK x \in CallSet : call' = [call EXCEPT ![c] = x]
    BY <1>2 DEF Call
  <2>2. count' \in [Callers -> 0 .. MaxCalls]
    <3>1. count[c] < MaxCalls
      BY <1>2, CallsLeft DEF Call, Bounded
    <3>2. count' = [count EXCEPT ![c] = count[c] + 1]
      BY <1>2 DEF Call
    <3>. QED BY <3>1, <3>2, MaxCallsAssumption DEF Bounded
  <2>3. \A h \in Callers : Len(dst'[h]) <= call'[h].T
    <3>1. dst'[c] = <<>> /\ call'[c] = x
      BY <1>2, <2>1 DEF Call, AccInv, AccTypes
    <3>2. \A h \in Callers \ {c} : dst'[h] = dst[h] /\ call'[h] = call[h]
      BY <1>2, <2>1 DEF Call, AccInv, AccTypes
    <3>3. Len(<<>>) = 0 /\ x.T \in Nat
      BY CallTypes
    <3>. QED BY <3>1, <3>2, <3>3 DEF Bounded
  <2>. QED BY <1>2, <2>2, <2>3 DEF Call, Bounded
<1>3. CASE Epilogue(c)
  <2>1. \A h \in Callers : Len(dst'[h]) <= call[h].T
    <3>1. Len(dst[c]) < call[c].T /\ Len(dst[c]) \in Nat /\ DOMAIN dst[c] = 1 .. Len(dst[c])
      BY <1>3 DEF Epilogue, AccInv, AccTypes
    <3>2. PICK row : dst'[c] = Append(dst[c], row)
      BY <1>3 DEF Epilogue, AccInv, AccTypes
    <3>3. Len(dst'[c]) = Len(dst[c]) + 1
      BY <3>1, <3>2, Appended
    <3>4. \A h \in Callers \ {c} : dst'[h] = dst[h]
      BY <1>3 DEF Epilogue, AccInv, AccTypes
    <3>. QED BY <1>1, <3>1, <3>3, <3>4 DEF Bounded
  <2>. QED BY <1>3, <2>1 DEF Epilogue, Bounded
<1>4. CASE CopyOut(c)
  <2>1. mu = c /\ t0 \in Nat
    BY <1>4 DEF CopyOut, AccInv, Mutex, Work, Ready, Holds
  <2>2. t0' % kMTile = 0
    BY <1>4, <2>1, CallersAssumption, NextTile DEF CopyOut, Bounded
  <2>. QED BY <1>4, <2>2 DEF CopyOut, Bounded
<1>5. CASE Begin(c)
  <2>1. t0' % kMTile = 0
    BY <1>5, kMTileAssumption DEF Begin
  <2>. QED BY <1>5, <2>1 DEF Begin, Bounded
<1>6. CASE Refuse(c) \/ Throw(c) \/ Return(c) \/ Done(c)
  BY <1>6 DEF Refuse, Throw, Return, Done, Bounded
<1>7. CASE BeginTile(c) \/ Stage(c) \/ Dispatch(c)
  BY <1>7 DEF BeginTile, Stage, Dispatch, Bounded
<1>. QED BY <1>2, <1>3, <1>4, <1>5, <1>6, <1>7 DEF Step

\* The holder of g_mu has room for all rows: the last of them is in g_acc.
LEMMA Room ==
    ASSUME AccInv, mu # NoCaller
    PROVE  Size(gAcc) >= call[mu].T * call[mu].N
<1> DEFINE T == call[mu].T
           N == call[mu].N
<1>1. mu \in Callers /\ Holds(mu)
  BY DEF AccInv, AccTypes, Mutex
<1>2. T \in Nat /\ N \in Nat /\ T * N \in Nat
  <2>1. call[mu] \in CallSet
    BY <1>1 DEF AccInv, AccTypes, Holds
  <2>. QED BY <2>1, CallTypes
<1>3. \A t \in 0 .. T - 1, n \in 0 .. N - 1 : t * N + n \in DOMAIN gAcc
  BY <1>1 DEF AccInv, Work, Ready
<1>4. PICK L \in Nat : DOMAIN gAcc = 0 .. L - 1
  BY DEF AccInv, AccTypes
<1>5. Size(gAcc) = L
  BY <1>4, FS_Interval DEF Size
<1>. HIDE DEF T, N
<1>6. CASE T = 0 \/ N = 0
  <2>1. T * N = 0
    BY <1>2, <1>6
  <2>. QED BY <1>4, <1>5, <2>1 DEF T, N
<1>7. CASE T > 0 /\ N > 0
  <2>1. (T - 1) * N + (N - 1) = T * N - 1 /\ (T - 1) * N \in Int
    BY <1>2
  <2>2. (T - 1) * N + (N - 1) \in DOMAIN gAcc
    BY <1>2, <1>3, <1>7
  <2>3. T * N - 1 <= L - 1
    BY <1>2, <1>4, <2>1, <2>2
  <2>. QED BY <1>2, <1>4, <1>5, <2>3 DEF T, N
<1>. QED BY <1>2, <1>6, <1>7

\* The loop variables stay inside the call, the accumulator has room for it, and no
\* output has more rows than its call asked for.
THEOREM TypeCorrect == Spec => []TypeOK
<1>1. Init => Bounded
  <2>. SUFFICES ASSUME Init PROVE Bounded
    OBVIOUS
  <2>1. \A c \in Callers : Len(dst[c]) = 0 /\ call[c].T = 0
    BY DEF Init, NoCall
  <2>. QED BY <2>1, MaxCallsAssumption DEF Init, Bounded
<1>2. AccInv /\ Bounded /\ [Next]_vars => Bounded'
  <2>1. ASSUME Bounded, UNCHANGED vars PROVE Bounded'
    BY <2>1 DEF vars, accVars, Bounded
  <2>. QED BY <2>1, BoundedStep DEF Next, Finished
<1>3. AccInv /\ Bounded => TypeOK
  <2>. SUFFICES ASSUME AccInv, Bounded PROVE TypeOK
    OBVIOUS
  <2>1. pc[mu] = "dispatch" /\ mu # NoCaller =>
            kc < KChunks(call[mu].K) /\ nc < NChunks(call[mu].N)
    <3>. SUFFICES ASSUME pc[mu] = "dispatch", mu # NoCaller
                  PROVE  kc < KChunks(call[mu].K) /\ nc < NChunks(call[mu].N)
      OBVIOUS
    <3>1. mu \in Callers /\ call[mu].K \in Nat /\ call[mu].N \in Nat
      <4>1. mu \in Callers /\ call[mu] \in CallSet
        BY DEF AccInv, AccTypes
      <4>. QED BY <4>1, CallTypes
    <3>2. /\ kc \in 0 .. KChunks(call[mu].K) - 1
          /\ nc \in 0 .. NChunks(call[mu].N) - 1
      BY <3>1 DEF AccInv, Work, Holds, Ready
    <3>3. KChunks(call[mu].K) \in Nat /\ NChunks(call[mu].N) \in Nat
      BY <3>1, ChunkCount
    <3>. QED BY <3>2, <3>3
  <2>. QED BY <2>1, Room DEF AccInv, AccTypes, Bounded, TypeOK
<1>. QED BY <1>1, <1>2, <1>3, AccumulateInvariance, PTL DEF Spec

=============================================================================
