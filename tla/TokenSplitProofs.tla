-------------------------- MODULE TokenSplitProofs --------------------------
(***************************************************************************)
(* Theorems about the arithmetic of TokenSplit, for every tile, chunk,     *)
(* batch, thread count and fraction: the row and token shards partition    *)
(* the work, and the NPU's share of a batch is a prefix of it.             *)
(***************************************************************************)
EXTENDS Batches, TLAPS

-----------------------------------------------------------------------------
(* Integer division *)

\* The two ways a quotient is used below: it is at most q exactly when the
\* dividend has not reached the next multiple, and it grows with the dividend.
LEMMA DivLeq ==
    ASSUME NEW a \in Int, NEW b \in Nat \ {0}, NEW q \in Int
    PROVE  /\ a \div b \in Int
           /\ a \div b <= q <=> a < b * (q + 1)
  OBVIOUS

LEMMA DivGeq ==
    ASSUME NEW a \in Int, NEW b \in Nat \ {0}, NEW q \in Int
    PROVE  q <= a \div b <=> b * q <= a
<1>1. q <= a \div b <=> ~(a \div b <= q - 1)
  BY DivLeq
<1>2. a \div b <= q - 1 <=> a < b * q
  BY DivLeq
<1>3. b * q \in Int
  OBVIOUS
<1> QED
  BY <1>1, <1>2, <1>3

LEMMA DivMonotone ==
    ASSUME NEW a \in Int, NEW c \in Int, NEW b \in Nat \ {0}, a <= c
    PROVE  a \div b <= c \div b
<1>1. b * (a \div b) <= a /\ a \div b \in Int
  BY DivGeq, DivLeq
<1>2. b * (a \div b) <= c
  BY <1>1
<1> QED
  BY <1>1, <1>2, DivGeq

\* Members i and i + 1 of a team that shares size items stand on either side of
\* item k exactly when i is this quotient: the witness of every covering below.
LEMMA Straddle ==
    ASSUME NEW size \in Nat, NEW team \in Nat \ {0}, NEW k \in 0 .. size - 1
    PROVE  \E i \in 0 .. team - 1 :
              /\ (i * size) \div team <= k
              /\ k < ((i + 1) * size) \div team
<1> DEFINE i == ((k + 1) * team - 1) \div size
<1>1. size \in Nat \ {0}
  OBVIOUS
<1>2. (k + 1) * team - 1 \in Nat
  <2>1. k + 1 \in Nat \ {0}
    OBVIOUS
  <2> QED
    BY <2>1
<1>3. i \in Int
  BY <1>1, <1>2, DivLeq
<1>4. size * i <= (k + 1) * team - 1
  BY <1>1, <1>2, <1>3, DivGeq
<1>5. (k + 1) * team - 1 < size * (i + 1)
  BY <1>1, <1>2, <1>3, DivLeq
<1>6. 0 <= i
  BY <1>1, <1>2, <1>3, DivGeq
<1>7. i <= team - 1
  <2>1. (k + 1) * team <= size * team
    BY <1>1
  <2>2. (k + 1) * team - 1 < size * ((team - 1) + 1)
    BY <2>1
  <2> QED
    BY <1>1, <1>2, <2>2, DivLeq
<1>8. (i * size) \div team <= k
  <2>1. i * size < team * (k + 1)
    BY <1>3, <1>4
  <2> HIDE DEF i
  <2> QED
    BY <1>3, <2>1, DivLeq
<1>9. k < ((i + 1) * size) \div team
  <2>1. team * (k + 1) <= (i + 1) * size
    BY <1>3, <1>5
  <2> HIDE DEF i
  <2>2. k + 1 <= ((i + 1) * size) \div team
    BY <1>3, <2>1, DivGeq
  <2>3. ((i + 1) * size) \div team \in Int
    BY <1>3, DivLeq
  <2> QED
    BY <2>2, <2>3
<1>10. i \in 0 .. team - 1
  BY <1>3, <1>6, <1>7
<1> HIDE DEF i
<1> WITNESS i \in 0 .. team - 1
<1> QED
  BY <1>8, <1>9

\* The shard boundaries of a team increase, start at 0 and end at size.
LEMMA BoundaryMonotone ==
    ASSUME NEW size \in Nat, NEW team \in Nat \ {0},
           NEW i \in Nat, NEW j \in Nat, i <= j
    PROVE  (i * size) \div team <= (j * size) \div team
<1>1. i * size \in Int /\ j * size \in Int /\ i * size <= j * size
  OBVIOUS
<1> QED
  BY <1>1, DivMonotone

LEMMA BoundaryEnds ==
    ASSUME NEW size \in Nat, NEW team \in Nat \ {0}
    PROVE  /\ (0 * size) \div team = 0
           /\ (team * size) \div team = size
<1>1. 0 * size = 0 /\ 0 \div team = 0
  BY DivLeq, DivGeq
<1>2. team * size \in Int /\ (team * size) \div team \in Int
  BY DivLeq
<1>3. size <= (team * size) \div team
  BY <1>2, DivGeq
<1>4. (team * size) \div team <= size
  <2>1. team * size < team * (size + 1)
    OBVIOUS
  <2> QED
    BY <1>2, <2>1, DivLeq
<1> QED
  BY <1>1, <1>2, <1>3, <1>4

-----------------------------------------------------------------------------
(* The epilogue's token shards *)

\* Every NPU token is converted by some thread, by no two threads, and no thread
\* converts a token the NPU did not take (rb and re of the hook).
THEOREM EpiShardsPartitionTokens ==
    ASSUME NEW nth \in Nat \ {0}, NEW tokens \in Nat
    PROVE  /\ \A k \in 0 .. tokens - 1 :
                 \E i \in 0 .. nth - 1 : k \in EpiShard(i, nth, tokens)
           /\ \A i \in 0 .. nth - 1 : EpiShard(i, nth, tokens) \subseteq 0 .. tokens - 1
           /\ \A i, j \in 0 .. nth - 1 :
                 i # j => EpiShard(i, nth, tokens) \cap EpiShard(j, nth, tokens) = {}
<1>1. \A i \in Nat : EpiBegin(i, nth, tokens) \in Int
  <2> SUFFICES ASSUME NEW i \in Nat
               PROVE  EpiBegin(i, nth, tokens) \in Int
    OBVIOUS
  <2>1. i * tokens \in Int
    OBVIOUS
  <2> QED
    BY <2>1, DivLeq DEF EpiBegin
<1>2. \A i, j \in Nat : i <= j => EpiBegin(i, nth, tokens) <= EpiBegin(j, nth, tokens)
  BY BoundaryMonotone DEF EpiBegin
<1>3. EpiBegin(0, nth, tokens) = 0 /\ EpiBegin(nth, nth, tokens) = tokens
  BY BoundaryEnds DEF EpiBegin
<1>4. ASSUME NEW k \in 0 .. tokens - 1
      PROVE  \E i \in 0 .. nth - 1 : k \in EpiShard(i, nth, tokens)
  <2>1. PICK i \in 0 .. nth - 1 : /\ EpiBegin(i, nth, tokens) <= k
                                  /\ k < EpiBegin(i + 1, nth, tokens)
    BY Straddle DEF EpiBegin
  <2>2. /\ EpiBegin(i, nth, tokens) \in Int
        /\ EpiBegin(i + 1, nth, tokens) \in Int
    BY <1>1
  <2>3. k \in EpiShard(i, nth, tokens)
    BY <2>1, <2>2 DEF EpiShard
  <2> QED
    BY <2>3
<1>5. ASSUME NEW i \in 0 .. nth - 1
      PROVE  EpiShard(i, nth, tokens) \subseteq 0 .. tokens - 1
  <2>1. /\ EpiBegin(0, nth, tokens) <= EpiBegin(i, nth, tokens)
        /\ EpiBegin(i + 1, nth, tokens) <= EpiBegin(nth, nth, tokens)
    BY <1>2
  <2>2. EpiBegin(i, nth, tokens) \in Int /\ EpiBegin(i + 1, nth, tokens) \in Int
    BY <1>1
  <2> QED
    BY <1>3, <2>1, <2>2 DEF EpiShard
<1>6. ASSUME NEW i \in 0 .. nth - 1, NEW j \in 0 .. nth - 1, i < j
      PROVE  EpiShard(i, nth, tokens) \cap EpiShard(j, nth, tokens) = {}
  <2>1. EpiBegin(i + 1, nth, tokens) <= EpiBegin(j, nth, tokens)
    BY <1>2, <1>6
  <2>2. /\ EpiBegin(i, nth, tokens) \in Int /\ EpiBegin(i + 1, nth, tokens) \in Int
        /\ EpiBegin(j, nth, tokens) \in Int /\ EpiBegin(j + 1, nth, tokens) \in Int
    BY <1>1
  <2> QED
    BY <2>1, <2>2 DEF EpiShard
<1>7. ASSUME NEW i \in 0 .. nth - 1, NEW j \in 0 .. nth - 1, i # j
      PROVE  EpiShard(i, nth, tokens) \cap EpiShard(j, nth, tokens) = {}
  <2>1. i < j \/ j < i
    BY <1>7
  <2> QED
    BY <1>6, <2>1
<1> QED
  BY <1>4, <1>5, <1>7

-----------------------------------------------------------------------------
(* The row shards: the same boundaries, rounded up to a multiple of kCols *)

\* A rounded boundary is at most r exactly when the unrounded one is at most the
\* last multiple of kCols not above r.
LEMMA RoundUpLeq ==
    ASSUME NEW s \in Nat, NEW r \in Nat
    PROVE  /\ RoundUp(s) \in Nat
           /\ RoundUp(s) <= r <=> s <= kCols * (r \div kCols)
<1> DEFINE q == s \div kCols
           p == r \div kCols
<1>1. /\ s = kCols * q + (s % kCols)
      /\ s % kCols \in 0 .. kCols - 1
      /\ q \in Nat
  BY kColsAssumption
<1>2. /\ kCols * p <= r
      /\ r < kCols * (p + 1)
      /\ p \in Nat
  BY kColsAssumption, DivLeq, DivGeq
<1>3. CASE s % kCols = 0
  <2>1. RoundUp(s) = s
    BY <1>3 DEF RoundUp
  <2>2. s <= r => s <= kCols * p
    <3>1. s <= r => kCols * q < kCols * (p + 1)
      BY <1>1, <1>2, <1>3, kColsAssumption
    <3>2. s <= r => q < p + 1
      BY <3>1, <1>1, <1>2, kColsAssumption
    <3>3. q <= p => kCols * q <= kCols * p
      BY <1>1, <1>2, kColsAssumption
    <3>4. s = kCols * q
      BY <1>1, <1>3, kColsAssumption
    <3> HIDE DEF q, p
    <3> QED
      BY <3>2, <3>3, <3>4, <1>1, <1>2
  <2>3. s <= kCols * p => s <= r
    BY <1>2, kColsAssumption
  <2> QED
    BY <2>1, <2>2, <2>3
<1>4. CASE s % kCols # 0
  <2>1. RoundUp(s) = kCols * (q + 1)
    <3>1. RoundUp(s) = s + kCols - (s % kCols)
      BY <1>4 DEF RoundUp
    <3> QED
      BY <1>1, <3>1, kColsAssumption
  <2>2. kCols * (q + 1) <= r => s <= kCols * p
    <3>1. kCols * (q + 1) <= r => q + 1 <= p
      BY <1>1, <1>2, kColsAssumption, DivGeq
    <3>2. q + 1 <= p => kCols * (q + 1) <= kCols * p
      BY <1>1, <1>2, kColsAssumption
    <3>3. s <= kCols * (q + 1)
      BY <1>1, kColsAssumption
    <3> HIDE DEF q, p
    <3> QED
      BY <3>1, <3>2, <3>3, <1>1, <1>2, kColsAssumption
  <2>3. s <= kCols * p => kCols * (q + 1) <= r
    <3>1. kCols * q < s
      BY <1>1, <1>4, kColsAssumption
    <3>2. s <= kCols * p => q < p
      BY <3>1, <1>1, <1>2, kColsAssumption
    <3>3. q < p => kCols * (q + 1) <= kCols * p
      BY <1>1, <1>2, kColsAssumption
    <3> HIDE DEF q, p
    <3> QED
      BY <3>2, <3>3, <1>1, <1>2, kColsAssumption
  <2>4. kCols * (q + 1) \in Nat
    BY <1>1, kColsAssumption
  <2> QED
    BY <2>1, <2>2, <2>3, <2>4
<1> QED
  BY <1>3, <1>4

\* The boundaries of the row shards of a tensor whose rows are a multiple of
\* kCols: they increase, start at 0 and end at the last row.
LEMMA ShardBoundaries ==
    ASSUME NEW team \in Nat \ {0}, NEW rows \in Nat, rows % kCols = 0
    PROVE  /\ \A i \in Nat : ShardBegin(i, team, rows) \in Nat
           /\ \A i, j \in Nat :
                 i <= j => ShardBegin(i, team, rows) <= ShardBegin(j, team, rows)
           /\ ShardBegin(0, team, rows) = 0
           /\ ShardBegin(team, team, rows) = rows
<1>1. \A i \in Nat : (i * rows) \div team \in Nat
  <2> SUFFICES ASSUME NEW i \in Nat
               PROVE  (i * rows) \div team \in Nat
    OBVIOUS
  <2>1. i * rows \in Nat
    OBVIOUS
  <2> QED
    BY <2>1, DivLeq, DivGeq
<1>2. \A i \in Nat : ShardBegin(i, team, rows) \in Nat
  BY <1>1, RoundUpLeq DEF ShardBegin
<1>3. ASSUME NEW i \in Nat, NEW j \in Nat, i <= j
      PROVE  ShardBegin(i, team, rows) <= ShardBegin(j, team, rows)
  <2> DEFINE s == (i * rows) \div team
             u == (j * rows) \div team
             c == kCols * (ShardBegin(j, team, rows) \div kCols)
  <2>1. s <= u
    BY <1>3, BoundaryMonotone
  <2>2. s \in Nat /\ u \in Nat
    BY <1>1
  <2>3. ShardBegin(j, team, rows) \in Nat
    BY <1>2
  <2>4. u <= c
    BY <2>2, <2>3, RoundUpLeq DEF ShardBegin
  <2>5. c \in Int
    BY <2>3, DivLeq, kColsAssumption
  <2>6. s <= c
    BY <2>1, <2>2, <2>4, <2>5
  <2> QED
    BY <2>2, <2>3, <2>6, RoundUpLeq DEF ShardBegin
<1>4. RoundUp(0) = 0 /\ RoundUp(rows) = rows
  BY kColsAssumption DEF RoundUp
<1> QED
  BY <1>2, <1>3, <1>4, BoundaryEnds DEF ShardBegin

\* Every row is computed by some thread, by no two threads, and no thread
\* computes a row past the end of the tensor (s0 and s1 of the hook's CPU share,
\* and the full CPU path).  Rounding to kCols keeps this because plan_for only
\* accepts row counts that are multiples of kCols (RowsAreAligned).
THEOREM RowShardsPartitionRows ==
    ASSUME NEW team \in Nat \ {0}, NEW rows \in Nat, rows % kCols = 0
    PROVE  /\ \A r \in 0 .. rows - 1 :
                 \E i \in 0 .. team - 1 : r \in RowShard(i, team, rows)
           /\ \A i \in 0 .. team - 1 : RowShard(i, team, rows) \subseteq 0 .. rows - 1
           /\ \A i, j \in 0 .. team - 1 :
                 i # j => RowShard(i, team, rows) \cap RowShard(j, team, rows) = {}
<1>1. \A i \in Nat : ShardBegin(i, team, rows) \in Nat
  BY ShardBoundaries
<1>2. \A i, j \in Nat : i <= j => ShardBegin(i, team, rows) <= ShardBegin(j, team, rows)
  BY ShardBoundaries
<1>3. ShardBegin(0, team, rows) = 0 /\ ShardBegin(team, team, rows) = rows
  BY ShardBoundaries
<1>4. ASSUME NEW r \in 0 .. rows - 1
      PROVE  \E i \in 0 .. team - 1 : r \in RowShard(i, team, rows)
  <2> DEFINE k == kCols * (r \div kCols)
  <2>1. k \in 0 .. rows - 1
    <3>1. r \div kCols \in Nat
      BY DivLeq, DivGeq, kColsAssumption
    <3>2. k <= r
      BY <3>1, DivGeq, kColsAssumption
    <3>3. k \in Nat
      BY <3>1, kColsAssumption
    <3> QED
      BY <3>2, <3>3
  <2>2. PICK i \in 0 .. team - 1 : /\ (i * rows) \div team <= k
                                   /\ k < ((i + 1) * rows) \div team
    BY <2>1, Straddle
  <2> HIDE DEF k
  <2>3. /\ (i * rows) \div team \in Nat
        /\ ((i + 1) * rows) \div team \in Nat
    <3>1. i * rows \in Nat /\ (i + 1) * rows \in Nat
      OBVIOUS
    <3> QED
      BY <3>1, DivLeq, DivGeq
  <2>4. ShardBegin(i, team, rows) <= r
    BY <2>2, <2>3, RoundUpLeq DEF ShardBegin, k
  <2>5. ~(ShardBegin(i + 1, team, rows) <= r)
    <3>1. ~(((i + 1) * rows) \div team <= k)
      BY <2>1, <2>2, <2>3
    <3> QED
      BY <2>3, <3>1, RoundUpLeq DEF ShardBegin, k
  <2>6. /\ ShardBegin(i, team, rows) \in Nat
        /\ ShardBegin(i + 1, team, rows) \in Nat
    BY <1>1
  <2>7. r \in RowShard(i, team, rows)
    BY <2>4, <2>5, <2>6 DEF RowShard
  <2> QED
    BY <2>7
<1>5. ASSUME NEW i \in 0 .. team - 1
      PROVE  RowShard(i, team, rows) \subseteq 0 .. rows - 1
  <2>1. /\ ShardBegin(0, team, rows) <= ShardBegin(i, team, rows)
        /\ ShardBegin(i + 1, team, rows) <= ShardBegin(team, team, rows)
    BY <1>2
  <2>2. ShardBegin(i, team, rows) \in Nat /\ ShardBegin(i + 1, team, rows) \in Nat
    BY <1>1
  <2> QED
    BY <1>3, <2>1, <2>2 DEF RowShard
<1>6. ASSUME NEW i \in 0 .. team - 1, NEW j \in 0 .. team - 1, i < j
      PROVE  RowShard(i, team, rows) \cap RowShard(j, team, rows) = {}
  <2>1. ShardBegin(i + 1, team, rows) <= ShardBegin(j, team, rows)
    BY <1>2, <1>6
  <2>2. /\ ShardBegin(i, team, rows) \in Nat /\ ShardBegin(i + 1, team, rows) \in Nat
        /\ ShardBegin(j, team, rows) \in Nat /\ ShardBegin(j + 1, team, rows) \in Nat
    BY <1>1
  <2> QED
    BY <2>1, <2>2 DEF RowShard
<1>7. ASSUME NEW i \in 0 .. team - 1, NEW j \in 0 .. team - 1, i # j
      PROVE  RowShard(i, team, rows) \cap RowShard(j, team, rows) = {}
  <2>1. i < j \/ j < i
    BY <1>7
  <2> QED
    BY <1>6, <2>1
<1> QED
  BY <1>4, <1>5, <1>7

\* A served tensor has a whole number of kCols rows (the % 64 test of plan_for).
LEMMA RowsAreAligned ==
    ASSUME NEW K \in Nat, NEW N \in Nat, Supports(K, N)
    PROVE  N % kCols = 0
<1> DEFINE a == kAlign \div kCols
           b == N \div kAlign
<1>1. kAlign = kCols * a /\ a \in Int
  BY AlignAssumption, kColsAssumption
<1>2. N = kAlign * b /\ b \in Int
  BY AlignAssumption DEF Supports
<1>3. N = kCols * (a * b) /\ a * b \in Int
  <2> HIDE DEF a, b
  <2> QED
    BY <1>1, <1>2, kColsAssumption
<1> HIDE DEF a, b
<1> QED
  <2> DEFINE m == a * b
  <2> HIDE DEF m
  <2>1. N = kCols * m /\ m \in Int
    BY <1>3 DEF m
  <2> QED
    BY <2>1, kColsAssumption

-----------------------------------------------------------------------------
(* The NPU's share of a batch *)

\* The knobs of bitnet_xdna_available: a tile count or -1, and a fraction.
KnobsOK(cfg) == /\ cfg.tiles \in Int
                /\ cfg.num \in Nat
                /\ cfg.den \in Nat \ {0}

\* token_split gives the NPU a prefix of the batch -- never more tokens than
\* there are -- made of whole tiles unless it is the whole batch.
THEOREM SplitIsWholeTilesOrAll ==
    ASSUME NEW tokens \in Nat, NEW nth \in Nat \ {0}, NEW cfg, KnobsOK(cfg)
    PROVE  /\ TNpu(tokens, nth, cfg) \in 0 .. tokens
           /\ \/ TNpu(tokens, nth, cfg) = tokens
              \/ \E m \in Nat : TNpu(tokens, nth, cfg) = m * kMTile
<1> DEFINE tiles == NearestTiles(tokens, cfg)
<1>1. tiles \in Nat
  <2>1. /\ 2 * tokens * cfg.num + kMTile * cfg.den \in Nat
        /\ 2 * kMTile * cfg.den \in Nat \ {0}
    <3>1. cfg.num \in Nat /\ cfg.den \in Nat \ {0} /\ 2 * kMTile \in Nat \ {0}
      BY kMTileAssumption DEF KnobsOK
    <3>2. \A a, b \in Nat : a * b \in Nat
      OBVIOUS
    <3>3. \A a, b \in Nat \ {0} : a * b \in Nat \ {0}
      OBVIOUS
    <3>4. 2 * tokens * cfg.num \in Nat /\ kMTile * cfg.den \in Nat
      BY <3>1, <3>2, kMTileAssumption
    <3> QED
      BY <3>1, <3>3, <3>4
  <2> QED
    BY <2>1, DivLeq, DivGeq DEF NearestTiles
<1> HIDE DEF tiles
<1>2. CASE cfg.tiles >= 0 /\ tokens > 0
  <2>1. cfg.tiles \in Nat /\ cfg.tiles * kMTile \in Nat
    BY <1>2, kMTileAssumption DEF KnobsOK
  <2>2. \/ Split(tokens, cfg) = tokens
        \/ Split(tokens, cfg) = cfg.tiles * kMTile /\ Split(tokens, cfg) < tokens
    BY <1>2, <2>1 DEF Split, Least
  <2> QED
    BY <2>1, <2>2 DEF TNpu
<1>3. CASE cfg.tiles < 0 /\ tokens > kMTile
  <2>1. Split(tokens, cfg) \in {tokens, 0, ClampTiles(tokens, tiles * kMTile)}
    BY <1>3 DEF Split, tiles, KnobsOK
  <2>2. tiles * kMTile \in Nat
    BY <1>1, kMTileAssumption
  <2>3. /\ ClampTiles(tokens, tiles * kMTile) \in {tokens, tiles * kMTile, 1 * kMTile}
        /\ ClampTiles(tokens, tiles * kMTile) \in 0 .. tokens
    BY <2>2, kMTileAssumption, <1>3 DEF ClampTiles, Least
  <2>4. 0 = 0 * kMTile
    BY kMTileAssumption
  <2> QED
    BY <1>1, <2>1, <2>3, <2>4 DEF TNpu
<1>4. CASE tokens = 0 \/ (cfg.tiles < 0 /\ tokens <= kMTile)
  BY <1>4, kMTileAssumption DEF TNpu, Split, KnobsOK
<1> QED
  BY <1>2, <1>3, <1>4, kMTileAssumption DEF KnobsOK

\* The rounding of NearestTiles: q whole tiles are at most half a tile from the share that
\* is asked for.  Everything is multiplied by den: U is a tile, x the share.
LEMMA HalfATile ==
    ASSUME NEW x \in Nat, NEW U \in Nat \ {0}, NEW q, q = (2 * x + U) \div (2 * U)
    PROVE  /\ q \in Nat /\ q * U \in Nat
           /\ 2 * (q * U) <= 2 * x + U
           /\ 2 * x < 2 * (q * U) + U
<1>1. 2 * x + U \in Nat /\ 2 * U \in Nat \ {0}
  OBVIOUS
<1>2. q \in Int /\ (2 * U) * q <= 2 * x + U
  BY <1>1, DivLeq, DivGeq
<1>3. 2 * x + U < (2 * U) * (q + 1)
  <2> DEFINE a == 2 * x + U
             b == 2 * U
  <2>1. a \in Nat /\ b \in Nat \ {0} /\ q = a \div b
    BY <1>1
  <2>. HIDE DEF a, b
  <2>2. a < b * (q + 1)
    BY <1>2, <2>1, DivLeq
  <2>. QED BY <2>2 DEF a, b
<1>4. 0 <= q
  <2>1. (2 * U) * 0 <= 2 * x + U
    OBVIOUS
  <2>. QED BY <1>1, <2>1, DivGeq
<1>5. (2 * U) * q = 2 * (q * U) /\ (2 * U) * (q + 1) = 2 * (q * U) + 2 * U /\ q * U \in Nat
  BY <1>2, <1>4
<1>. QED BY <1>2, <1>3, <1>4, <1>5

\* token_split against what it is for: with a fraction strictly between 0 and 1 and a batch
\* of more than one tile, no whole number of tiles that fits the batch is nearer to the
\* fraction of the batch than the result -- the two clamps included.
THEOREM SplitIsNearest ==
    ASSUME NEW tokens \in Nat, NEW nth \in Nat, nth > 1, tokens > kMTile,
           NEW cfg, KnobsOK(cfg), cfg.tiles < 0, cfg.num \in 1 .. cfg.den - 1,
           NEW m \in 1 .. tokens \div kMTile
    PROVE  Apart(TNpu(tokens, nth, cfg) * cfg.den, tokens * cfg.num)
               <= Apart(m * kMTile * cfg.den, tokens * cfg.num)
<1> DEFINE D == cfg.den
           x == tokens * cfg.num
           U == kMTile * D
           q == NearestTiles(tokens, cfg)
           npu == TNpu(tokens, nth, cfg)
<1>1. D \in Nat \ {0} /\ cfg.num \in Nat /\ cfg.num < D /\ kMTile \in Nat \ {0}
  BY kMTileAssumption DEF KnobsOK
<1>2. x \in Nat /\ U \in Nat \ {0} /\ tokens * D \in Nat /\ x < tokens * D
  <2>1. x \in Nat /\ tokens * D \in Nat
    BY <1>1
  <2>2. U \in Nat \ {0}
    BY <1>1
  <2>3. tokens * D = x + tokens * (D - cfg.num) /\ D - cfg.num \in Nat \ {0}
    BY <1>1
  <2>4. tokens \in Nat \ {0}
    BY <1>1
  <2>5. tokens * (D - cfg.num) \in Nat \ {0}
    BY <2>3, <2>4
  <2>. QED BY <2>1, <2>2, <2>3, <2>5
<1>3. q = (2 * x + U) \div (2 * U)
  <2>1. \A a, b \in Nat : 2 * a * b = 2 * (a * b)
    OBVIOUS
  <2>2. 2 * tokens * cfg.num = 2 * x /\ 2 * kMTile * D = 2 * U
    BY <1>1, <2>1
  <2>. QED BY <2>2 DEF NearestTiles
<1>4. npu = Least(IF q * kMTile < kMTile THEN kMTile ELSE q * kMTile, tokens)
  <2>1. TNpu(tokens, nth, cfg) = Split(tokens, cfg)
    BY DEF TNpu
  <2>2. Split(tokens, cfg) = ClampTiles(tokens, q * kMTile)
    BY <1>1 DEF Split, KnobsOK
  <2>. QED BY <2>1, <2>2 DEF ClampTiles
<1>. HIDE DEF q, npu
<1>5. /\ q \in Nat /\ q * U \in Nat /\ 2 * (q * U) <= 2 * x + U /\ 2 * x < 2 * (q * U) + U
  BY <1>2, <1>3, HalfATile, Zenon
<1>6. m \in Nat \ {0} /\ m * kMTile \in Nat /\ m * kMTile <= tokens
  <2>1. m \in Nat \ {0} /\ tokens \div kMTile \in Int /\ m <= tokens \div kMTile
    BY <1>1, DivLeq
  <2>2. kMTile * m <= tokens
    BY <1>1, <2>1, DivGeq
  <2>. QED BY <1>1, <2>1, <2>2
<1>7. m * kMTile * D = m * U /\ m * U \in Nat /\ q * kMTile \in Nat /\ q * kMTile * D = q * U
  <2>1. \A a, b, d \in Nat : a * b * d = a * (b * d) /\ a * b \in Nat
    OBVIOUS
  <2>. QED BY <1>1, <1>2, <1>5, <1>6, <2>1
\* Tiles that differ are a tile apart.
<1>8. /\ m < q => m * U + U <= q * U
      /\ m > q => q * U + U <= m * U
      /\ U <= m * U
  <2>1. \A a, b, d \in Nat : a < b => a * d + d <= b * d
    <3>. SUFFICES ASSUME NEW a \in Nat, NEW b \in Nat, NEW d \in Nat, a < b
                  PROVE  a * d + d <= b * d
      OBVIOUS
    <3>1. b * d = a * d + d + (b - a - 1) * d /\ a * d \in Nat
      OBVIOUS
    <3>2. (b - a - 1) * d \in Nat
      <4>1. b - a - 1 \in Nat
        OBVIOUS
      <4>. QED BY <4>1
    <3>. QED BY <3>1, <3>2
  <2>2. 0 * U = 0 /\ 0 < m /\ m \in Nat /\ U \in Nat
    BY <1>2, <1>6
  <2>. QED BY <1>5, <2>1, <2>2
<1>9. q = m => q * U = m * U
  OBVIOUS
<1>. SUFFICES Apart(npu * D, x) <= Apart(m * U, x)
  BY <1>7 DEF npu
<1>10. CASE q = 0
  <2>1. npu = kMTile
    <3>1. q * kMTile = 0
      BY <1>1, <1>10
    <3>. QED BY <1>1, <1>4, <3>1 DEF Least
  <2>2. npu * D = U /\ q * U = 0
    BY <1>2, <1>10, <2>1
  <2>. HIDE DEF U, x
  <2>. QED BY <1>2, <1>5, <1>7, <1>8, <2>2 DEF Apart
<1>11. CASE q > 0 /\ q * kMTile <= tokens
  <2>1. npu = q * kMTile
    <3>1. q * kMTile >= kMTile
      BY <1>1, <1>5, <1>11
    <3>. QED BY <1>1, <1>4, <1>7, <1>11, <3>1 DEF Least
  <2>2. npu * D = q * U
    BY <1>7, <2>1
  <2>. HIDE DEF U, x
  <2>. QED BY <1>2, <1>5, <1>6, <1>7, <1>8, <1>9, <2>2 DEF Apart
\* The tiles asked for do not fit: the whole batch is nearer than what does.
<1>12. CASE q > 0 /\ q * kMTile > tokens
  <2>1. npu = tokens
    BY <1>1, <1>4, <1>7, <1>12 DEF Least
  <2>2. tokens * D < q * U
    <3>1. q * kMTile * D = tokens * D + (q * kMTile - tokens) * D /\ q * kMTile - tokens \in Nat \ {0}
      BY <1>1, <1>7, <1>12
    <3>2. (q * kMTile - tokens) * D \in Nat \ {0}
      BY <1>1, <3>1
    <3>. QED BY <1>2, <1>7, <3>1, <3>2
  <2>3. m < q
    <3>1. m >= q => m * kMTile >= q * kMTile
      <4>1. m >= q => m * kMTile = q * kMTile + (m - q) * kMTile
        BY <1>1, <1>5, <1>6
      <4>2. m >= q => (m - q) * kMTile \in Nat
        <5>1. m >= q => m - q \in Nat
          BY <1>5, <1>6
        <5>. QED BY <1>1, <5>1
      <4>. QED BY <1>6, <1>7, <4>1, <4>2
    <3>. QED BY <1>5, <1>6, <1>7, <1>12, <3>1
  <2>. HIDE DEF U, x
  <2>. QED BY <1>2, <1>5, <1>7, <1>8, <2>1, <2>2, <2>3 DEF Apart
<1>. QED BY <1>5, <1>7, <1>10, <1>11, <1>12

-----------------------------------------------------------------------------
(* A process and its batches *)

\* What its sizes are, whatever batch arrives.
BatchesInv == pool \in ThreadCounts /\ setting \in Settings /\ batch \in BatchSizes \cup {0}

LEMMA BatchesFacts ==
    ASSUME BatchesInv
    PROVE  pool \in Nat \ {0} /\ batch \in Nat /\ KnobsOK(setting) /\ npuShare \in 0 .. batch
<1>1. pool \in Nat \ {0} /\ batch \in Nat /\ KnobsOK(setting)
  BY BatchesAssumption DEF BatchesInv, KnobsOK
<1>2. npuShare \in 0 .. batch
  BY <1>1, SplitIsWholeTilesOrAll DEF npuShare
<1>. QED BY <1>1, <1>2

LEMMA PartitionOf ==
    ASSUME NEW team \in Int, NEW size \in Int, NEW s, DOMAIN s = 0 .. team - 1,
           \A k \in 0 .. size - 1 : \E i \in 0 .. team - 1 : k \in s[i],
           \A i \in 0 .. team - 1 : s[i] \subseteq 0 .. size - 1,
           \A i, j \in 0 .. team - 1 : i # j => s[i] \cap s[j] = {}
    PROVE  Partition(s, size)
<1>1. 0 .. size - 1 \subseteq UNION {s[i] : i \in 0 .. team - 1}
  OBVIOUS
<1>2. UNION {s[i] : i \in 0 .. team - 1} \subseteq 0 .. size - 1
  OBVIOUS
<1>. QED BY <1>1, <1>2 DEF Partition

LEMMA BatchesInvariance == SpecBatches => []BatchesInv
<1>1. InitBatches => BatchesInv
  BY DEF InitBatches, BatchesInv
<1>2. BatchesInv /\ [NextBatch]_batchVars => BatchesInv'
  BY DEF BatchesInv, NextBatch, batchVars
<1>. QED BY <1>1, <1>2, PTL DEF SpecBatches

\* For any tile, threadpool and knobs, the NPU never takes more tokens than there are.
THEOREM ShareInBatch == SpecBatches => []BatchesTypeOK
<1>1. BatchesInv => BatchesTypeOK
  BY BatchesFacts DEF BatchesInv, BatchesTypeOK
<1>. QED BY <1>1, BatchesInvariance, PTL

\* For any threadpool, every row of every tensor that plan_for accepts is computed by one
\* thread: of the whole pool in the CPU path, of all but one in the CPU share.
THEOREM RowsPartitioned == SpecBatches => []RowShardsPartition
<1>1. ASSUME BatchesInv PROVE RowShardsPartition
  <2>. SUFFICES ASSUME NEW rows \in ServedDims, NEW team \in {pool, pool - 1} \ {0},
                       Supports(rows, rows)
                PROVE  Partition([i \in 0 .. team - 1 |-> RowShard(i, team, rows)], rows)
    BY DEF RowShardsPartition
  <2>1. rows \in Nat /\ team \in Nat \ {0}
    BY <1>1, BatchesFacts, ServedDimsAssumption
  <2>2. rows % kCols = 0
    BY <2>1, RowsAreAligned
  <2>3. /\ \A r \in 0 .. rows - 1 : \E i \in 0 .. team - 1 : r \in RowShard(i, team, rows)
        /\ \A i \in 0 .. team - 1 : RowShard(i, team, rows) \subseteq 0 .. rows - 1
        /\ \A i, j \in 0 .. team - 1 :
              i # j => RowShard(i, team, rows) \cap RowShard(j, team, rows) = {}
    BY <2>1, <2>2, RowShardsPartitionRows
  <2> DEFINE s == [i \in 0 .. team - 1 |-> RowShard(i, team, rows)]
  <2>4. DOMAIN s = 0 .. team - 1 /\ \A i \in 0 .. team - 1 : s[i] = RowShard(i, team, rows)
    OBVIOUS
  <2>. HIDE DEF s
  <2>5. Partition(s, rows)
    BY <2>1, <2>3, <2>4, PartitionOf
  <2>. QED BY <2>5 DEF s
<1>. QED BY <1>1, BatchesInvariance, PTL

\* For any threadpool, batch and knobs, every token of the NPU's share is converted by one
\* thread, and nobody converts another token.
THEOREM TokensPartitioned == SpecBatches => []EpiShardsPartition
<1>1. ASSUME BatchesInv PROVE EpiShardsPartition
  <2>1. pool \in Nat \ {0} /\ npuShare \in Nat
    BY <1>1, BatchesFacts
  <2>2. /\ \A k \in 0 .. npuShare - 1 : \E i \in 0 .. pool - 1 : k \in EpiShard(i, pool, npuShare)
        /\ \A i \in 0 .. pool - 1 : EpiShard(i, pool, npuShare) \subseteq 0 .. npuShare - 1
        /\ \A i, j \in 0 .. pool - 1 :
              i # j => EpiShard(i, pool, npuShare) \cap EpiShard(j, pool, npuShare) = {}
    BY <2>1, EpiShardsPartitionTokens
  <2> DEFINE s == [i \in 0 .. pool - 1 |-> EpiShard(i, pool, npuShare)]
  <2>3. /\ DOMAIN s = 0 .. pool - 1
        /\ \A i \in 0 .. pool - 1 : s[i] = EpiShard(i, pool, npuShare)
    OBVIOUS
  <2>. HIDE DEF s
  <2>4. Partition(s, npuShare)
    BY <2>1, <2>2, <2>3, PartitionOf
  <2>. QED BY <2>4 DEF s, EpiShardsPartition
<1>. QED BY <1>1, BatchesInvariance, PTL

\* For any tile, fraction and batch of more than one tile, no whole number of tiles that fits
\* is nearer to the fraction of the batch than the NPU's share.
THEOREM ShareIsNearest == SpecBatches => []SplitNearest
<1>1. ASSUME BatchesInv PROVE SplitNearest
  <2>. SUFFICES ASSUME pool > 1, setting.tiles < 0, setting.num \in 1 .. setting.den - 1,
                       batch > kMTile, NEW m \in 1 .. batch \div kMTile
                PROVE  Apart(npuShare * setting.den, batch * setting.num)
                           <= Apart(m * kMTile * setting.den, batch * setting.num)
    BY DEF SplitNearest
  <2>1. pool \in Nat /\ batch \in Nat /\ KnobsOK(setting)
    BY <1>1, BatchesFacts
  <2>. QED BY <2>1, SplitIsNearest DEF npuShare
<1>. QED BY <1>1, BatchesInvariance, PTL

=============================================================================
