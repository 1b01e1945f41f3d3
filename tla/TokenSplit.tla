----------------------------- MODULE TokenSplit -----------------------------
(***************************************************************************)
(* The arithmetic that divides one I2_S mul_mat between the NPU and the    *)
(* CPU threads: which batches are offloaded, how many tokens the NPU takes *)
(* (bitnet_xdna_token_split), how a tensor is cut into K and N chunks      *)
(* (plan_for and the accumulate loops), and how the hook in ggml-cpu.c     *)
(* shards rows and tokens over the threadpool.                             *)
(*                                                                         *)
(* Pure operators, no state: Offload.tla and Accumulate.tla build on them, *)
(* MCTokenSplit.tla checks them with the constants of the source and       *)
(* TokenSplitProofs.tla proves the partitions for every value.             *)
(***************************************************************************)
EXTENDS Integers

CONSTANTS
    kMTile,      \* tokens one dispatch serves (1024 in the source)
    kKChunk,     \* K of the single compiled program (2560)
    kNChunk,     \* N of the single compiled program (2560)
    ServedDims,  \* the tensor dimensions plan_for accepts ({2560, 6912})
    kAlign,      \* every dimension is a multiple of it (64)
    kCols        \* row shards start at multiples of it (mnc, 4)

ASSUME kMTileAssumption == kMTile \in Nat \ {0}
ASSUME kChunkAssumption == kKChunk \in Nat \ {0} /\ kNChunk \in Nat \ {0}
ASSUME kColsAssumption == kCols \in Nat \ {0}
ASSUME ServedDimsAssumption == ServedDims \subseteq Nat \ {0}
\* 64 is a multiple of 4: the shape check implies the alignment the shards need.
ASSUME AlignAssumption == kAlign \in Nat \ {0} /\ kAlign % kCols = 0

Least(a, b) == IF a < b THEN a ELSE b

-----------------------------------------------------------------------------
(* Eligibility *)

\* plan_for: the shape is served at all.
Supports(K, N) == /\ K % kAlign = 0
                  /\ N % kAlign = 0
                  /\ K \in ServedDims
                  /\ N \in ServedDims

\* plan_for: how many chunks a served shape is decomposed into.
NChunks(N) == (N + kNChunk - 1) \div kNChunk
KChunks(K) == (K + kKChunk - 1) \div kKChunk

\* The columns (and, below, the K slice) of a chunk that carry data: the rest
\* of the fixed-size chunk is padding.
NKeep(N, nc) == Least(kNChunk, N - nc * kNChunk)
KKeep(K, kc) == Least(kKChunk, K - kc * kKChunk)

\* bitnet_xdna_worth_it, with g_min_tokens as bitnet_xdna_available leaves it:
\* the environment's value, clamped up to one tile.
MinTokens(env) == IF env < kMTile THEN kMTile ELSE env
WorthIt(tokens, env) == tokens >= MinTokens(env)

-----------------------------------------------------------------------------
(* bitnet_xdna_token_split.  A configuration is the pair of knobs the code  *)
(* reads: tiles is g_force_tiles (-1 for "use the fraction"), num / den is  *)
(* g_split_frac, a fraction a double holds exactly (den a power of two), so *)
(* that the floating-point product is the rational one.                     *)

\* (int64_t)((double)n / kMTile * frac + 0.5)
NearestTilesTruncated(tokens, cfg) == (tokens * cfg.num) \div (kMTile * cfg.den) \* mutation
NearestTiles(tokens, cfg) ==
    (2 * tokens * cfg.num + kMTile * cfg.den) \div (2 * kMTile * cfg.den)

\* At least one tile, and never more than the batch: the two clamps in the
\* order of the code.
ClampTilesUncapped(tokens, t) == IF t < kMTile THEN kMTile ELSE t   \* mutation
ClampTiles(tokens, t) == Least(IF t < kMTile THEN kMTile ELSE t, tokens)

Split(tokens, cfg) ==
    IF tokens <= 0 THEN 0
    ELSE IF cfg.tiles >= 0 THEN Least(cfg.tiles * kMTile, tokens)
    ELSE IF tokens <= kMTile \/ cfg.num >= cfg.den THEN tokens
    ELSE IF cfg.num <= 0 THEN 0
    ELSE ClampTiles(tokens, NearestTiles(tokens, cfg) * kMTile)

\* The hook does not divide the batch when there is only one thread.
TNpu(tokens, nth, cfg) == IF nth > 1 THEN Split(tokens, cfg) ELSE tokens

-----------------------------------------------------------------------------
(* Shards over the threadpool *)

RoundUp(s) == IF s % kCols # 0 THEN s + kCols - (s % kCols) ELSE s

\* Rows of ne01 computed by member i of a team of the given size: s0 and s1.
ShardBegin(i, team, rows) == RoundUp((i * rows) \div team)
RowShardUnaligned(i, team, rows) ==   \* mutation
    ((i * rows) \div team) .. (ShardBegin(i + 1, team, rows) - 1)
RowShard(i, team, rows) == ShardBegin(i, team, rows) .. (ShardBegin(i + 1, team, rows) - 1)

\* Tokens whose accumulators thread i converts in the epilogue: rb and re.
EpiBeginEven(i, nth, tokens) == i * (tokens \div nth)   \* mutation
EpiBegin(i, nth, tokens) == (i * tokens) \div nth
EpiShard(i, nth, tokens) == EpiBegin(i, nth, tokens) .. (EpiBegin(i + 1, nth, tokens) - 1)

\* The CPU kernels take kCols tokens at a time, then one at a time: how many
\* tokens the iteration that starts at token c computes.
GroupLen(c, tokens) == IF c + kCols <= tokens THEN kCols ELSE 1

=============================================================================
