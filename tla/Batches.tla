------------------------------ MODULE Batches -------------------------------
(***************************************************************************)
(* TokenSplit in a process: it fixes the size of its threadpool and its    *)
(* knobs once, and batches of any size then arrive.                        *)
(***************************************************************************)
EXTENDS TokenSplit

CONSTANTS
    BatchSizes,     \* token counts that arrive
    ThreadCounts,   \* sizes of the threadpool
    Settings        \* BITNET_XDNA_TILES and BITNET_XDNA_SPLIT, as TokenSplit has them

ASSUME BatchesAssumption ==
    /\ BatchSizes \subseteq Nat
    /\ ThreadCounts \subseteq Nat \ {0}
    /\ \A s \in Settings : s.tiles \in Int /\ s.num \in Nat /\ s.den \in Nat \ {0}

VARIABLES pool, setting, batch

batchVars == <<pool, setting, batch>>

InitBatches == /\ pool \in ThreadCounts
               /\ setting \in Settings
               /\ batch = 0

NextBatch == /\ batch' \in BatchSizes
             /\ UNCHANGED <<pool, setting>>

SpecBatches == InitBatches /\ [][NextBatch]_batchVars

\* The tokens of the batch that the NPU takes.
npuShare == TNpu(batch, pool, setting)

-----------------------------------------------------------------------------
\* The shards lie inside 0 .. size - 1, cover it, and overlap nowhere.
Partition(shards, size) ==
    /\ UNION {shards[i] : i \in DOMAIN shards} = 0 .. size - 1
    /\ \A i, j \in DOMAIN shards : i # j => shards[i] \cap shards[j] = {}

Apart(a, b) == IF a < b THEN b - a ELSE a - b

BatchesTypeOK == /\ pool \in ThreadCounts
                 /\ setting \in Settings
                 /\ batch \in BatchSizes \cup {0}
                 /\ npuShare \in 0 .. batch

\* Every row of a tensor that plan_for accepts is computed by exactly one thread and no
\* thread writes past the last row: s0/s1 of the hook's CPU share (one thread fewer)
\* and the same sharding in the full CPU path below it.
RowShardsPartition ==
    \A rows \in ServedDims : \A team \in {pool, pool - 1} \ {0} :
        Supports(rows, rows) =>
            Partition([i \in 0 .. team - 1 |-> RowShard(i, team, rows)], rows)

\* The epilogue's rb/re shards convert every NPU token exactly once, also when
\* there are fewer tokens than threads.
EpiShardsPartition ==
    Partition([i \in 0 .. pool - 1 |-> EpiShard(i, pool, npuShare)], npuShare)

\* bitnet_xdna_token_split against what it is for: with a fraction strictly between
\* 0 and 1 and a batch over one tile, no whole number of tiles that fits in the
\* batch is nearer to the fraction of the batch than the result.
SplitNearest ==
    pool > 1 /\ setting.tiles < 0 /\ setting.num \in 1 .. setting.den - 1 /\ batch > kMTile =>
        \A m \in 1 .. batch \div kMTile :
            Apart(npuShare * setting.den, batch * setting.num)
                <= Apart(m * kMTile * setting.den, batch * setting.num)

=============================================================================
