---------------------------- MODULE MCTokenSplit ----------------------------
(***************************************************************************)
(* Batches on bounded inputs.  The constants are those of the source       *)
(* divided by 16 (tile 64, chunks 160, dimensions 160 and 432), so every   *)
(* ratio the code meets -- 6912 is 2.7 chunks -- is kept.                  *)
(***************************************************************************)
EXTENDS Batches

\* Around every boundary of a tile.
MCBatchSizes == {1, 2, 7, 32, 63, 64, 65, 95, 96, 97, 127, 128, 129, 159, 160, 161, 191, 192, 200}

\* BITNET_XDNA_TILES forcing 0, 1 or 3 tiles, or a fraction in eighths.
MCSettings == [tiles : {0, 1, 3}, num : {4}, den : {8}]
                \cup [tiles : {-1}, num : 0 .. 8, den : {8}]

\* What bitnet_xdna.h:39-40 promises of token_split: a multiple of the token tile,
\* or the whole batch when it is too small to divide.  (A fraction of 1 asks for
\* the whole batch explicitly.)
DocTileMultiple ==
    pool > 1 /\ setting.tiles < 0 /\ setting.num < setting.den =>
        npuShare % kMTile = 0 \/ (batch <= kMTile /\ npuShare = batch)

=============================================================================
