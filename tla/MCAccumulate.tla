---------------------------- MODULE MCAccumulate ----------------------------
(***************************************************************************)
(* Accumulate with two callers.  A tile is 2 tokens, a chunk 2 x 2; the     *)
(* calls have a short tile, two K chunks with a short slice, two N chunks   *)
(* with a short one, and accumulators of different size and stride.         *)
(***************************************************************************)
EXTENDS Accumulate

MCShapes == {<<2, 3>>, <<3, 2>>, <<3, 3>>}
MCCallSet == {[s |-> "s1", K |-> 3, N |-> 3, T |-> 3],
              [s |-> "s2", K |-> 2, N |-> 3, T |-> 1],
              [s |-> "s2", K |-> 3, N |-> 2, T |-> 2]}

=============================================================================
