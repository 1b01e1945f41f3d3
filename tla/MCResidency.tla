---------------------------- MODULE MCResidency -----------------------------
(***************************************************************************)
(* Residency on two tensors and every shape of the model, one of them not  *)
(* served: chunks of 2 x 2, dimensions 2 (one chunk) and 3 (two, padded).  *)
(***************************************************************************)
EXTENDS Residency

MCShapes == {<<2, 2>>, <<2, 3>>, <<3, 2>>, <<3, 3>>, <<4, 2>>}

=============================================================================
