----------------------------- MODULE MCOffload ------------------------------
(***************************************************************************)
(* Offload on four threads and three nodes: a batch the NPU and the CPU    *)
(* share (two full tiles, then a group of kCols tokens and a tail token),  *)
(* a decode step that is not offloaded, and a batch the NPU takes whole,   *)
(* its last tile short.                                                    *)
(***************************************************************************)
EXTENDS Offload

MCne00 == <<2, 2, 2>>
MCne01 == <<4, 2, 2>>
MCne11 == <<7, 1, 3>>
MCKnobs == [tiles |-> 2, num |-> 1, den |-> 2]

=============================================================================
