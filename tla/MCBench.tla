------------------------------ MODULE MCBench -------------------------------
(***************************************************************************)
(* Bench on small lists of options: shares of up to two tiles, a block     *)
(* with two tenants and one with none, and tenants that live as long as a  *)
(* run and a half.                                                         *)
(***************************************************************************)
EXTENDS Bench

MCLevels == <<2, 0>>

=============================================================================
