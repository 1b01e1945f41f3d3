-------------------------------- MODULE Gemm --------------------------------
(***************************************************************************)
(* What a dispatch of the compiled program promises the shim: between its  *)
(* start and its completion blocks of the output are stored, each with the *)
(* product it stands for, and on completion all of them have been --       *)
(* whatever an earlier dispatch left in the output.  Nothing of cores,     *)
(* FIFOs and transfers is visible.  WholeArray and SingleCore implement it.*)
(***************************************************************************)
EXTENDS Integers

CONSTANT Dispatches   \* how many dispatches are made (bound)

VARIABLES
    begun,   \* dispatches begun
    ended,   \* dispatches completed
    out      \* block -> the dispatch whose product it holds, 0 for none

vars == <<begun, ended, out>>

Init == /\ begun = 0
        /\ ended = 0
        /\ \A b \in DOMAIN out : out[b] = 0

Begin == /\ begun = ended
         /\ begun < Dispatches
         /\ begun' = begun + 1
         /\ UNCHANGED <<ended, out>>

Store == /\ ended < begun
         /\ DOMAIN out' = DOMAIN out
         /\ \A b \in DOMAIN out : out'[b] \in {out[b], begun}
         /\ UNCHANGED <<begun, ended>>

Complete == /\ ended < begun
            /\ \A b \in DOMAIN out : out[b] = begun
            /\ ended' = begun
            /\ UNCHANGED <<begun, out>>

Next == Begin \/ Store \/ Complete

Safety == Init /\ [][Next]_vars

\* A dispatch that has begun completes.
Spec == Safety /\ (ended < begun ~> ended = begun)

=============================================================================
