--------------------------- MODULE MCAvailability ---------------------------
(***************************************************************************)
(* Availability with three threads, a batch of 5 tokens, tiles of 2, and    *)
(* environments that set each variable to nothing, to a value that is       *)
(* taken, and to one that is refused, ignored or clamped.                   *)
(***************************************************************************)
EXTENDS Availability

MCEnvironments ==
    [enabled : BOOLEAN,
     tiles : {Unset, 0, 1},
     split : {Unset, <<1, 4>>, <<3, 2>>, <<-1, 2>>},
     minTokens : {Unset, 0, 1, 4, 6},
     device : {"present", "absent", "throws"}]

=============================================================================
