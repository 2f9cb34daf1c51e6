--------------------------------- MODULE MCText ---------------------------------
(* Model checking instances of Text. *)
EXTENDS Text
=============================================================================
