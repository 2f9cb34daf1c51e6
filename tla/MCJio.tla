--------------------------------- MODULE MCJio ---------------------------------
(* Model checking instances of Jio. *)
EXTENDS Jio
=============================================================================
