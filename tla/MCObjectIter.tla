----------------------------- MODULE MCObjectIter -----------------------------
(* Model checking instances of ObjectIter. *)
EXTENDS ObjectIter
=============================================================================
