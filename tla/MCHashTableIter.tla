---------------------------- MODULE MCHashTableIter ----------------------------
(* Model checking instances of HashTableIter. *)
EXTENDS HashTableIter
=============================================================================
