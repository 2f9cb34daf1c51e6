------------------------------ MODULE MCTailWaste ------------------------------
(* Model checking instances of TailWaste. *)
EXTENDS TailWaste, TLC

JournalSymmetry == Permutations(Journal)
=============================================================================
