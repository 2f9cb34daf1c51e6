---------------------------- MODULE MCJournalsOpen ----------------------------
(* Model checking instances of JournalsOpen. *)
EXTENDS JournalsOpen
=============================================================================
