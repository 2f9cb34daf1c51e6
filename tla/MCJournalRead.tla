----------------------------- MODULE MCJournalRead -----------------------------
(* Model checking instances of JournalRead. *)
EXTENDS JournalRead
=============================================================================
