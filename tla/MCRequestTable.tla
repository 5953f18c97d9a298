--------------------------- MODULE MCRequestTable ---------------------------
(***************************************************************************)
(* Instances of RequestTable for TLC.  Threads are model values; Requests  *)
(* are numbers, so that the choice of a new one is deterministic.          *)
(***************************************************************************)
EXTENDS RequestTable, TLC

\* Threads of one kind differ in nothing but their names.
ThreadSymmetry == Permutations(Senders) \cup Permutations(Queriers)
=============================================================================
