--------------------------- MODULE MCSegmentedQueue ---------------------------
(* Model values for SegmentedQueue. *)
EXTENDS SegmentedQueue, TLC

Symmetry == Permutations(Clients) \cup Permutations(Ids)
=============================================================================
