---------------------------- MODULE MCRetention -----------------------------
(***************************************************************************)
(* Instances of Retention for TLC.                                         *)
(***************************************************************************)
EXTENDS Retention

\* The first two artifacts expire together, the third after them.
MCExpiry == [a \in Artifacts |-> IF a <= 2 THEN 1 ELSE 2]
=============================================================================
