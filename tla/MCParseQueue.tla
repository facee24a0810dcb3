---------------------------- MODULE MCParseQueue ----------------------------
(***************************************************************************)
(* Instances of ParseQueue for TLC: two workers.                           *)
(***************************************************************************)
EXTENDS ParseQueue, TLC

CONSTANTS w1, w2

MCWorkers == {w1, w2}

\* One worker's clock runs one tick ahead of the other's.
MCSkew == (w1 :> 0) @@ (w2 :> 1)

NoSkew == [w \in MCWorkers |-> 0]
=============================================================================
