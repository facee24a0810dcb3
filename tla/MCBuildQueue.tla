---------------------------- MODULE MCBuildQueue ----------------------------
(***************************************************************************)
(* Instances of BuildQueue for TLC.                                        *)
(***************************************************************************)
EXTENDS BuildQueue, TLC

CONSTANTS w1, w2

MCWorkers == {w1, w2}

\* One worker's clock runs one tick ahead of the other's.
MCSkew == (w1 :> 0) @@ (w2 :> 1)

\* One worker serving several tasks.
OneWorker == {w1}
OneSkew == [w \in OneWorker |-> 0]

NoSkew == [w \in MCWorkers |-> 0]
=============================================================================
