---------------------------- MODULE PackageSources ----------------------------
(* The builtin package sources, in the order they are asked (sources.py).   *)
EXTENDS Integers, Sequences

CONSTANT SourceOrder  \* SOURCE_ORDER, a sequence without repetition

SourceIndexes == 1 .. Len(SourceOrder)
Sources == {SourceOrder[s] : s \in SourceIndexes}

ASSUME SourcesAssumption ==
    /\ Len(SourceOrder) \in Nat \ {0}
    /\ \A s, t \in SourceIndexes : SourceOrder[s] = SourceOrder[t] => s = t
=============================================================================
