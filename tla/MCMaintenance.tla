---------------------------- MODULE MCMaintenance ----------------------------
(* Instances of Maintenance for TLC. *)
EXTENDS Maintenance, TLC

Symmetry == Permutations(Parses)

\* One build and one fault through one sweep, one build through two sweeps that
\* may die, and two executions of one parse and one fault through one sweep.
MCScenarios ==
    {[running |-> Builds, sweeps |-> 1, faults |-> 1],
     [running |-> Builds, sweeps |-> 2, faults |-> 0],
     [running |-> Parses, sweeps |-> 1, faults |-> 1]}
=============================================================================
