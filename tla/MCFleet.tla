------------------------------ MODULE MCFleet ------------------------------
(* Instances of Fleet for TLC. *)
EXTENDS FleetProperties, TLC

\* Replicas, and names, are interchangeable in the safety runs.
Symmetry == Permutations(Replicas) \cup Permutations(Names)
=============================================================================
