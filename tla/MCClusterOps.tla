---------------------------- MODULE MCClusterOps ----------------------------
(* Instances of ClusterOps for TLC. *)
EXTENDS ClusterOpsProperties, TLC

\* The replicas are interchangeable in the safety runs.
Symmetry == Permutations(Replicas)
=============================================================================
