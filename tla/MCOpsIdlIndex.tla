---------------------------- MODULE MCOpsIdlIndex ----------------------------
(* Instances of OpsIdlIndex for TLC. *)
EXTENDS OpsIdlIndex, TLC

IndexSymmetry == Permutations(Uuids) \cup Permutations(Parents) \cup Permutations(Names)
=============================================================================
