--------------------------- MODULE MCOvsdbManager ---------------------------
(* Instances of OvsdbManager for TLC. *)
EXTENDS OvsdbManager

RequestSymmetry == Permutations(Requests \ BadRequests)
=============================================================================
