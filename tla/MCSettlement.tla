---------------------------- MODULE MCSettlement ----------------------------
(* Instances of VDCSettlement for TLC. *)
EXTENDS VDCSettlement, TLC

Symmetric == Permutations(Exchange) \cup Permutations(Account \ {Arbitrator})
=============================================================================
