---------------------------- MODULE MCAutoSettle ----------------------------
(* Instances of AutoSettle for TLC. *)
EXTENDS AutoSettle, TLC

Symmetric == Permutations(Thread)
=============================================================================
