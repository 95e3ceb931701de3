--------------------------- MODULE HazardStackMC ---------------------------
(***************************************************************************)
(* HazardStack for TLC: threads, addresses and values may be permuted.     *)
(***************************************************************************)
EXTENDS HazardStack, TLC

Symmetry == Permutations(Thread) \cup Permutations(Node) \cup Permutations(Value)
=============================================================================
