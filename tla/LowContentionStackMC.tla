------------------------ MODULE LowContentionStackMC ------------------------
(***************************************************************************)
(* LowContentionStack for TLC: threads, addresses and values may be        *)
(* permuted.                                                               *)
(***************************************************************************)
EXTENDS LowContentionStack, TLC

Symmetry == Permutations(Thread) \cup Permutations(Node) \cup Permutations(Value)
=============================================================================
