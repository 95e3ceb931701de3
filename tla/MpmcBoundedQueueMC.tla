------------------------- MODULE MpmcBoundedQueueMC -------------------------
(***************************************************************************)
(* MpmcBoundedQueue for TLC.  Producers, consumers and values are model    *)
(* values used alike everywhere, so they may be permuted.                  *)
(***************************************************************************)
EXTENDS MpmcBoundedQueue, TLC

Symmetry ==
  Permutations(Producer) \cup Permutations(Consumer) \cup Permutations(Value)
=============================================================================
