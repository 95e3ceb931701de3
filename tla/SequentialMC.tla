---------------------------- MODULE SequentialMC ----------------------------
(***************************************************************************)
(* Sequential for TLC: three types in the arena, one of them with an       *)
(* alignment above the least one.                                          *)
(***************************************************************************)
EXTENDS Sequential

Types == {"char", "pair", "wide"}
Sizes == [t \in Types |-> CASE t = "char" -> 1 [] t = "pair" -> 6 [] OTHER -> 8]
Alignments == [t \in Types |-> CASE t = "char" -> 1 [] t = "pair" -> 2 [] OTHER -> 8]
=============================================================================
