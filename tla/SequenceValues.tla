--------------------------- MODULE SequenceValues ---------------------------
(***************************************************************************)
(* What a vector promises, memory apart: each of some variables is a       *)
(* sequence, or Dead while no vector lives in it, and every call either    *)
(* does the following or, when it throws, nothing.                         *)
(***************************************************************************)
EXTENDS Naturals, Sequences

CONSTANTS Vec, Value, Dead

VARIABLE contents

Alive == {v \in Vec : contents[v] # Dead}

Set(v, s) == contents' = [contents EXCEPT ![v] = s]

Init == contents = [v \in Vec |-> Dead]

\* Some number of equal elements, or none.
Construct(v) ==
  /\ v \notin Alive
  /\ \E x \in Value : contents'[v] \in Seq({x})
  /\ contents' = [contents EXCEPT ![v] = contents'[v]]

Copy(v, w) == Set(v, contents[w])

\* The new vector takes all; the old one is left empty.
MoveConstruct(v, w) ==
  /\ v \notin Alive
  /\ contents' = [contents EXCEPT ![v] = contents[w], ![w] = <<>>]

MoveAssign(v, w) ==
  /\ v \in Alive
  /\ contents' = [contents EXCEPT ![v] = contents[w], ![w] = contents[v]]

Mutate(v) ==
  \/ \E x \in Value : Set(v, Append(contents[v], x))
  \/ contents[v] # <<>> /\ Set(v, SubSeq(contents[v], 1, Len(contents[v]) - 1))
  \/ \E i \in DOMAIN contents[v], x \in Value : Set(v, [contents[v] EXCEPT ![i] = x])
  \/ Set(v, <<>>)
  \/ Set(v, Dead)

Next ==
  \E v \in Vec :
    \/ Construct(v)
    \/ v \in Alive /\ Mutate(v)
    \/ \E w \in Alive \ {v} : Copy(v, w) \/ MoveConstruct(v, w) \/ MoveAssign(v, w)

Spec == Init /\ [][Next]_contents
=============================================================================
