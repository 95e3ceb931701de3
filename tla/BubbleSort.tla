----------------------------- MODULE BubbleSort -----------------------------
(***************************************************************************)
(* inbubsort<Top, 0> of c++_features_experiment/template_metaprogramming.cpp*)
(* as a program that calls it again and again.  One step is one instance   *)
(* of the template.  It compares data[j] with data[j + 1] for every        *)
(* j < Top, so that it sorts the Top + 1 elements from 0 to Top.           *)
(***************************************************************************)
EXTENDS Integers

CONSTANTS
  Top,                \* the first template argument of the call
  Number              \* the numbers that are sorted

BubbleAssumption == Top \in Nat /\ Number \subseteq Int /\ Number # {}

Index == 0..Top

VARIABLES
  data,
  i, j,               \* the template arguments
  given               \* auxiliary: what data was at the call

vars == <<data, i, j, given>>

\* No call yet: the arguments are those of the empty specialisation.
Init ==
  /\ i = 0 /\ j = 0
  /\ data = [p \in Index |-> CHOOSE x \in Number : TRUE]
  /\ given = data

Done == i = 0 /\ j = 0

Call(array) ==
  /\ Done
  /\ data' = array
  /\ given' = array
  /\ i' = Top /\ j' = 0

\* Faulty variant: the largest is dropped when it is left behind.
StepCopies ==
  /\ j < i
  /\ data' = [data EXCEPT ![j + 1] = IF data[j] > @ THEN data[j] ELSE @]
  /\ j' = j + 1
  /\ UNCHANGED <<i, given>>

\* if constexpr (j < i): compare, swap, go on with <i, j + 1>.
Step ==
  /\ j < i
  /\ data' = IF data[j] > data[j + 1]
             THEN [data EXCEPT ![j] = data[j + 1], ![j + 1] = data[j]]
             ELSE data
  /\ j' = j + 1
  /\ UNCHANGED <<i, given>>

\* else: go on with <i - 1, 0>.
NextPass ==
  /\ j = i /\ i > 0
  /\ i' = i - 1 /\ j' = 0
  /\ UNCHANGED <<data, given>>

Next == (\E array \in [Index -> Number] : Call(array)) \/ Step \/ NextPass

Spec == Init /\ [][Next]_vars

-----------------------------------------------------------------------------
Permutations == {f \in [Index -> Index] : \A p, q \in Index : f[p] = f[q] => p = q}

\* data has the elements it was given.
SameElements == \E f \in Permutations : \A p \in Index : data[p] = given[f[p]]

\* What lies above i is sorted and not less than the rest, and within the pass
\* data[j] is the largest so far.
Sorting ==
  /\ \A p, q \in Index : p < q /\ i < q => data[p] <= data[q]
  /\ \A p \in 0..j : data[p] <= data[j]

\* The call returns the elements it was given, in order.
Sorts == /\ Done => \A p, q \in Index : p < q => data[p] <= data[q]
         /\ SameElements
=============================================================================
