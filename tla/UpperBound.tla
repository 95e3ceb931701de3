----------------------------- MODULE UpperBound -----------------------------
(***************************************************************************)
(* The search of c++_features_experiment/branchless_binary_search.cpp, as  *)
(* a program that does it again and again: "first elem > x" of a sorted    *)
(* array, without a branch in the loop.  One step is one round.            *)
(***************************************************************************)
EXTENDS Integers

CONSTANTS
  Number,
  MaxLength           \* bound: the longest array

UpperBoundAssumption == Number \subseteq Int /\ Number # {} /\ MaxLength \in Nat \ {0}

VARIABLES
  n, a, x,            \* the array a[0], ..., a[n - 1], and the number looked for
  i, len

vars == <<n, a, x, i, len>>

Sorted(m) == {s \in [0..(m - 1) -> Number] : \A p, q \in 0..(m - 1) : p < q => s[p] <= s[q]}

Init ==
  /\ n = 1
  /\ x = CHOOSE y \in Number : TRUE
  /\ a = [p \in {0} |-> x]
  /\ i = 0 /\ len = 1

\* The loop is over, and a[i] is written.
Done == len = 1

\* The array is read; the user's duty: it is sorted and not empty.
Call(m, array, number) ==
  /\ Done
  /\ n' = m /\ a' = array /\ x' = number
  /\ i' = 0 /\ len' = m

\* Faulty variant: it looks one element further.
RoundFurther ==
  /\ len > 1
  /\ LET mid == len \div 2
     IN  /\ i' = IF a[i + mid] <= x THEN i + mid ELSE i
         /\ len' = len - mid
  /\ UNCHANGED <<n, a, x>>

\* i += (a[i + mid - 1] <= x) * mid
Round ==
  /\ len > 1
  /\ LET mid == len \div 2
     IN  /\ i' = IF a[i + mid - 1] <= x THEN i + mid ELSE i
         /\ len' = len - mid
  /\ UNCHANGED <<n, a, x>>

Next ==
  \/ \E m \in 1..MaxLength : \E array \in Sorted(m), number \in Number : Call(m, array, number)
  \/ Round

Spec == Init /\ [][Next]_vars

-----------------------------------------------------------------------------
\* The elements before i are not greater than x; what is behind the rest is.
Bracket ==
  /\ i \in Nat /\ len \in Nat \ {0} /\ i + len <= n
  /\ \A p \in 0..(i - 1) : a[p] <= x
  /\ \A p \in (i + len)..(n - 1) : a[p] > x
  /\ i + len < n => a[i + len - 1] > x

\* The element written is the first that is greater than x, or the last one when
\* there is none.
Finds ==
  Done => /\ i \in 0..(n - 1)
          /\ \A p \in 0..(i - 1) : a[p] <= x
          /\ a[i] > x \/ i = n - 1
=============================================================================
