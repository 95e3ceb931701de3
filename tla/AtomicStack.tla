---------------------------- MODULE AtomicStack ----------------------------
(***************************************************************************)
(* What every lock-free stack of the repository promises: push and pop     *)
(* take effect in one step each.  taken[t] is what the last pop of thread  *)
(* t found: a value, Empty, or None while it has found nothing yet.        *)
(***************************************************************************)
EXTENDS Sequences

CONSTANTS Thread, Value, None, Empty

VARIABLES stack, taken

vars == <<stack, taken>>

Init ==
  /\ stack = <<>>
  /\ taken = [t \in Thread |-> None]

Push(v) ==
  /\ stack' = <<v>> \o stack
  /\ UNCHANGED taken

PopCall(t) ==
  /\ taken' = [taken EXCEPT ![t] = None]
  /\ UNCHANGED stack

Pop(t) ==
  /\ taken[t] = None
  /\ stack # <<>>
  /\ stack' = Tail(stack)
  /\ taken' = [taken EXCEPT ![t] = Head(stack)]

PopEmpty(t) ==
  /\ taken[t] = None
  /\ stack = <<>>
  /\ taken' = [taken EXCEPT ![t] = Empty]
  /\ UNCHANGED stack

Next ==
  \/ \E v \in Value : Push(v)
  \/ \E t \in Thread : PopCall(t) \/ Pop(t) \/ PopEmpty(t)

Spec == Init /\ [][Next]_vars
=============================================================================
