---------------------------- MODULE BoundedFifo ----------------------------
(***************************************************************************)
(* What every queue of the repository promises: a first-in first-out       *)
(* buffer of at most Capacity values.  An accepted value joins the tail in *)
(* one step and a consumer takes the value at the head in one step.  A     *)
(* refused call changes nothing, so refusals are stuttering steps here.    *)
(* taken[c] is the last value handed to consumer c.                        *)
(***************************************************************************)
EXTENDS Naturals, Sequences

CONSTANTS Consumer, Value, None, Capacity

VARIABLES queue, taken

vars == <<queue, taken>>

Init ==
  /\ queue = <<>>
  /\ taken = [c \in Consumer |-> None]

Enqueue(v) ==
  /\ Len(queue) < Capacity
  /\ queue' = Append(queue, v)
  /\ UNCHANGED taken

Dequeue(c) ==
  /\ queue # <<>>
  /\ queue' = Tail(queue)
  /\ taken' = [taken EXCEPT ![c] = Head(queue)]

Next ==
  \/ \E v \in Value : Enqueue(v)
  \/ \E c \in Consumer : Dequeue(c)

Spec == Init /\ [][Next]_vars
=============================================================================
