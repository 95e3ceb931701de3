----------------------------- MODULE LeakyStack -----------------------------
(***************************************************************************)
(* exception::stack and mem_leak::stack of stack_lockfree.cpp: pop never   *)
(* deletes the node it unlinks.  The two differ in what reading the value  *)
(* may do.  exception::stack copies the value into the caller's object and *)
(* CopyThrows says whether that copy may throw; mem_leak::stack copies a   *)
(* shared pointer, which does not throw.                                   *)
(***************************************************************************)
EXTENDS StackNodes

CONSTANT CopyThrows

CopyAssumption == CopyThrows \in BOOLEAN

vars == stackVars

Init == StackInit

\* old_head = head.load()
PopLoad(t) ==
  /\ pc[t] = "pop_load"
  /\ SeeHead(t, "pop_next", "idle")
  /\ UNCHANGED nodeVars

PopCall(t) ==
  /\ pc[t] = "idle"
  /\ res' = [res EXCEPT ![t] = None]
  /\ Goto(t, "pop_load")
  /\ UNCHANGED <<nodeVars, ptr, nxt>>

\* Faulty variant: the new old_head is not tested.
PopMissUntested(t) ==
  /\ pc[t] = "pop_cas"
  /\ ptr' = [ptr EXCEPT ![t] = head]
  /\ nxt' = [nxt EXCEPT ![t] = Null]
  /\ Goto(t, "pop_next")
  /\ UNCHANGED <<nodeVars, res>>

\* compare_exchange_weak may also fail although old_head is still the head.
PopMiss(t) ==
  /\ pc[t] = "pop_cas"
  /\ SeeHead(t, "pop_next", "idle")
  /\ UNCHANGED nodeVars

\* result = old_head->data, or return old_head->data
PopCopy(t) ==
  /\ pc[t] = "pop_copy"
  /\ \/ res' = [res EXCEPT ![t] = data[ptr[t]]]
     \/ CopyThrows /\ UNCHANGED res
  /\ Return(t)
  /\ UNCHANGED <<nodeVars, nxt>>

Pop(t) ==
  \/ PopLoad(t) \/ PopReadNext(t) \/ PopUnlink(t, "pop_copy")
  \/ PopMiss(t) \/ PopCopy(t)

\* A node is never freed, and only which node it is counts: one answer of the
\* allocator stands for all.
Push(t, v) == PushCall(t, v) /\ ptr'[t] = CHOOSE n \in Node \ alive : TRUE

Next ==
  \E t \in Thread :
    \/ \E v \in Value : Push(t, v)
    \/ PushCas(t) \/ PopCall(t) \/ Pop(t)

Spec == Init /\ [][Next]_vars

\* A thread inside a call keeps running, and its compare_exchange_weak, however
\* often it fails for no reason, does not always do so.
Fairness ==
  \A t \in Thread :
    /\ WF_vars(PushCas(t))
    /\ WF_vars(Pop(t))
    /\ SF_vars(PopUnlink(t, "pop_copy"))

FairSpec == Spec /\ Fairness

-----------------------------------------------------------------------------
(***************************************************************************)
(* Properties.                                                             *)
(***************************************************************************)

\* Types, and no thread is about to follow a null pointer.
TypeOK ==
  /\ StackTypeOK
  /\ pc \in [Thread -> {"idle", "push_cas", "pop_load", "pop_next", "pop_cas", "pop_copy"}]
  /\ \A t \in Thread : pc[t] \notin {"idle", "pop_load"} => ptr[t] # Null

Pushing(t) == pc[t] = "push_cas"
Unlinked(t) == pc[t] = "pop_copy"

\* The stack is a chain of allocated nodes that ends, the nodes being pushed and
\* those just unlinked are outside it, and no two threads hold the same one: a
\* value is neither popped twice nor linked back.
OwnNodes ==
  /\ Linked \subseteq alive
  /\ NoRepeats(Chain(head))
  /\ \A t \in Thread : Pushing(t) \/ Unlinked(t) => ptr[t] \in alive \ Linked
  /\ \A t, u \in Thread :
       t # u /\ (Pushing(t) \/ Unlinked(t)) /\ (Pushing(u) \/ Unlinked(u)) => ptr[t] # ptr[u]

\* Push takes effect when it exchanges the head, pop when it exchanges the head
\* or finds it null; the value is read later, from a node nobody else can reach.
Atomic == INSTANCE AtomicStack WITH
  stack <- Contents,
  taken <- [t \in Thread |-> IF Unlinked(t) THEN data[ptr[t]] ELSE res[t]]

\* Pushes and pops act in one order, last in first out, and pop reports an empty
\* stack only when it is empty.
ImplementsStack == Atomic!Spec

Returns == \E t \in Thread : pc[t] # "idle" /\ pc'[t] = "idle"

\* The stack is lock-free: unless all calls have returned, some call returns.
LockFree == []<>(\A t \in Thread : pc[t] = "idle") \/ []<><<Returns>>_vars
=============================================================================
