-------------------------- MODULE ThreadSafeQueue --------------------------
(***************************************************************************)
(* thread_safe_queue of c++_features_experiment/threadsafe_queue.cpp: an   *)
(* unbounded queue behind the mutex mut, on whose condition variable       *)
(* empty_check consumers wait.  What happens between the lock and the      *)
(* unlock of mut is one step.  The threads are those of main: each adds    *)
(* one element or removes one.                                             *)
(***************************************************************************)
EXTENDS Naturals, FiniteSets, Sequences

CONSTANTS
  Adder, Remover,
  Value, None

ThreadAssumption ==
  /\ IsFiniteSet(Adder) /\ IsFiniteSet(Remover)
  /\ Adder \cap Remover = {} /\ None \notin Value

VARIABLES safe_queue, pc, result

vars == <<safe_queue, pc, result>>

Init ==
  /\ safe_queue = <<>>
  /\ pc = [t \in Adder \cup Remover |-> "start"]
  /\ result = [r \in Remover |-> None]

Sleepers == {r \in Remover : pc[r] = "asleep"}

\* Faulty variant: the element is added without notifying anybody.
AddElemSilent(a) ==
  /\ pc[a] = "start"
  /\ \E v \in Value : safe_queue' = Append(safe_queue, v)
  /\ pc' = [pc EXCEPT ![a] = "finished"]
  /\ UNCHANGED result

\* add_elem: push and notify_one, both under the lock
AddElem(a) ==
  /\ pc[a] = "start"
  /\ \E v \in Value : safe_queue' = Append(safe_queue, v)
  /\ \/ Sleepers = {} /\ pc' = [pc EXCEPT ![a] = "finished"]
     \/ \E r \in Sleepers : pc' = [pc EXCEPT ![a] = "finished", ![r] = "start"]
  /\ UNCHANGED result

\* Faulty variant: the element is copied out and left in the queue.
PopKeeps(r) ==
  /\ pc[r] = "start"
  /\ \/ /\ safe_queue = <<>>
        /\ pc' = [pc EXCEPT ![r] = "asleep"]
        /\ UNCHANGED result
     \/ /\ safe_queue # <<>>
        /\ result' = [result EXCEPT ![r] = Head(safe_queue)]
        /\ pc' = [pc EXCEPT ![r] = "finished"]
  /\ UNCHANGED safe_queue

\* wait_and_pop: wait until there is an element, move it out, pop it
WaitAndPop(r) ==
  /\ pc[r] = "start"
  /\ \/ /\ safe_queue = <<>>
        /\ pc' = [pc EXCEPT ![r] = "asleep"]
        /\ UNCHANGED <<safe_queue, result>>
     \/ /\ safe_queue # <<>>
        /\ result' = [result EXCEPT ![r] = Head(safe_queue)]
        /\ safe_queue' = Tail(safe_queue)
        /\ pc' = [pc EXCEPT ![r] = "finished"]

\* The move constructor throws before the pop: the element stays in front, as it
\* was if T's move leaves its source alone when it throws.
PopThrows(r) ==
  /\ pc[r] = "start"
  /\ safe_queue # <<>>
  /\ pc' = [pc EXCEPT ![r] = "finished"]
  /\ UNCHANGED <<safe_queue, result>>

SpuriousWakeup(r) ==
  /\ pc[r] = "asleep"
  /\ pc' = [pc EXCEPT ![r] = "start"]
  /\ UNCHANGED <<safe_queue, result>>

Next ==
  \/ \E a \in Adder : AddElem(a)
  \/ \E r \in Remover : WaitAndPop(r) \/ PopThrows(r) \/ SpuriousWakeup(r)

\* Every thread of main runs; no spurious wake-up has to come.
Fairness ==
  /\ \A a \in Adder : WF_vars(AddElem(a))
  /\ \A r \in Remover : WF_vars(WaitAndPop(r))

Spec == Init /\ [][Next]_vars /\ Fairness

-----------------------------------------------------------------------------
Fifo == INSTANCE BoundedFifo WITH
  Consumer <- Remover,
  Capacity <- Cardinality(Adder),
  queue <- safe_queue,
  taken <- result

\* Elements come out in the order they went in, each to one consumer, and none is
\* lost when a move throws.
ImplementsFifo == Fifo!Init /\ [][Fifo!Next]_Fifo!vars

\* main joins them all: with as many removers as adders every thread finishes,
\* also when a remover that was woken throws and leaves its element.
EveryoneFinishes == <>(\A t \in Adder \cup Remover : pc[t] = "finished")
=============================================================================
