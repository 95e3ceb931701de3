------------------------- MODULE LowContentionStack -------------------------
(***************************************************************************)
(* low_contention::stack of stack_lockfree.cpp: the threads inside pop are *)
(* counted, and a thread that finds itself alone deletes the node it       *)
(* unlinked together with the nodes that earlier threads had to leave in   *)
(* the list to_be_deleted.                                                 *)
(***************************************************************************)
EXTENDS StackNodes

VARIABLES
  threads_in_pop,
  to_be_deleted,
  first, last         \* per thread: the list it deletes or chains back

ASSUME StackAssumption == NodeAssumption /\ ValueAssumption /\ IsFiniteSet(Thread)

reclaimVars == <<threads_in_pop, to_be_deleted, first, last>>
vars == <<stackVars, reclaimVars>>

Init ==
  /\ StackInit
  /\ threads_in_pop = 0
  /\ to_be_deleted = Null
  /\ first = [t \in Thread |-> Null]
  /\ last = [t \in Thread |-> Null]

-----------------------------------------------------------------------------
(* std::shared_ptr<T> pop(T &result) *)

\* threads_in_pop++
PopCall(t) ==
  /\ pc[t] = "idle"
  /\ threads_in_pop' = threads_in_pop + 1
  /\ res' = [res EXCEPT ![t] = None]
  /\ Goto(t, "pop_load")
  /\ UNCHANGED <<nodeVars, ptr, nxt, to_be_deleted, first, last>>

PopLoad(t) ==
  /\ pc[t] = "pop_load"
  /\ SeeHead(t, "pop_next", "pop_leave")
  /\ UNCHANGED <<nodeVars, reclaimVars>>

PopMiss(t) ==
  /\ pc[t] = "pop_cas"
  /\ head # ptr[t]
  /\ SeeHead(t, "pop_next", "pop_leave")
  /\ UNCHANGED <<nodeVars, reclaimVars>>

\* res.swap(old_head->data)
PopTake(t) ==
  /\ pc[t] = "pop_take"
  /\ res' = [res EXCEPT ![t] = data[ptr[t]]]
  /\ data' = [data EXCEPT ![ptr[t]] = None]
  /\ Goto(t, "pop_count")
  /\ UNCHANGED <<head, next, alive, ptr, nxt, reclaimVars>>

-----------------------------------------------------------------------------
(* void try_reclaim(node *old_head) *)

\* Faulty variant: a thread that is not alone in pop also reclaims.
PopCountIgnored(t) ==
  /\ pc[t] = "pop_count"
  /\ Goto(t, "pop_exchange")
  /\ UNCHANGED <<nodeVars, ptr, nxt, res, threads_in_pop, to_be_deleted, first, last>>

\* Alone in pop: reclaim.  Otherwise chain old_head, as first and last of a
\* list of one, in front of to_be_deleted.
PopCount(t) ==
  /\ pc[t] = "pop_count"
  /\ \/ /\ threads_in_pop = 1
        /\ Goto(t, "pop_exchange")
        /\ UNCHANGED <<first, last>>
     \/ /\ threads_in_pop # 1
        /\ first' = [first EXCEPT ![t] = ptr[t]]
        /\ last' = [last EXCEPT ![t] = ptr[t]]
        /\ Goto(t, "chain_load")
  /\ UNCHANGED <<nodeVars, ptr, nxt, res, threads_in_pop, to_be_deleted>>

\* nodes_to_delete = to_be_deleted.exchange(nullptr)
PopExchange(t) ==
  /\ pc[t] = "pop_exchange"
  /\ first' = [first EXCEPT ![t] = to_be_deleted]
  /\ to_be_deleted' = Null
  /\ Goto(t, "pop_alone")
  /\ UNCHANGED <<nodeVars, ptr, nxt, res, threads_in_pop, last>>

\* Faulty variant: the list is not put back when a thread came in meanwhile.
PopAloneForgets(t) ==
  /\ pc[t] = "pop_alone"
  /\ threads_in_pop' = threads_in_pop - 1
  /\ Goto(t, IF threads_in_pop = 1 THEN "delete_nodes" ELSE "delete_own")
  /\ UNCHANGED <<nodeVars, ptr, nxt, res, to_be_deleted, first, last>>

\* --threads_in_pop == 0: still alone, delete the list.  Otherwise put it back:
\* chain_pending_nodes walks to its last node.
PopAlone(t) ==
  /\ pc[t] = "pop_alone"
  /\ threads_in_pop' = threads_in_pop - 1
  /\ \/ /\ threads_in_pop = 1
        /\ Goto(t, "delete_nodes")
        /\ UNCHANGED last
     \/ /\ threads_in_pop # 1
        /\ first[t] = Null
        /\ Goto(t, "delete_own")
        /\ UNCHANGED last
     \/ /\ threads_in_pop # 1
        /\ first[t] # Null
        /\ LET c == Chain(first[t]) IN last' = [last EXCEPT ![t] = c[Len(c)]]
        /\ Goto(t, "chain_load")
  /\ UNCHANGED <<nodeVars, ptr, nxt, res, to_be_deleted, first>>

\* One round of the loop of delete_nodes.
DeleteNodes(t) ==
  /\ pc[t] = "delete_nodes"
  /\ \/ /\ first[t] # Null
        /\ Delete(first[t])
        /\ first' = [first EXCEPT ![t] = next[first[t]]]
        /\ UNCHANGED pc
     \/ /\ first[t] = Null
        /\ Goto(t, "delete_own")
        /\ UNCHANGED <<next, data, alive, first>>
  /\ UNCHANGED <<head, ptr, nxt, res, threads_in_pop, to_be_deleted, last>>

\* last->next = to_be_deleted
ChainLoad(t) ==
  /\ pc[t] = "chain_load"
  /\ next' = [next EXCEPT ![last[t]] = to_be_deleted]
  /\ Goto(t, "chain_cas")
  /\ UNCHANGED <<head, data, alive, ptr, nxt, res, reclaimVars>>

\* The list is now in front of to_be_deleted, or last->next is reloaded.
\* After chaining old_head itself the thread only has to leave.
ChainCas(t) ==
  /\ pc[t] = "chain_cas"
  /\ \/ /\ to_be_deleted = next[last[t]]
        /\ to_be_deleted' = first[t]
        /\ Goto(t, IF first[t] = ptr[t] THEN "pop_leave" ELSE "delete_own")
        /\ first' = [first EXCEPT ![t] = Null]
        /\ last' = [last EXCEPT ![t] = Null]
        /\ UNCHANGED next
     \/ /\ to_be_deleted # next[last[t]]
        /\ next' = [next EXCEPT ![last[t]] = to_be_deleted]
        /\ UNCHANGED <<to_be_deleted, pc, first, last>>
  /\ UNCHANGED <<head, data, alive, ptr, nxt, res, threads_in_pop>>

\* delete old_head
DeleteOwn(t) ==
  /\ pc[t] = "delete_own"
  /\ Delete(ptr[t])
  /\ Return(t)
  /\ UNCHANGED <<head, nxt, res, reclaimVars>>

\* --threads_in_pop
PopLeave(t) ==
  /\ pc[t] = "pop_leave"
  /\ threads_in_pop' = threads_in_pop - 1
  /\ Return(t)
  /\ UNCHANGED <<nodeVars, nxt, res, to_be_deleted, first, last>>

-----------------------------------------------------------------------------
Push(t) == PushCas(t) /\ UNCHANGED reclaimVars

Unlink(t) == PopUnlink(t, "pop_take") /\ UNCHANGED reclaimVars

Pop(t) ==
  \/ PopLoad(t) \/ Unlink(t) \/ PopMiss(t) \/ PopTake(t)
  \/ PopReadNext(t) /\ UNCHANGED reclaimVars

TryReclaim(t) ==
  \/ PopCount(t) \/ PopExchange(t) \/ PopAlone(t) \/ DeleteNodes(t)
  \/ ChainLoad(t) \/ ChainCas(t) \/ DeleteOwn(t) \/ PopLeave(t)

Next ==
  \E t \in Thread :
    \/ \E v \in Value : PushCall(t, v) /\ UNCHANGED reclaimVars
    \/ Push(t) \/ PopCall(t) \/ Pop(t) \/ TryReclaim(t)

Spec == Init /\ [][Next]_vars

\* A thread inside a call keeps running.
FairSpec == Spec /\ \A t \in Thread : WF_vars(Push(t) \/ Pop(t) \/ TryReclaim(t))

-----------------------------------------------------------------------------
(***************************************************************************)
(* Properties.                                                             *)
(***************************************************************************)

Popping(t) == pc[t] \in {"pop_next", "pop_cas"}

\* old_head has been unlinked by this thread and not been given away.
HoldsOwn(t) ==
  \/ pc[t] \in {"pop_take", "pop_count", "pop_exchange", "pop_alone",
                "delete_nodes", "delete_own"}
  \/ pc[t] \in {"chain_load", "chain_cas"} /\ first[t] # ptr[t]

\* The nodes of the list that the thread took from to_be_deleted or, when it
\* could not reclaim, the node that it is about to put there.
HeldList(t) ==
  CASE pc[t] \in {"pop_alone", "delete_nodes"} -> Chain(first[t])
    [] pc[t] \in {"chain_load", "chain_cas"} ->
         LET c == Chain(first[t]) IN
         SubSeq(c, 1, CHOOSE j \in DOMAIN c :
                        c[j] = last[t] /\ \A i \in 1..(j - 1) : c[i] # last[t])
    [] OTHER -> <<>>

\* Types, and no thread is about to follow a null pointer.
TypeOK ==
  /\ StackTypeOK
  /\ pc \in [Thread -> {"idle", "push_cas", "pop_load", "pop_next", "pop_cas", "pop_take",
                        "pop_count", "pop_exchange", "pop_alone", "delete_nodes",
                        "chain_load", "chain_cas", "delete_own", "pop_leave"}]
  /\ threads_in_pop \in 0..Cardinality(Thread)
  /\ to_be_deleted \in Pointer
  /\ first \in [Thread -> Pointer]
  /\ last \in [Thread -> Pointer]
  /\ \A t \in Thread : Popping(t) \/ HoldsOwn(t) \/ pc[t] = "push_cas" => ptr[t] # Null

\* No thread in pop follows a pointer to a node that has been deleted: this is
\* what threads_in_pop is for.
NoUseAfterFree ==
  \A t \in Thread : pc[t] = "pop_next" => ptr[t] \in alive

\* Every allocated node is in exactly one place: the stack, to_be_deleted, a
\* push under way, a pop that has unlinked it, or the list a pop has taken from
\* to_be_deleted.  So none leaks, none is deleted twice, none comes back.
EachNodeOnce ==
  EachOnce(Chain(head) \o Chain(to_be_deleted),
           [t \in Thread |-> (IF HoldsOwn(t) \/ pc[t] = "push_cas" THEN <<ptr[t]>> ELSE <<>>)
                            \o HeldList(t)])

\* Pop takes effect when it exchanges the head or finds it null.
Atomic == INSTANCE AtomicStack WITH
  stack <- Contents,
  taken <- [t \in Thread |-> IF pc[t] = "pop_take" THEN data[ptr[t]] ELSE res[t]]

\* Although freed addresses are used again, pushes and pops act in one order,
\* last in first out: no exchange succeeds on a head that changed and came back.
ImplementsStack == Atomic!Spec
=============================================================================
