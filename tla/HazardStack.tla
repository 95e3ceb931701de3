---------------------------- MODULE HazardStack ----------------------------
(***************************************************************************)
(* hazard_ptr::stack of stack_lockfree.cpp: before a thread follows        *)
(* old_head it announces it in its slot of hazard_pointers, and a node is  *)
(* deleted only after a scan of the slots has not found it.                *)
(*                                                                         *)
(* Modelled more coarsely than the code: the list nodes_to_reclaim is a    *)
(* sequence and add_to_reclaim_list one step.  Its loop only ever puts a   *)
(* private element in front of whatever the list is at the exchange.       *)
(***************************************************************************)
EXTENDS StackNodes

CONSTANTS
  MaxPtr,             \* MAX_PTR, the number of slots
  NoThread,           \* std::thread::id(), which no thread has
  MaxEnding           \* how many threads may pop when threads may end

ASSUME StackAssumption == NodeAssumption /\ ValueAssumption /\ IsFiniteSet(Thread)

ASSUME SlotAssumption == MaxPtr \in Nat \ {0}

ASSUME ThreadAssumption == NoThread \notin Thread /\ MaxEnding \in Nat

Slot == 1..MaxPtr

VARIABLES
  id, pointer,        \* hazard_pointers[i].id and .pointer
  nodes_to_reclaim,
  hp,                 \* per thread: its slot, 0 before it has one
  i,                  \* per thread: the index of the loop over the slots
  list,               \* per thread: what it took from nodes_to_reclaim
  popping,            \* the threads that ever call pop
  ending              \* do threads end?

\* What the program does with the stack, chosen once.
workload == <<popping, ending>>
slotVars == <<id, pointer, nodes_to_reclaim, hp, i, list>>
hazardVars == <<slotVars, workload>>
vars == <<stackVars, hazardVars>>

Init ==
  /\ StackInit
  /\ id = [s \in Slot |-> NoThread]
  /\ pointer = [s \in Slot |-> Null]
  /\ nodes_to_reclaim = <<>>
  /\ hp = [t \in Thread |-> 0]
  /\ i = [t \in Thread |-> 0]
  /\ list = [t \in Thread |-> <<>>]
  /\ popping \in SUBSET Thread
  /\ ending \in BOOLEAN
  /\ ending => Cardinality(popping) <= MaxEnding

\* Start a loop over the slots, or end it.
Scan(t, label) == Goto(t, label) /\ i' = [i EXCEPT ![t] = 1]
Leave(t, label) == Goto(t, label) /\ i' = [i EXCEPT ![t] = 0]

-----------------------------------------------------------------------------
(* std::shared_ptr<T> pop() *)

\* get_hazard_pointer_for_this_thread: the first call constructs an hp_owner.
PopCall(t) ==
  /\ pc[t] = "idle"
  /\ t \in popping
  /\ res' = [res EXCEPT ![t] = None]
  /\ \/ hp[t] = 0 /\ Scan(t, "hp_owner")
     \/ hp[t] # 0 /\ Goto(t, "pop_load") /\ UNCHANGED i
  /\ UNCHANGED <<nodeVars, ptr, nxt, id, pointer, nodes_to_reclaim, hp, list, workload>>

\* Faulty variant: the slot is stored into without comparing its id.
HpOwnerBlind(t) ==
  /\ pc[t] = "hp_owner"
  /\ id' = [id EXCEPT ![i[t]] = t]
  /\ hp' = [hp EXCEPT ![t] = i[t]]
  /\ Leave(t, "pop_load")
  /\ UNCHANGED <<nodeVars, ptr, nxt, res, pointer, nodes_to_reclaim, list, workload>>

\* Try slot i[t]; after the last one hp_owner throws, and so does pop.
HpOwner(t) ==
  /\ pc[t] = "hp_owner"
  /\ \/ /\ id[i[t]] = NoThread
        /\ id' = [id EXCEPT ![i[t]] = t]
        /\ hp' = [hp EXCEPT ![t] = i[t]]
        /\ Leave(t, "pop_load")
     \/ /\ id[i[t]] # NoThread
        /\ i[t] < MaxPtr
        /\ i' = [i EXCEPT ![t] = i[t] + 1]
        /\ UNCHANGED <<id, hp, pc>>
     \/ /\ id[i[t]] # NoThread
        /\ i[t] = MaxPtr
        /\ Leave(t, "idle")
        /\ UNCHANGED <<id, hp>>
  /\ UNCHANGED <<nodeVars, ptr, nxt, res, pointer, nodes_to_reclaim, list, workload>>

PopLoad(t) ==
  /\ pc[t] = "pop_load"
  /\ ptr' = [ptr EXCEPT ![t] = head]
  /\ Goto(t, "hp_store")
  /\ UNCHANGED <<nodeVars, nxt, res, hazardVars>>

\* tmp = old_head; hp.store(tmp)
HpStore(t) ==
  /\ pc[t] = "hp_store"
  /\ pointer' = [pointer EXCEPT ![hp[t]] = ptr[t]]
  /\ Goto(t, "hp_validate")
  /\ UNCHANGED <<nodeVars, ptr, nxt, res, id, nodes_to_reclaim, hp, i, list, workload>>

\* Faulty variant: the head is not loaded again after the store.
HpValidateSkipped(t) ==
  /\ pc[t] = "hp_validate"
  /\ \/ /\ ptr[t] = Null
        /\ res' = [res EXCEPT ![t] = Empty]
        /\ Goto(t, "hp_clear")
     \/ /\ ptr[t] # Null
        /\ Goto(t, "pop_next")
        /\ UNCHANGED res
  /\ UNCHANGED <<nodeVars, ptr, nxt, hazardVars>>

\* old_head = head.load(): announce again if it has changed.
HpValidate(t) ==
  /\ pc[t] = "hp_validate"
  /\ \/ /\ head # ptr[t]
        /\ ptr' = [ptr EXCEPT ![t] = head]
        /\ Goto(t, "hp_store")
        /\ UNCHANGED <<nxt, res>>
     \/ /\ head = ptr[t]
        /\ SeeHead(t, "pop_next", "hp_clear")
  /\ UNCHANGED <<nodeVars, hazardVars>>

\* The exchange failed: the new old_head, null or not, is announced next.
PopMiss(t) ==
  /\ pc[t] = "pop_cas"
  /\ head # ptr[t]
  /\ ptr' = [ptr EXCEPT ![t] = head]
  /\ nxt' = [nxt EXCEPT ![t] = Null]
  /\ Goto(t, "hp_store")
  /\ UNCHANGED <<nodeVars, res, hazardVars>>

\* hp.store(nullptr)
HpClear(t) ==
  /\ pc[t] = "hp_clear"
  /\ pointer' = [pointer EXCEPT ![hp[t]] = Null]
  /\ Goto(t, IF ptr[t] = Null THEN "idle" ELSE "pop_take")
  /\ UNCHANGED <<nodeVars, ptr, nxt, res, id, nodes_to_reclaim, hp, i, list, workload>>

\* res.swap(old_head->data)
PopTake(t) ==
  /\ pc[t] = "pop_take"
  /\ res' = [res EXCEPT ![t] = data[ptr[t]]]
  /\ data' = [data EXCEPT ![ptr[t]] = None]
  /\ Scan(t, "scan_own")
  /\ UNCHANGED <<head, next, alive, ptr, nxt, id, pointer, nodes_to_reclaim, hp, list, workload>>

-----------------------------------------------------------------------------
(* outstanding_hazard_pointers_for, reclaim_later and                      *)
(* delete_nodes_with_no_hazard                                             *)

\* Faulty variant: the scan stops before the last slot.
OutstandingShort(t, n, onFound, onAbsent) ==
  /\ \/ /\ i[t] < MaxPtr /\ pointer[i[t]] = n
        /\ Leave(t, onFound)
     \/ /\ i[t] < MaxPtr /\ pointer[i[t]] # n
        /\ i' = [i EXCEPT ![t] = i[t] + 1]
        /\ UNCHANGED pc
     \/ /\ i[t] = MaxPtr
        /\ Leave(t, onAbsent)

\* One round of the loop that looks for n.
Outstanding(t, n, onFound, onAbsent) ==
  /\ \/ /\ pointer[i[t]] = n
        /\ Leave(t, onFound)
     \/ /\ pointer[i[t]] # n /\ i[t] < MaxPtr
        /\ i' = [i EXCEPT ![t] = i[t] + 1]
        /\ UNCHANGED pc
     \/ /\ pointer[i[t]] # n /\ i[t] = MaxPtr
        /\ Leave(t, onAbsent)

ScanOwn(t) ==
  /\ pc[t] = "scan_own"
  /\ Outstanding(t, ptr[t], "reclaim_later", "delete_own")
  /\ UNCHANGED <<nodeVars, ptr, nxt, res, id, pointer, nodes_to_reclaim, hp, list, workload>>

ReclaimLater(t) ==
  /\ pc[t] = "reclaim_later"
  /\ nodes_to_reclaim' = <<ptr[t]>> \o nodes_to_reclaim
  /\ ptr' = [ptr EXCEPT ![t] = Null]
  /\ Goto(t, "exchange")
  /\ UNCHANGED <<nodeVars, nxt, res, id, pointer, hp, i, list, workload>>

\* delete old_head
DeleteOwn(t) ==
  /\ pc[t] = "delete_own"
  /\ Delete(ptr[t])
  /\ ptr' = [ptr EXCEPT ![t] = Null]
  /\ Goto(t, "exchange")
  /\ UNCHANGED <<head, nxt, res, hazardVars>>

\* Go on with the nodes that are left in s, or return.
Sweep(t, s) ==
  /\ list' = [list EXCEPT ![t] = s]
  /\ IF s = <<>> THEN Leave(t, "idle") ELSE Scan(t, "scan_list")

\* current = nodes_to_reclaim.exchange(nullptr)
Exchange(t) ==
  /\ pc[t] = "exchange"
  /\ nodes_to_reclaim' = <<>>
  /\ Sweep(t, nodes_to_reclaim)
  /\ UNCHANGED <<nodeVars, ptr, nxt, res, id, pointer, hp, workload>>

ScanList(t) ==
  /\ pc[t] = "scan_list"
  /\ Outstanding(t, Head(list[t]), "keep_node", "delete_node")
  /\ UNCHANGED <<nodeVars, ptr, nxt, res, id, pointer, nodes_to_reclaim, hp, list, workload>>

\* delete current, whose destructor deletes the node
DeleteNode(t) ==
  /\ pc[t] = "delete_node"
  /\ Delete(Head(list[t]))
  /\ Sweep(t, Tail(list[t]))
  /\ UNCHANGED <<head, ptr, nxt, res, id, pointer, nodes_to_reclaim, hp, workload>>

\* Faulty variant: the node is dropped and not put back.
KeepNodeForgotten(t) ==
  /\ pc[t] = "keep_node"
  /\ Sweep(t, Tail(list[t]))
  /\ UNCHANGED <<nodeVars, ptr, nxt, res, id, pointer, nodes_to_reclaim, hp, workload>>

\* add_to_reclaim_list(current)
KeepNode(t) ==
  /\ pc[t] = "keep_node"
  /\ nodes_to_reclaim' = <<Head(list[t])>> \o nodes_to_reclaim
  /\ Sweep(t, Tail(list[t]))
  /\ UNCHANGED <<nodeVars, ptr, nxt, res, id, pointer, hp, workload>>

-----------------------------------------------------------------------------
(* ~hp_owner, when the thread ends *)

\* hp->id = std::thread::id()
ExitId(t) ==
  /\ ending
  /\ pc[t] = "idle"
  /\ hp[t] # 0
  /\ id' = [id EXCEPT ![hp[t]] = NoThread]
  /\ Goto(t, "exit")
  /\ UNCHANGED <<nodeVars, ptr, nxt, res, pointer, nodes_to_reclaim, hp, i, list, workload>>

\* hp->pointer = nullptr
ExitPointer(t) ==
  /\ pc[t] = "exit"
  /\ pointer' = [pointer EXCEPT ![hp[t]] = Null]
  /\ hp' = [hp EXCEPT ![t] = 0]
  /\ Goto(t, "exited")
  /\ UNCHANGED <<nodeVars, ptr, nxt, res, id, nodes_to_reclaim, i, list, workload>>

-----------------------------------------------------------------------------
Pop(t) ==
  \/ HpOwner(t) \/ PopLoad(t) \/ HpStore(t) \/ HpValidate(t) \/ PopMiss(t)
  \/ PopReadNext(t) /\ UNCHANGED hazardVars
  \/ PopUnlink(t, "hp_clear") /\ UNCHANGED hazardVars
  \/ HpClear(t) \/ PopTake(t)

Reclaim(t) ==
  \/ ScanOwn(t) \/ ReclaimLater(t) \/ DeleteOwn(t)
  \/ Exchange(t) \/ ScanList(t) \/ DeleteNode(t) \/ KeepNode(t)

Exit(t) == ExitId(t) \/ ExitPointer(t)

Next ==
  \E t \in Thread :
    \/ \E v \in Value : PushCall(t, v) /\ UNCHANGED hazardVars
    \/ PushCas(t) /\ UNCHANGED hazardVars
    \/ PopCall(t) \/ Pop(t) \/ Reclaim(t) \/ Exit(t)

Spec == Init /\ [][Next]_vars

-----------------------------------------------------------------------------
(***************************************************************************)
(* Properties.                                                             *)
(***************************************************************************)

\* old_head has been unlinked by this thread and not been given away.
HoldsOwn(t) ==
  \/ pc[t] = "hp_clear" /\ ptr[t] # Null
  \/ pc[t] \in {"pop_take", "scan_own", "reclaim_later", "delete_own"}

\* Types; no thread is about to follow a null pointer; and each thread has a
\* slot of its own.
TypeOK ==
  /\ StackTypeOK
  /\ pc \in [Thread -> {"idle", "push_cas", "hp_owner", "pop_load", "hp_store", "hp_validate",
                        "pop_next", "pop_cas", "hp_clear", "pop_take", "scan_own",
                        "reclaim_later", "delete_own", "exchange", "scan_list",
                        "delete_node", "keep_node", "exit", "exited"}]
  /\ id \in [Slot -> Thread \cup {NoThread}]
  /\ pointer \in [Slot -> Pointer]
  /\ hp \in [Thread -> 0..MaxPtr]
  /\ i \in [Thread -> 0..MaxPtr]
  /\ \A t \in Thread : pc[t] \in {"push_cas", "pop_next", "pop_cas", "pop_take"} => ptr[t] # Null
  /\ \A t \in Thread : hp[t] # 0 /\ pc[t] # "exit" => id[hp[t]] = t

\* No thread in pop follows a pointer to a node that has been deleted.
NoUseAfterFree ==
  \A t \in Thread : pc[t] = "pop_next" => ptr[t] \in alive

\* Every allocated node is in exactly one place: the stack, nodes_to_reclaim, a
\* push under way, a pop that has unlinked it, or the list a pop is sweeping.
EachNodeOnce ==
  EachOnce(Chain(head) \o nodes_to_reclaim,
           [t \in Thread |-> (IF HoldsOwn(t) \/ pc[t] = "push_cas" THEN <<ptr[t]>> ELSE <<>>)
                            \o list[t]])

\* Pop takes effect when it exchanges the head or sees it null after announcing.
Atomic == INSTANCE AtomicStack WITH
  stack <- Contents,
  taken <- [t \in Thread |-> IF pc[t] \in {"hp_clear", "pop_take"} /\ ptr[t] # Null
                             THEN data[ptr[t]] ELSE res[t]]

\* Although freed addresses are used again, pushes and pops act in one order,
\* last in first out: no exchange succeeds on a head that changed and came back.
ImplementsStack == Atomic!Spec
\* "1. no other thread currently sees this expired ptr (outstanding check)":
\* when old_head is deleted no other thread is about to follow it.
DeletedUnseen ==
  [][\A t, u \in Thread :
       t # u /\ pc[t] = "delete_own" /\ pc'[t] # pc[t] =>
         ~(pc[u] = "pop_next" /\ ptr[u] = ptr[t])]_vars
=============================================================================
