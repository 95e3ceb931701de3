-------------------------- MODULE HazardStack_proofs --------------------------
(***************************************************************************)
(* Proofs about hazard_ptr::stack.                                         *)
(*                                                                         *)
(* Types and the ownership of slots hold always.  That no node is deleted  *)
(* under a thread that follows it, and all that depends on it, holds while *)
(* at most two of the threads that may end ever pop: ~hp_owner gives its   *)
(* slot up before it clears the pointer in it, so it may clear what the    *)
(* slot's next owner has announced.  With two threads that harms nobody,   *)
(* because the one that ends deletes no more nodes; DeletedUnseen fails    *)
(* with three.                                                             *)
(***************************************************************************)
EXTENDS HazardStack, Lemmas, TLAPS

-----------------------------------------------------------------------------
(* Types and slots. *)

\* The labels at which a thread has a slot and means to use it.
InPop == {"pop_load", "hp_store", "hp_validate", "pop_next", "pop_cas", "hp_clear"}

\* The labels at which a thread sweeps a list.
InSweep == {"scan_list", "delete_node", "keep_node"}

\* What thread t's variables may be.
ThreadTypes(t) ==
  /\ pc[t] \in {"hp_owner", "scan_own", "scan_list"} => i[t] \in Slot
  /\ pc[t] \in InPop \cup {"exit"} => hp[t] # 0
  /\ pc[t] \in {"hp_owner", "exited"} => hp[t] = 0
  /\ hp[t] # 0 /\ pc[t] # "exit" => id[hp[t]] = t
  /\ pc[t] \in {"push_cas", "pop_next", "pop_cas", "pop_take", "scan_own", "reclaim_later",
                "delete_own"} => ptr[t] \in Node
  /\ list[t] # <<>> <=> pc[t] \in InSweep
  /\ pc[t] \notin {"idle", "push_cas"} \/ hp[t] # 0 => t \in popping
  /\ pc[t] \in {"exit", "exited"} => ending

VarTypes ==
  /\ head \in Node \cup {Null}
  /\ next \in [Node -> Node \cup {Null}]
  /\ data \in [Node -> Value \cup {None}]
  /\ alive \in SUBSET Node
  /\ ptr \in [Thread -> Node \cup {Null}]
  /\ nxt \in [Thread -> Node \cup {Null}]
  /\ res \in [Thread -> Value \cup {None, Empty}]
  /\ pc \in [Thread -> {"idle", "push_cas", "hp_owner", "pop_load", "hp_store", "hp_validate",
                        "pop_next", "pop_cas", "hp_clear", "pop_take", "scan_own",
                        "reclaim_later", "delete_own", "exchange", "scan_list",
                        "delete_node", "keep_node", "exit", "exited"}]
  /\ id \in [Slot -> Thread \cup {NoThread}]
  /\ pointer \in [Slot -> Node \cup {Null}]
  /\ nodes_to_reclaim \in Seq(Node)
  /\ hp \in [Thread -> 0..MaxPtr]
  /\ i \in [Thread -> 0..MaxPtr]
  /\ list \in [Thread -> Seq(Node)]
  /\ popping \in SUBSET Thread
  /\ ending \in BOOLEAN

Types == VarTypes /\ \A t \in Thread : ThreadTypes(t)

\* The other threads' variables do not change.
Others(t) ==
  \A u \in Thread : u # t =>
    /\ pc'[u] = pc[u] /\ ptr'[u] = ptr[u] /\ nxt'[u] = nxt[u] /\ res'[u] = res[u]
    /\ hp'[u] = hp[u] /\ i'[u] = i[u] /\ list'[u] = list[u]

\* Null is no node, NoThread no thread, 0 no slot; there are finitely many nodes and threads.
LEMMA Finite ==
  /\ Null \notin Node /\ IsFiniteSet(Node) /\ IsFiniteSet(Thread)
  /\ NoThread \notin Thread /\ MaxPtr \in Nat \ {0} /\ Slot = 1..MaxPtr
BY StackAssumption, SlotAssumption, ThreadAssumption DEF NodeAssumption, Slot

\* Two threads that are not on their way out do not share a slot.
LEMMA SlotsApart ==
  ASSUME Types, NEW t \in Thread, NEW u \in Thread, t # u, hp[t] # 0, hp[t] = hp[u],
         pc[t] # "exit", pc[u] # "exit"
  PROVE  FALSE
BY DEF Types, ThreadTypes

\* What a thread that takes no part has, it keeps, if its slot's owner stays.
LEMMA TypesKept ==
  ASSUME NEW t \in Thread, Others(t), NEW u \in Thread, u # t, ThreadTypes(u),
         UNCHANGED <<popping, ending>>,
         hp[u] # 0 /\ pc[u] # "exit" => id'[hp[u]] = id[hp[u]]
  PROVE  ThreadTypes(u)'
BY DEF Others, ThreadTypes

\* So only thread t and the owner of one slot need to be looked at.
LEMMA TypesStep ==
  ASSUME Types, VarTypes', NEW t \in Thread, Others(t), ThreadTypes(t)',
         UNCHANGED <<popping, ending>>,
         \A s \in Slot : id'[s] = id[s] \/ id[s] = NoThread \/ (hp[t] = s /\ pc[t] # "exit")
  PROVE  Types'
<1>1. ASSUME NEW u \in Thread, u # t PROVE ThreadTypes(u)'
  <2>1. ThreadTypes(u)
    BY DEF Types
  <2>2. ASSUME hp[u] # 0, pc[u] # "exit" PROVE id'[hp[u]] = id[hp[u]]
    <3>1. hp[u] \in Slot /\ id[hp[u]] = u
      BY <2>1, <2>2, Finite DEF Types, VarTypes, ThreadTypes
    <3>2. id[hp[u]] # NoThread
      BY <3>1, Finite
    <3>3. ~(hp[t] = hp[u] /\ pc[t] # "exit")
      BY <1>1, <2>2, SlotsApart
    <3> QED
      BY <3>1, <3>2, <3>3
  <2> QED
    BY <1>1, <2>1, <2>2, TypesKept
<1> QED
  BY <1>1 DEF Types

\* Popping, up to the exchange of the head.
LEMMA PopTypes ==
  ASSUME Types, NEW t \in Thread, PopCall(t) \/ Pop(t)
  PROVE  Others(t) /\ Types'
<1> USE DEF Goto, Scan, Leave, nodeVars, threadVars, stackVars, slotVars, hazardVars, workload
<1>1. VarTypes /\ ThreadTypes(t)
  BY DEF Types
<1>2. 1 \in Slot /\ \A s \in Slot : s \in 0..MaxPtr /\ s # 0 /\ (s < MaxPtr => s + 1 \in Slot)
  BY Finite
<1>3. CASE PopCall(t)
  <2>1. Others(t)
    BY <1>1, <1>3 DEF PopCall, VarTypes, Others
  <2>2. VarTypes'
    BY <1>1, <1>2, <1>3 DEF PopCall, VarTypes
  <2>3. ThreadTypes(t)'
    BY ZenonT(30), <1>1, <1>2, <1>3 DEF PopCall, VarTypes, ThreadTypes, InPop, InSweep
  <2> QED
    BY <1>3, <2>1, <2>2, <2>3, TypesStep DEF PopCall
<1>4. CASE HpOwner(t)
  <2>1. Others(t)
    BY <1>1, <1>4 DEF HpOwner, VarTypes, Others
  <2>2. i[t] \in Slot /\ hp[t] = 0
    BY <1>1, <1>4 DEF HpOwner, ThreadTypes
  <2>3. VarTypes'
    <3>1. i[t] \in 0..MaxPtr /\ (i[t] < MaxPtr => i[t] + 1 \in 0..MaxPtr) /\ 0 \in 0..MaxPtr
      BY <1>2, <2>2, Finite
    <3>2. CASE id' = [id EXCEPT ![i[t]] = t] /\ hp' = [hp EXCEPT ![t] = i[t]] /\ Leave(t, "pop_load")
      <4>1. id' \in [Slot -> Thread \cup {NoThread}]
        BY <1>1, <2>2, <3>2 DEF VarTypes
      <4>2. hp' \in [Thread -> 0..MaxPtr] /\ i' \in [Thread -> 0..MaxPtr]
        BY <1>1, <3>1, <3>2 DEF VarTypes
      <4> QED
        BY <1>1, <1>4, <3>2, <4>1, <4>2 DEF HpOwner, VarTypes
    <3>3. CASE i[t] < MaxPtr /\ i' = [i EXCEPT ![t] = i[t] + 1] /\ UNCHANGED <<id, hp, pc>>
      <4>1. i' \in [Thread -> 0..MaxPtr]
        BY <1>1, <3>1, <3>3 DEF VarTypes
      <4> QED
        BY <1>1, <1>4, <3>3, <4>1 DEF HpOwner, VarTypes
    <3>4. CASE Leave(t, "idle") /\ UNCHANGED <<id, hp>>
      <4>1. i' \in [Thread -> 0..MaxPtr]
        BY <1>1, <3>1, <3>4 DEF VarTypes
      <4> QED
        BY <1>1, <1>4, <3>4, <4>1 DEF HpOwner, VarTypes
    <3> QED
      BY <1>4, <3>2, <3>3, <3>4 DEF HpOwner
  <2>4. ThreadTypes(t)'
    BY <1>1, <1>2, <1>4, <2>2 DEF HpOwner, VarTypes, ThreadTypes, InPop, InSweep
  <2>5. \A s \in Slot : id'[s] = id[s] \/ id[s] = NoThread
    BY <1>1, <1>4 DEF HpOwner, VarTypes
  <2> QED
    BY <1>4, <2>1, <2>3, <2>4, <2>5, TypesStep DEF HpOwner
<1>5. CASE PopLoad(t) \/ HpValidate(t) \/ PopMiss(t)
  <2>1. Others(t)
    BY <1>1, <1>5 DEF PopLoad, HpValidate, PopMiss, SeeHead, VarTypes, Others
  <2>2. VarTypes'
    <3>1. CASE PopLoad(t)
      BY <1>1, <3>1 DEF PopLoad, VarTypes
    <3>2. CASE HpValidate(t)
      <4>1. /\ ptr' = [ptr EXCEPT ![t] = head]
            /\ nxt' = nxt \/ nxt' = [nxt EXCEPT ![t] = Null]
        BY <3>2 DEF HpValidate, SeeHead
      <4>2. res' \in [Thread -> Value \cup {None, Empty}]
        BY <1>1, <3>2 DEF HpValidate, SeeHead, VarTypes
      <4>3. \E q \in {"hp_store", "pop_next", "hp_clear"} : pc' = [pc EXCEPT ![t] = q]
        BY <3>2 DEF HpValidate, SeeHead
      <4>4. UNCHANGED <<nodeVars, hazardVars>>
        BY <3>2 DEF HpValidate
      <4> QED
        BY <1>1, <4>1, <4>2, <4>3, <4>4 DEF VarTypes
    <3>3. CASE PopMiss(t)
      BY <1>1, <3>3 DEF PopMiss, VarTypes
    <3> QED
      BY <1>5, <3>1, <3>2, <3>3
  <2>3. ThreadTypes(t)'
    BY <1>1, <1>5 DEF PopLoad, HpValidate, PopMiss, SeeHead, VarTypes, ThreadTypes, InPop, InSweep
  <2>4. id' = id /\ UNCHANGED <<popping, ending>>
    BY <1>5 DEF PopLoad, HpValidate, PopMiss
  <2> QED
    BY <2>1, <2>2, <2>3, <2>4, TypesStep
<1>6. CASE HpStore(t) \/ HpClear(t)
  <2>1. Others(t)
    BY <1>1, <1>6 DEF HpStore, HpClear, VarTypes, Others
  <2>2. VarTypes'
    BY <1>1, <1>6 DEF HpStore, HpClear, VarTypes
  <2>3. ThreadTypes(t)'
    BY <1>1, <1>6 DEF HpStore, HpClear, VarTypes, ThreadTypes, InPop, InSweep
  <2>4. id' = id /\ UNCHANGED <<popping, ending>>
    BY <1>6 DEF HpStore, HpClear
  <2> QED
    BY <2>1, <2>2, <2>3, <2>4, TypesStep
<1>7. CASE PopReadNext(t) /\ UNCHANGED hazardVars
  <2>1. Others(t)
    BY <1>1, <1>7 DEF PopReadNext, VarTypes, Others
  <2>2. VarTypes'
    <3>1. next[ptr[t]] \in Node \cup {Null}
      BY <1>1, <1>7 DEF PopReadNext, VarTypes, ThreadTypes
    <3> QED
      BY <1>1, <1>7, <3>1 DEF PopReadNext, VarTypes
  <2>3. ThreadTypes(t)'
    BY <1>1, <1>7 DEF PopReadNext, VarTypes, ThreadTypes, InPop, InSweep
  <2> QED
    BY <1>7, <2>1, <2>2, <2>3, TypesStep
<1>8. CASE PopUnlink(t, "hp_clear") /\ UNCHANGED hazardVars
  <2>1. Others(t)
    BY <1>1, <1>8 DEF PopUnlink, VarTypes, Others
  <2>2. VarTypes'
    BY <1>1, <1>8 DEF PopUnlink, VarTypes
  <2>3. ThreadTypes(t)'
    BY <1>1, <1>8 DEF PopUnlink, VarTypes, ThreadTypes, InPop, InSweep
  <2> QED
    BY <1>8, <2>1, <2>2, <2>3, TypesStep
<1>9. CASE PopTake(t)
  <2>1. Others(t)
    BY <1>1, <1>9 DEF PopTake, VarTypes, Others
  <2>2. VarTypes'
    <3>1. data[ptr[t]] \in Value \cup {None}
      BY <1>1, <1>9 DEF PopTake, VarTypes, ThreadTypes
    <3> QED
      BY <1>1, <1>2, <1>9, <3>1 DEF PopTake, VarTypes
  <2>3. ThreadTypes(t)'
    BY <1>1, <1>2, <1>9 DEF PopTake, VarTypes, ThreadTypes, InPop, InSweep
  <2> QED
    BY <1>9, <2>1, <2>2, <2>3, TypesStep DEF PopTake
<1> QED
  BY <1>3, <1>4, <1>5, <1>6, <1>7, <1>8, <1>9 DEF Pop

\* One round of a scan.
LEMMA OutstandingTypes ==
  ASSUME Types, NEW t \in Thread, ScanOwn(t) \/ ScanList(t)
  PROVE  Others(t) /\ Types'
<1> USE DEF Goto, Scan, Leave
<1>1. /\ VarTypes /\ ThreadTypes(t) /\ i[t] \in Slot /\ pc[t] \in {"scan_own", "scan_list"}
      /\ list[t] # <<>> <=> pc[t] = "scan_list"
  BY DEF Types, ThreadTypes, ScanOwn, ScanList, InSweep
<1>2. i[t] < MaxPtr => i[t] + 1 \in Slot /\ i[t] + 1 \in 0..MaxPtr
  BY <1>1, Finite
<1>3. /\ UNCHANGED <<nodeVars, ptr, nxt, res, id, pointer, nodes_to_reclaim, hp, list, workload>>
      /\ \/ /\ pc' = pc /\ i' = [i EXCEPT ![t] = i[t] + 1] /\ i[t] < MaxPtr
         \/ /\ i' = [i EXCEPT ![t] = 0]
            /\ \/ pc[t] = "scan_own" /\ pc' = [pc EXCEPT ![t] = "reclaim_later"]
               \/ pc[t] = "scan_own" /\ pc' = [pc EXCEPT ![t] = "delete_own"]
               \/ pc[t] = "scan_list" /\ pc' = [pc EXCEPT ![t] = "keep_node"]
               \/ pc[t] = "scan_list" /\ pc' = [pc EXCEPT ![t] = "delete_node"]
  BY DEF ScanOwn, ScanList, Outstanding
<1>4. Others(t)
  BY <1>1, <1>3 DEF VarTypes, Others
<1>5. VarTypes'
  <2>1. i' \in [Thread -> 0..MaxPtr]
    <3>1. 0 \in 0..MaxPtr
      BY Finite
    <3>2. CASE i' = [i EXCEPT ![t] = i[t] + 1] /\ i[t] < MaxPtr
      BY <1>1, <1>2, <3>2 DEF VarTypes
    <3>3. CASE i' = [i EXCEPT ![t] = 0]
      BY <1>1, <3>1, <3>3 DEF VarTypes
    <3> QED
      BY <1>3, <3>2, <3>3
  <2> QED
    BY <1>1, <1>3, <2>1 DEF VarTypes, nodeVars, workload
<1>6. ThreadTypes(t)'
  BY <1>1, <1>2, <1>3 DEF VarTypes, ThreadTypes, InPop, InSweep, workload
<1> QED
  BY <1>3, <1>4, <1>5, <1>6, TypesStep DEF workload

\* What a thread does with its own node.
LEMMA OwnTypes ==
  ASSUME Types, NEW t \in Thread, ReclaimLater(t) \/ DeleteOwn(t)
  PROVE  Others(t) /\ Types'
<1> USE DEF Goto, nodeVars, threadVars, stackVars, slotVars, hazardVars, workload
<1>1. VarTypes /\ ThreadTypes(t) /\ ptr[t] \in Node
  BY DEF Types, ThreadTypes, ReclaimLater, DeleteOwn
<1>2. CASE ReclaimLater(t)
  <2>1. Others(t)
    BY <1>1, <1>2 DEF ReclaimLater, VarTypes, Others
  <2>2. VarTypes'
    <3>1. nodes_to_reclaim' \in Seq(Node)
      BY <1>1, <1>2 DEF ReclaimLater, VarTypes
    <3> QED
      BY <1>1, <1>2, <3>1 DEF ReclaimLater, VarTypes
  <2>3. ThreadTypes(t)'
    BY <1>1, <1>2 DEF ReclaimLater, VarTypes, ThreadTypes, InPop, InSweep
  <2> QED
    BY <1>2, <2>1, <2>2, <2>3, TypesStep DEF ReclaimLater
<1>3. CASE DeleteOwn(t)
  <2>1. Others(t)
    BY <1>1, <1>3 DEF DeleteOwn, Delete, VarTypes, Others
  <2>2. VarTypes'
    BY <1>1, <1>3 DEF DeleteOwn, Delete, VarTypes
  <2>3. ThreadTypes(t)'
    BY <1>1, <1>3 DEF DeleteOwn, Delete, VarTypes, ThreadTypes, InPop, InSweep
  <2> QED
    BY <1>3, <2>1, <2>2, <2>3, TypesStep DEF DeleteOwn
<1> QED
  BY <1>2, <1>3

\* What it does with a list of nodes.
LEMMA ListTypes ==
  ASSUME Types, NEW t \in Thread, Exchange(t) \/ DeleteNode(t) \/ KeepNode(t)
  PROVE  /\ Others(t) /\ Types'
         /\ pc[t] # "exchange" => list[t] # <<>> /\ Head(list[t]) \in Node /\ Tail(list[t]) \in Seq(Node)
<1> USE DEF Goto, nodeVars, workload
<1>1. VarTypes /\ ThreadTypes(t)
  BY DEF Types
<1>2. pc[t] # "exchange" => list[t] # <<>> /\ Head(list[t]) \in Node /\ Tail(list[t]) \in Seq(Node)
  <2>1. pc[t] # "exchange" => list[t] # <<>> /\ list[t] \in Seq(Node)
    BY <1>1 DEF Exchange, DeleteNode, KeepNode, VarTypes, ThreadTypes, InSweep
  <2> QED
    BY <2>1
<1>3. PICK s \in Seq(Node) :
        /\ list' = [list EXCEPT ![t] = s]
        /\ pc' = [pc EXCEPT ![t] = IF s = <<>> THEN "idle" ELSE "scan_list"]
        /\ i' = [i EXCEPT ![t] = IF s = <<>> THEN 0 ELSE 1]
  BY <1>1, <1>2 DEF Exchange, DeleteNode, KeepNode, VarTypes, Sweep, Scan, Leave
<1>4. /\ UNCHANGED <<head, ptr, nxt, res, id, pointer, hp, workload>>
      /\ pc[t] \in {"exchange", "delete_node", "keep_node"}
  BY DEF Exchange, DeleteNode, KeepNode
<1>5. /\ next' \in [Node -> Node \cup {Null}] /\ data' \in [Node -> Value \cup {None}]
      /\ alive' \in SUBSET Node
  BY <1>1, <1>2 DEF Exchange, DeleteNode, KeepNode, VarTypes, Delete
<1>6. nodes_to_reclaim' \in Seq(Node)
  <2>1. CASE Exchange(t)
    <3>1. nodes_to_reclaim' = <<>>
      BY <2>1 DEF Exchange
    <3> QED
      BY <3>1
  <2>3. CASE DeleteNode(t)
    <3>1. nodes_to_reclaim' = nodes_to_reclaim
      BY <2>3 DEF DeleteNode
    <3> QED
      BY <1>1, <3>1 DEF VarTypes
  <2>2. CASE KeepNode(t)
    BY <1>1, <1>2, <2>2 DEF KeepNode, VarTypes
  <2> QED
    BY <2>1, <2>2, <2>3
<1>7. Others(t)
  BY <1>1, <1>3, <1>4 DEF VarTypes, Others
<1>8. VarTypes'
  <2>1. i' \in [Thread -> 0..MaxPtr] /\ list' \in [Thread -> Seq(Node)]
    BY <1>1, <1>3, Finite DEF VarTypes
  <2>2. pc' = [pc EXCEPT ![t] = "idle"] \/ pc' = [pc EXCEPT ![t] = "scan_list"]
    BY <1>3
  <2> QED
    BY <1>1, <1>4, <1>5, <1>6, <2>1, <2>2 DEF VarTypes
<1>9. ThreadTypes(t)'
  <2>1. list'[t] = s /\ pc'[t] = (IF s = <<>> THEN "idle" ELSE "scan_list")
        /\ i'[t] = (IF s = <<>> THEN 0 ELSE 1)
    BY <1>1, <1>3 DEF VarTypes
  <2>2. 1 \in Slot
    BY Finite
  <2> QED
    BY <1>1, <1>4, <2>1, <2>2 DEF ThreadTypes, InPop, InSweep
<1> QED
  BY <1>2, <1>4, <1>7, <1>8, <1>9, TypesStep

\* ~hp_owner
LEMMA ExitTypes ==
  ASSUME Types, NEW t \in Thread, Exit(t)
  PROVE  Others(t) /\ Types'
<1> USE DEF Goto, nodeVars, workload
<1>1. VarTypes /\ ThreadTypes(t)
  BY DEF Types
<1>2. CASE ExitId(t)
  <2>1. Others(t)
    BY <1>1, <1>2 DEF ExitId, VarTypes, Others
  <2>2. VarTypes'
    BY <1>1, <1>2 DEF ExitId, VarTypes
  <2>3. ThreadTypes(t)'
    BY <1>1, <1>2 DEF ExitId, VarTypes, ThreadTypes, InPop, InSweep
  <2>4. \A s \in Slot : id'[s] = id[s] \/ (hp[t] = s /\ pc[t] # "exit")
    BY <1>1, <1>2 DEF ExitId, VarTypes
  <2> QED
    BY <1>2, <2>1, <2>2, <2>3, <2>4, TypesStep DEF ExitId
<1>3. CASE ExitPointer(t)
  <2>1. Others(t)
    BY <1>1, <1>3 DEF ExitPointer, VarTypes, Others
  <2>2. VarTypes'
    <3>1. 0 \in 0..MaxPtr
      BY Finite
    <3> QED
      BY <1>1, <1>3, <3>1 DEF ExitPointer, VarTypes
  <2>3. ThreadTypes(t)'
    BY <1>1, <1>3 DEF ExitPointer, VarTypes, ThreadTypes, InPop, InSweep
  <2> QED
    BY <1>3, <2>1, <2>2, <2>3, TypesStep DEF ExitPointer
<1> QED
  BY <1>2, <1>3 DEF Exit

\* Pushing.
LEMMA PushTypes ==
  ASSUME Types, NEW t \in Thread, UNCHANGED hazardVars,
         PushCas(t) \/ \E v \in Value : PushCall(t, v)
  PROVE  Others(t) /\ Types'
<1> USE DEF Goto, Return, slotVars, hazardVars, workload
<1>1. VarTypes /\ ThreadTypes(t)
  BY DEF Types
<1>2. CASE PushCas(t)
  <2>1. Others(t)
    BY <1>1, <1>2 DEF PushCas, VarTypes, Others
  <2>2. VarTypes'
    <3>1. ptr[t] \in Node
      BY <1>1, <1>2 DEF PushCas, ThreadTypes
    <3> QED
      BY <1>1, <1>2, <3>1 DEF PushCas, VarTypes
  <2>3. ThreadTypes(t)'
    BY <1>1, <1>2 DEF PushCas, VarTypes, ThreadTypes, InPop, InSweep
  <2> QED
    BY <2>1, <2>2, <2>3, TypesStep
<1>3. CASE \E v \in Value : PushCall(t, v)
  <2>1. PICK v \in Value, n \in Node :
          /\ PushCall(t, v)
          /\ alive' = alive \cup {n}
          /\ data' = [data EXCEPT ![n] = v]
          /\ next' = [next EXCEPT ![n] = head]
          /\ ptr' = [ptr EXCEPT ![t] = n]
    BY <1>3 DEF PushCall
  <2>2. Others(t)
    BY <1>1, <2>1 DEF PushCall, VarTypes, Others
  <2>3. VarTypes'
    BY <1>1, <2>1 DEF PushCall, VarTypes
  <2>4. ThreadTypes(t)'
    BY <1>1, <2>1 DEF PushCall, VarTypes, ThreadTypes, InPop, InSweep
  <2> QED
    BY <2>2, <2>3, <2>4, TypesStep
<1> QED
  BY <1>2, <1>3

\* Types and slots, at first and after each step.
LEMMA TypesInit == Init => Types
<1> SUFFICES ASSUME Init PROVE Types
  OBVIOUS
<1>1. VarTypes
  <2>1. 0 \in 0..MaxPtr
    BY Finite
  <2> QED
    BY <2>1 DEF Init, StackInit, VarTypes
<1>2. ASSUME NEW t \in Thread PROVE ThreadTypes(t)
  BY DEF Init, StackInit, ThreadTypes, InPop, InSweep
<1> QED
  BY <1>1, <1>2 DEF Types

\* Every step keeps the types.
LEMMA TypesNext == Types /\ [Next]_vars => Types'
<1>1. ASSUME Types, Next PROVE Types'
  <2>1. PICK t \in Thread : \/ \E v \in Value : PushCall(t, v) /\ UNCHANGED hazardVars
                            \/ PushCas(t) /\ UNCHANGED hazardVars
                            \/ PopCall(t) \/ Pop(t) \/ Reclaim(t) \/ Exit(t)
    BY <1>1 DEF Next
  <2> QED
    BY <1>1, <2>1, PushTypes, PopTypes, OutstandingTypes, OwnTypes, ListTypes, ExitTypes DEF Reclaim
<1>2. ASSUME Types, UNCHANGED vars PROVE Types'
  BY <1>2 DEF Types, VarTypes, ThreadTypes, vars, stackVars, nodeVars, threadVars, hazardVars,
    slotVars, workload
<1> QED
  BY <1>1, <1>2

\* For any number of threads, slots and nodes, whether threads end or not: types, no null
\* pointer is followed, and each thread's slot carries its id until it gives it up.
THEOREM TypeCorrect == Spec => []TypeOK
<1>1. Types => TypeOK
  <2> SUFFICES ASSUME Types PROVE TypeOK
    OBVIOUS
  <2>1. \A t \in Thread : ThreadTypes(t)
    BY DEF Types
  <2>2. \A t \in Thread : pc[t] \in {"push_cas", "pop_next", "pop_cas", "pop_take"} => ptr[t] # Null
    BY <2>1, Finite DEF ThreadTypes
  <2>3. \A t \in Thread : hp[t] # 0 /\ pc[t] # "exit" => id[hp[t]] = t
    BY <2>1 DEF ThreadTypes
  <2> QED
    BY <2>2, <2>3 DEF Types, VarTypes, TypeOK, StackTypeOK, Pointer
<1>2. Spec => []Types
  BY TypesInit, TypesNext, PTL DEF Spec
<1> QED
  BY <1>1, <1>2, PTL

-----------------------------------------------------------------------------
(* The invariant.  stk is the nodes of the stack, in order; kind[n] is the *)
(* place of node n and who[n] the thread whose it is.                      *)

Owns(t) == HoldsOwn(t) \/ pc[t] = "push_cas"

\* The others that ever pop have given up their slots.
Alone(u) == ending /\ \A t \in popping : t # u => pc[t] \in {"exit", "exited"}

\* At most two of the threads that end pop.
Few == ending => \A t, u, w \in popping : t = u \/ t = w \/ u = w

\* A place from which nobody deletes node n while slot h announces it: who has it does
\* not mean to delete it, or has still to look into slot h.
Kept(n, h, kind, who) ==
  \/ kind[n] \in {"stack", "pending"}
  \/ /\ kind[n] = "own"
     /\ \/ pc[who[n]] \in {"hp_clear", "pop_take", "reclaim_later"}
        \/ pc[who[n]] = "scan_own" /\ i[who[n]] <= h
  \/ /\ kind[n] = "list"
     /\ \/ n # Head(list[who[n]])
        \/ pc[who[n]] = "keep_node"
        \/ pc[who[n]] = "scan_list" /\ i[who[n]] <= h

\* Thread u may follow n: its slot h announces n, or there is nobody who would delete n.
Guarded(u, n, h, kind, who) ==
  /\ Kept(n, h, kind, who)
  /\ \/ pointer[h] = n
     \/ Alone(u) /\ kind[n] \in {"stack", "pending"}

\* Thread t's own node, and its list.
ThreadNodes(t, kind, who) ==
  /\ {n \in Node : kind[n] = "own" /\ who[n] = t} = IF Owns(t) THEN {ptr[t]} ELSE {}
  /\ Distinct(list[t])
  /\ Elements(list[t]) = {n \in Node : kind[n] = "list" /\ who[n] = t}

\* What thread t remembers in the loop of pop.
ThreadPop(t, kind, who) ==
  /\ pc[t] \in {"pop_next", "pop_cas"} => Guarded(t, ptr[t], hp[t], kind, who)
  /\ pc[t] = "hp_validate" => pointer[hp[t]] = ptr[t] \/ Alone(t)
  /\ pc[t] = "pop_cas" /\ kind[ptr[t]] = "stack" => nxt[t] = next[ptr[t]]
  /\ pc[t] \in {"hp_owner", "pop_load", "hp_store", "hp_validate", "pop_next", "pop_cas"} =>
       res[t] = None
  /\ pc[t] \in {"push_cas", "pop_take"} \/ (pc[t] = "hp_clear" /\ ptr[t] # Null) =>
       data[ptr[t]] \in Value

\* The nodes that no thread has to itself, and those that are free.
Shared(stk, kind, who) ==
  /\ kind \in [Node -> {"free", "stack", "pending", "own", "list"}]
  /\ who \in [Node -> Thread \cup {Null}]
  /\ \A n \in Node : kind[n] \in {"own", "list"} => who[n] \in Thread
  /\ alive = {n \in Node : kind[n] # "free"}
  /\ Path(Null, next, head, stk)
  /\ Elements(stk) = {n \in Node : kind[n] = "stack"}
  /\ Distinct(nodes_to_reclaim)
  /\ Elements(nodes_to_reclaim) = {n \in Node : kind[n] = "pending"}
  /\ \A n \in Node : kind[n] = "stack" => data[n] \in Value

Shape(stk, kind, who) ==
  /\ Types
  /\ Few
  /\ Shared(stk, kind, who)
  /\ \A t \in Thread : ThreadNodes(t, kind, who)
  /\ \A t \in Thread : ThreadPop(t, kind, who)

IInv == \E stk, kind, who : Shape(stk, kind, who)

-----------------------------------------------------------------------------
(* What the steps have in common. *)

\* The node and the list of a thread that takes no part.
LEMMA NodesKept ==
  ASSUME NEW t \in Thread, Others(t), NEW u \in Thread, u # t,
         NEW kind, NEW who, ThreadNodes(u, kind, who), NEW kind2, NEW who2,
         \A n \in Node : /\ kind2[n] = "own" /\ who2[n] = u <=> kind[n] = "own" /\ who[n] = u
                         /\ kind2[n] = "list" /\ who2[n] = u <=> kind[n] = "list" /\ who[n] = u
  PROVE  ThreadNodes(u, kind2, who2)'
<1>1. pc'[u] = pc[u] /\ ptr'[u] = ptr[u] /\ list'[u] = list[u]
  BY DEF Others
<1>2. Owns(u)' <=> Owns(u)
  BY <1>1 DEF Owns, HoldsOwn
<1>3. {n \in Node : kind2[n] = "own" /\ who2[n] = u} = {n \in Node : kind[n] = "own" /\ who[n] = u}
  OBVIOUS
<1>4. {n \in Node : kind2[n] = "list" /\ who2[n] = u} = {n \in Node : kind[n] = "list" /\ who[n] = u}
  OBVIOUS
<1> QED
  BY <1>1, <1>2, <1>3, <1>4 DEF ThreadNodes

\* A thread that has ended has ended for good.
EndsKept(t) == pc[t] \in {"exit", "exited"} => pc'[t] \in {"exit", "exited"}

\* So who was alone is.
LEMMA AloneKept ==
  ASSUME NEW t \in Thread, Others(t), EndsKept(t), UNCHANGED <<popping, ending>>,
         popping \subseteq Thread, NEW u \in Thread, Alone(u)
  PROVE  Alone(u)'
BY DEF Others, EndsKept, Alone

\* The slots of the others in pop are not stored into.
PointersKept(t) ==
  \A u \in Thread : u # t /\ pc[u] \in InPop => pointer'[hp[u]] = pointer[hp[u]]

\* What others still point to stays guarded, and is not linked into the stack.
Spared(t, kind, who, kind2, who2) ==
  \A u \in Thread, n \in Node, h \in Slot :
    u # t /\ pc[u] \in {"pop_next", "pop_cas"} /\ Guarded(u, n, h, kind, who)
          /\ ptr[u] = n /\ hp[u] = h =>
      /\ Guarded(u, n, h, kind2, who2)'
      /\ kind2[n] = "stack" => kind[n] = "stack" /\ next'[n] = next[n]

\* What others have announced stays announced.
Announced(t) ==
  \A u \in Thread : u # t /\ pc[u] = "hp_validate" /\ (pointer[hp[u]] = ptr[u] \/ Alone(u)) =>
    pointer'[hp[u]] = ptr[u] \/ Alone(u)'

\* No node of another thread comes, goes or changes.
Apart(t, kind, who, kind2, who2) ==
  /\ \A n \in Node : kind[n] \in {"own", "list"} /\ who[n] # t =>
       kind2[n] = kind[n] /\ who2[n] = who[n] /\ data'[n] = data[n]
  /\ \A n \in Node : kind2[n] \in {"own", "list"} /\ who2[n] # t =>
       kind2[n] = kind[n] /\ who2[n] = who[n]

\* Whose own node is a result that res does not hold yet.
Takes(t) == pc[t] \in {"hp_clear", "pop_take"} /\ ptr[t] # Null

\* What a thread that takes no part remembers of its pop.
LEMMA PopKept ==
  ASSUME NEW t \in Thread, Others(t), NEW u \in Thread, u # t, Types,
         NEW kind, NEW who, ThreadPop(u, kind, who), NEW kind2, NEW who2,
         Spared(t, kind, who, kind2, who2), Announced(t),
         pc[u] = "push_cas" \/ Takes(u) => data'[ptr[u]] = data[ptr[u]]
  PROVE  ThreadPop(u, kind2, who2)'
<1>1. /\ pc'[u] = pc[u] /\ ptr'[u] = ptr[u] /\ nxt'[u] = nxt[u] /\ res'[u] = res[u]
      /\ hp'[u] = hp[u]
  BY DEF Others
<1>2. VarTypes /\ ThreadTypes(u)
  BY DEF Types
<1>3. ASSUME pc[u] \in {"pop_next", "pop_cas"}
      PROVE  /\ Guarded(u, ptr[u], hp[u], kind2, who2)'
             /\ kind2[ptr[u]] = "stack" => kind[ptr[u]] = "stack" /\ next'[ptr[u]] = next[ptr[u]]
  <2>1. PICK n \in Node, h \in Slot : n = ptr[u] /\ h = hp[u]
    BY <1>2, <1>3, Finite DEF VarTypes, ThreadTypes, InPop
  <2>2. Guarded(u, n, h, kind, who)
    BY <1>3, <2>1 DEF ThreadPop
  <2>3. /\ Guarded(u, n, h, kind2, who2)'
        /\ kind2[n] = "stack" => kind[n] = "stack" /\ next'[n] = next[n]
    BY <1>3, <2>1, <2>2 DEF Spared
  <2>4. n = ptr'[u] /\ h = hp'[u]
    BY <1>1, <2>1
  <2> QED
    BY <2>1, <2>3, <2>4 DEF Guarded, Kept
<1>4. pc[u] = "hp_validate" => pointer'[hp[u]] = ptr[u] \/ Alone(u)'
  BY DEF Announced, ThreadPop
<1>5. data'[ptr[u]] \in Value \/ ~(pc[u] = "push_cas" \/ Takes(u))
  BY <1>2, Finite DEF ThreadPop, Takes, ThreadTypes
<1>6. /\ pc[u] \in {"hp_owner", "pop_load", "hp_store", "hp_validate", "pop_next", "pop_cas"} =>
           res[u] = None
      /\ pc[u] = "pop_cas" /\ kind[ptr[u]] = "stack" => nxt[u] = next[ptr[u]]
      /\ pc[u] = "pop_take" => ptr[u] # Null
  BY <1>2, Finite DEF ThreadPop, ThreadTypes
<1> HIDE DEF Guarded, Alone
<1> QED
  BY <1>1, <1>3, <1>4, <1>5, <1>6 DEF ThreadPop, Takes

\* What each thread has got out of its last pop, as ImplementsStack maps it.
Taken == [t \in Thread |-> IF pc[t] \in {"hp_clear", "pop_take"} /\ ptr[t] # Null
                           THEN data[ptr[t]] ELSE res[t]]

\* What a step that makes r of s does to the stack as its callers see it.
Effect(s, r) ==
  \/ DataOf(data', r) = DataOf(data, s) /\ Taken' = Taken
  \/ \E v \in Value : DataOf(data', r) = <<v>> \o DataOf(data, s) /\ Taken' = Taken
  \/ \E t \in Thread : /\ DataOf(data', r) = DataOf(data, s)
                       /\ Taken' = [Taken EXCEPT ![t] = None]
  \/ \E t \in Thread : /\ Taken[t] = None /\ DataOf(data, s) # <<>>
                       /\ DataOf(data', r) = Tail(DataOf(data, s))
                       /\ Taken' = [Taken EXCEPT ![t] = Head(DataOf(data, s))]
  \/ \E t \in Thread : /\ Taken[t] = None /\ DataOf(data, s) = <<>>
                       /\ DataOf(data', r) = DataOf(data, s)
                       /\ Taken' = [Taken EXCEPT ![t] = Empty]

\* The step keeps the invariant, and is one of AtomicStack or none.
Result(s) == \E stk, kind, who : Shape(stk, kind, who)' /\ Effect(s, stk)

\* What others hold of their results does not change.
OthersTake(t) == \A u \in Thread : u # t /\ Takes(u) => data'[ptr[u]] = data[ptr[u]]

\* So what they have taken does not.
LEMMA TakenOthers ==
  ASSUME NEW t \in Thread, Others(t), OthersTake(t)
  PROVE  /\ Taken'[t] = Taken[t] => Taken' = Taken
         /\ \A v : Taken'[t] = v => Taken' = [Taken EXCEPT ![t] = v]
<1>1. \A u \in Thread : u # t => Taken'[u] = Taken[u]
  BY DEF Others, OthersTake, Takes, Taken
<1>2. Taken = [u \in Thread |-> Taken[u]] /\ Taken' = [u \in Thread |-> Taken'[u]]
  BY DEF Taken
<1> HIDE DEF Taken
<1> QED
  BY <1>1, <1>2

\* If a step of a thread that takes nothing changes no data, others see none of it.
LEMMA UnseenStep ==
  ASSUME NEW s, NEW r, DataOf(data', r) = DataOf(data, s), NEW t \in Thread, Others(t),
         OthersTake(t), ~Takes(t), ~Takes(t)', res'[t] = res[t]
  PROVE  Effect(s, r)
<1>1. Taken'[t] = Taken[t]
  BY DEF Taken, Takes
<1>2. Taken' = Taken
  BY <1>1, TakenOthers
<1> QED
  BY <1>2 DEF Effect

\* If thread t's step is right for the shared nodes, for its own and for what others
\* still point to, it is right.
LEMMA MoveStep ==
  ASSUME NEW stk, NEW kind, NEW who, Shape(stk, kind, who), NEW stk2, NEW kind2, NEW who2,
         NEW t \in Thread, Others(t), Types', UNCHANGED <<popping, ending>>,
         Shared(stk2, kind2, who2)', ThreadNodes(t, kind2, who2)', ThreadPop(t, kind2, who2)',
         Apart(t, kind, who, kind2, who2), Spared(t, kind, who, kind2, who2), Announced(t)
  PROVE  Shape(stk2, kind2, who2)' /\ OthersTake(t)
<1> USE DEF Shape
<1>1. ASSUME NEW u \in Thread, u # t PROVE ThreadNodes(u, kind2, who2)'
  <2>1. \A n \in Node : /\ kind2[n] = "own" /\ who2[n] = u <=> kind[n] = "own" /\ who[n] = u
                        /\ kind2[n] = "list" /\ who2[n] = u <=> kind[n] = "list" /\ who[n] = u
    BY <1>1 DEF Apart
  <2> QED
    BY <1>1, <2>1, NodesKept
<1>2. ASSUME NEW u \in Thread, u # t, pc[u] = "push_cas" \/ Takes(u)
      PROVE  data'[ptr[u]] = data[ptr[u]]
  <2>1. Owns(u)
    BY <1>2 DEF Owns, HoldsOwn, Takes
  <2>2. ptr[u] \in {n \in Node : kind[n] = "own" /\ who[n] = u}
    BY <2>1 DEF ThreadNodes
  <2> QED
    BY <1>2, <2>2 DEF Apart
<1>3. ASSUME NEW u \in Thread, u # t PROVE ThreadPop(u, kind2, who2)'
  BY <1>2, <1>3, PopKept
<1>4. Few'
  BY DEF Few
<1>5. OthersTake(t)
  BY <1>2 DEF OthersTake
<1> QED
  BY <1>1, <1>3, <1>4, <1>5

\* Thread t does not pop any more, or never does.
Ended(t) == t \in popping => pc[t] \in {"exit", "exited"}

\* Node n stays where nobody deletes it as long as slot h announces it.
NodeSpared(t, n, h, kind, who, kind2, who2) ==
  /\ Kept(n, h, kind, who) /\ (pointer[h] = n \/ Ended(t)) =>
       /\ Kept(n, h, kind2, who2)'
       /\ kind2[n] = "stack" => kind[n] = "stack" /\ next'[n] = next[n]
  /\ kind[n] \in {"stack", "pending"} /\ Ended(t) => kind2[n] \in {"stack", "pending"}

\* If all nodes do, those that others point to are spared.
LEMMA SparedStep ==
  ASSUME Types, NEW t \in Thread, Others(t), UNCHANGED <<popping, ending>>,
         EndsKept(t), PointersKept(t), NEW kind, NEW who, NEW kind2, NEW who2,
         \A n \in Node, h \in Slot : NodeSpared(t, n, h, kind, who, kind2, who2)
  PROVE  Spared(t, kind, who, kind2, who2) /\ Announced(t)
<1>1. popping \subseteq Thread
  BY DEF Types, VarTypes
<1>2. ASSUME NEW u \in Thread, Alone(u), u # t PROVE Alone(u)' /\ Ended(t)
  BY <1>1, <1>2, AloneKept DEF Alone, Ended
<1>3. ASSUME NEW u \in Thread, NEW n \in Node, NEW h \in Slot, u # t,
             pc[u] \in {"pop_next", "pop_cas"}, Guarded(u, n, h, kind, who),
             ptr[u] = n, hp[u] = h
      PROVE  /\ Guarded(u, n, h, kind2, who2)'
             /\ kind2[n] = "stack" => kind[n] = "stack" /\ next'[n] = next[n]
  <2>1. pointer'[h] = pointer[h]
    BY <1>3 DEF PointersKept, InPop
  <2>2. NodeSpared(t, n, h, kind, who, kind2, who2)
    OBVIOUS
  <2>3. Kept(n, h, kind, who) /\ (pointer[h] = n \/ Ended(t))
    BY <1>2, <1>3 DEF Guarded
  <2>4. /\ Kept(n, h, kind2, who2)'
        /\ kind2[n] = "stack" => kind[n] = "stack" /\ next'[n] = next[n]
    BY <2>2, <2>3 DEF NodeSpared
  <2>5. pointer[h] # n => Alone(u)' /\ kind2[n] \in {"stack", "pending"}
    BY <1>2, <1>3, <2>2 DEF Guarded, NodeSpared
  <2> QED
    BY <2>1, <2>4, <2>5 DEF Guarded
<1>4. ASSUME NEW u \in Thread, u # t, pc[u] = "hp_validate", pointer[hp[u]] = ptr[u] \/ Alone(u)
      PROVE  pointer'[hp[u]] = ptr[u] \/ Alone(u)'
  BY <1>2, <1>4 DEF PointersKept, InPop
<1>5. Spared(t, kind, who, kind2, who2)
  BY <1>3 DEF Spared
<1>6. Announced(t)
  BY <1>4 DEF Announced
<1> QED
  BY <1>5, <1>6

\* A thread that has its slot stores into that one only.
LEMMA PointersStep ==
  ASSUME Types, NEW t \in Thread, pc[t] # "exit",
         \A s \in Slot : pointer'[s] = pointer[s] \/ s = hp[t]
  PROVE  PointersKept(t)
<1> SUFFICES ASSUME NEW u \in Thread, u # t, pc[u] \in InPop
             PROVE  pointer'[hp[u]] = pointer[hp[u]]
  BY DEF PointersKept
<1>1. hp[u] \in Slot /\ hp[u] # 0 /\ pc[u] # "exit"
  BY Finite DEF Types, VarTypes, ThreadTypes, InPop
<1>2. hp[u] # hp[t]
  BY <1>1, SlotsApart
<1> QED
  BY <1>1, <1>2

\* A node that does not move is spared, if it is not t's.
LEMMA NodeStays ==
  ASSUME NEW t \in Thread, Others(t), NEW kind, NEW who, NEW kind2, NEW who2,
         NEW n \in Node, NEW h \in Slot,
         kind2[n] = kind[n], who2[n] = who[n], kind[n] = "stack" => next'[n] = next[n],
         kind[n] \in {"own", "list"} => who[n] \in Thread,
         kind[n] \in {"own", "list"} /\ who[n] = t /\ Kept(n, h, kind, who)
           /\ (pointer[h] = n \/ Ended(t)) => Kept(n, h, kind2, who2)'
  PROVE  NodeSpared(t, n, h, kind, who, kind2, who2)
<1>1. kind[n] \in {"own", "list"} /\ who[n] # t =>
        /\ pc'[who[n]] = pc[who[n]] /\ i'[who[n]] = i[who[n]] /\ list'[who[n]] = list[who[n]]
  BY DEF Others
<1>2. kind[n] \in {"own", "list"} /\ who[n] # t /\ Kept(n, h, kind, who) =>
        Kept(n, h, kind2, who2)'
  BY <1>1 DEF Kept
<1>3. kind[n] \in {"stack", "pending"} => Kept(n, h, kind2, who2)'
  BY DEF Kept
<1>4. Kept(n, h, kind, who) => kind[n] \in {"stack", "pending", "own", "list"}
  BY DEF Kept
<1> HIDE DEF Kept
<1> QED
  BY <1>2, <1>3, <1>4 DEF NodeSpared

-----------------------------------------------------------------------------
(* Steps that change no place. *)

\* Where no node changes its place, the stack stays as it is.
LEMMA SharedKept ==
  ASSUME NEW stk, NEW kind, NEW who, Shared(stk, kind, who),
         UNCHANGED <<head, alive, nodes_to_reclaim>>, DOMAIN next' = DOMAIN next,
         \A n \in Node : kind[n] = "stack" => next'[n] = next[n] /\ data'[n] = data[n]
  PROVE  Shared(stk, kind, who)' /\ DataOf(data', stk) = DataOf(data, stk)
<1>1. \A n \in Elements(stk) : n \in Node /\ kind[n] = "stack"
  BY DEF Shared
<1>2. Path(Null, next', head, stk)
  BY <1>1, PathKept DEF Shared
<1>3. DataOf(data', stk) = DataOf(data, stk)
  BY <1>1, DataKept
<1> QED
  BY <1>2, <1>3 DEF Shared

\* What thread t has and others point to stays guarded.
HoldsOn(t, kind, who) ==
  \A n \in Node, h \in Slot :
    kind[n] \in {"own", "list"} /\ who[n] = t /\ pointer[h] = n /\ Kept(n, h, kind, who) =>
      Kept(n, h, kind, who)'

\* No place: thread t goes on with its nodes where they are.
LEMMA LocalStep ==
  ASSUME NEW stk, NEW kind, NEW who, Shape(stk, kind, who), NEW t \in Thread, Others(t), Types',
         UNCHANGED <<popping, ending, head, next, alive, nodes_to_reclaim>>,
         PointersKept(t), ~Ended(t), HoldsOn(t, kind, who),
         \A n \in Node : (n = ptr[t] /\ Owns(t)) \/ data'[n] = data[n],
         ThreadNodes(t, kind, who)', ThreadPop(t, kind, who)'
  PROVE  /\ Shape(stk, kind, who)' /\ OthersTake(t)
         /\ DataOf(data', stk) = DataOf(data, stk)
<1> USE DEF Shape
<1>1. \A n \in Node : n = ptr[t] /\ Owns(t) => kind[n] = "own" /\ who[n] = t
  <2>1. Owns(t) => ptr[t] \in {n \in Node : kind[n] = "own" /\ who[n] = t}
    BY DEF ThreadNodes
  <2> QED
    BY <2>1
<1>2. Shared(stk, kind, who)' /\ DataOf(data', stk) = DataOf(data, stk)
  BY <1>1, SharedKept
<1>3. Apart(t, kind, who, kind, who)
  BY <1>1 DEF Apart
<1>4. ASSUME NEW n \in Node, NEW h \in Slot PROVE NodeSpared(t, n, h, kind, who, kind, who)
  <2>1. kind[n] \in {"own", "list"} => who[n] \in Thread
    BY DEF Shared
  <2>2. kind[n] \in {"own", "list"} /\ who[n] = t /\ Kept(n, h, kind, who)
           /\ (pointer[h] = n \/ Ended(t)) => Kept(n, h, kind, who)'
    BY DEF HoldsOn
  <2> QED
    BY <2>1, <2>2, NodeStays
<1>5. EndsKept(t)
  BY DEF EndsKept, Ended
<1>6. Spared(t, kind, who, kind, who) /\ Announced(t)
  BY <1>4, <1>5, SparedStep
<1> HIDE DEF Shape
<1> QED
  BY <1>2, <1>3, <1>6, MoveStep

\* What a thread has none of, it gives nothing up of.
LEMMA NothingHeld ==
  ASSUME NEW t \in Thread, NEW kind, NEW who, ThreadNodes(t, kind, who), ~Owns(t), list[t] = <<>>
  PROVE  /\ HoldsOn(t, kind, who)
         /\ \A n \in Node : kind[n] \in {"own", "list"} => who[n] # t
<1>1. \A n \in Node : kind[n] \in {"own", "list"} => who[n] # t
  <2>1. Elements(list[t]) = {}
    BY PathEmpty
  <2> QED
    BY <2>1 DEF ThreadNodes
<1> QED
  BY <1>1 DEF HoldsOn

\* A step of a thread that has no node, before and after it, and stores at most into its slot.
LEMMA EmptyHandedStep ==
  ASSUME NEW stk, NEW kind, NEW who, Shape(stk, kind, who), NEW t \in Thread, Others(t), Types',
         UNCHANGED <<popping, ending, head, next, data, alive, nodes_to_reclaim, list>>,
         ~Ended(t), ~Owns(t), ~Owns(t)', list[t] = <<>>,
         \A s \in Slot : pointer'[s] = pointer[s] \/ s = hp[t], ThreadPop(t, kind, who)'
  PROVE  /\ Shape(stk, kind, who)' /\ OthersTake(t)
         /\ DataOf(data', stk) = DataOf(data, stk)
<1>1. ThreadNodes(t, kind, who) /\ Types
  BY DEF Shape
<1>2. ThreadNodes(t, kind, who)'
  BY <1>1 DEF ThreadNodes
<1>3. HoldsOn(t, kind, who)
  BY <1>1, NothingHeld
<1>4. t \in popping /\ pc[t] # "exit"
  BY DEF Ended
<1>5. PointersKept(t)
  BY <1>1, <1>4, PointersStep
<1> QED
  BY <1>2, <1>3, <1>5, LocalStep

\* pop is called.
LEMMA PopCallStep ==
  ASSUME NEW stk, NEW kind, NEW who, Shape(stk, kind, who), NEW t \in Thread, PopCall(t)
  PROVE  Result(stk)
<1>1. Types /\ VarTypes /\ ThreadTypes(t)
  BY DEF Shape, Types
<1>2. Others(t) /\ Types'
  BY <1>1, PopTypes
<1>3. /\ pc[t] = "idle" /\ pc'[t] \in {"hp_owner", "pop_load"} /\ res'[t] = None
      /\ t \in popping /\ list[t] = <<>>
      /\ UNCHANGED <<popping, ending, head, next, data, alive, nodes_to_reclaim, list, pointer>>
  BY <1>1 DEF PopCall, Scan, Goto, VarTypes, ThreadTypes, InSweep, nodeVars, workload
<1>4. ~Owns(t) /\ ~Owns(t)' /\ ~Ended(t) /\ ~Takes(t)'
  BY <1>3 DEF Owns, HoldsOwn, Ended, Takes
<1>5. ThreadPop(t, kind, who)'
  BY <1>3 DEF ThreadPop
<1>6. Shape(stk, kind, who)' /\ OthersTake(t) /\ DataOf(data', stk) = DataOf(data, stk)
  BY <1>2, <1>3, <1>4, <1>5, EmptyHandedStep
<1>7. Taken'[t] = None
  BY <1>3, <1>4 DEF Taken, Takes
<1>8. Taken' = [Taken EXCEPT ![t] = None]
  BY <1>2, <1>6, <1>7, TakenOthers
<1>9. Effect(stk, stk)
  BY <1>6, <1>8 DEF Effect
<1> QED
  BY <1>6, <1>9 DEF Result

\* Steps in which old_head and the slot may change, and none has an effect: the thread finds
\* a slot, or none, loads the head, announces it, or finds that it has changed.
LEMMA AnnounceStep ==
  ASSUME NEW stk, NEW kind, NEW who, Shape(stk, kind, who), NEW t \in Thread,
         \/ HpOwner(t) \/ PopLoad(t) \/ HpStore(t) \/ PopMiss(t)
         \/ HpValidate(t) /\ head # ptr[t]
  PROVE  Result(stk)
<1> USE DEF nodeVars, slotVars, hazardVars, workload
<1>1. Types /\ VarTypes /\ ThreadTypes(t) /\ ThreadPop(t, kind, who)
  BY DEF Shape, Types
<1>2. Others(t) /\ Types'
  BY <1>1, PopTypes DEF Pop
<1>3. /\ pc[t] \in {"hp_owner", "pop_load", "hp_store", "hp_validate", "pop_cas"}
      /\ pc'[t] \in {"idle", "hp_owner", "pop_load", "hp_store", "hp_validate"}
      /\ UNCHANGED <<popping, ending, head, next, data, alive, nodes_to_reclaim, list>>
      /\ res' = res
  <2>1. CASE HpOwner(t)
    BY <1>1, <2>1 DEF HpOwner, Leave, Goto, VarTypes
  <2>2. CASE PopLoad(t) \/ HpStore(t)
    BY <1>1, <2>2 DEF PopLoad, HpStore, Goto, VarTypes
  <2>3. CASE PopMiss(t)
    BY <1>1, <2>3 DEF PopMiss, Goto, VarTypes
  <2>4. CASE HpValidate(t) /\ head # ptr[t]
    BY <1>1, <2>4 DEF HpValidate, SeeHead, Goto, VarTypes
  <2> QED
    BY <2>1, <2>2, <2>3, <2>4
<1>4. \A s \in Slot : pointer'[s] = pointer[s] \/ s = hp[t]
  BY <1>1 DEF HpOwner, PopLoad, HpStore, PopMiss, HpValidate, VarTypes
<1>5. pc'[t] = "hp_validate" => pointer'[hp'[t]] = ptr'[t]
  <2>1. CASE HpStore(t)
    <3>1. hp[t] \in Slot
      BY <1>1, <2>1, Finite DEF HpStore, VarTypes, ThreadTypes, InPop
    <3> QED
      BY <1>1, <2>1, <3>1 DEF HpStore, VarTypes
  <2>2. CASE ~HpStore(t)
    BY <1>1, <2>2 DEF HpOwner, PopLoad, PopMiss, HpValidate, Leave, Goto, VarTypes
  <2> QED
    BY <2>1, <2>2
<1>6. t \in popping /\ list[t] = <<>> /\ res[t] = None
  BY <1>1, <1>3 DEF ThreadTypes, InSweep, ThreadPop
<1>7. ~Owns(t) /\ ~Owns(t)' /\ ~Ended(t) /\ ~Takes(t) /\ ~Takes(t)'
  BY <1>3, <1>6 DEF Owns, HoldsOwn, Ended, Takes
<1>8. ThreadPop(t, kind, who)'
  BY <1>3, <1>5, <1>6 DEF ThreadPop
<1>9. Shape(stk, kind, who)' /\ OthersTake(t) /\ DataOf(data', stk) = DataOf(data, stk)
  BY <1>2, <1>3, <1>4, <1>6, <1>7, <1>8, EmptyHandedStep
<1>10. Effect(stk, stk)
  BY <1>2, <1>3, <1>7, <1>9, UnseenStep
<1> QED
  BY <1>9, <1>10 DEF Result

\* The head is still what was announced: old_head is safe to follow, or the stack is empty.
LEMMA SeenStep ==
  ASSUME NEW stk, NEW kind, NEW who, Shape(stk, kind, who), NEW t \in Thread,
         HpValidate(t), head = ptr[t]
  PROVE  Result(stk)
<1> USE DEF nodeVars, slotVars, hazardVars, workload
<1>1. /\ Types /\ VarTypes /\ ThreadTypes(t) /\ ThreadPop(t, kind, who)
      /\ Shared(stk, kind, who)
  BY DEF Shape, Types
<1>2. Others(t) /\ Types'
  BY <1>1, PopTypes DEF Pop
<1>3. /\ pc[t] = "hp_validate" /\ ptr'[t] = head /\ ptr[t] = head
      /\ \/ head # Null /\ pc'[t] = "pop_next" /\ res'[t] = res[t]
         \/ head = Null /\ pc'[t] = "hp_clear" /\ res'[t] = Empty
      /\ UNCHANGED <<popping, ending, head, next, data, alive, nodes_to_reclaim, list, hp, pointer>>
  BY <1>1 DEF HpValidate, SeeHead, Goto, VarTypes
<1>4. t \in popping /\ list[t] = <<>> /\ res[t] = None /\ (pointer[hp[t]] = head \/ Alone(t))
  BY <1>1, <1>3 DEF ThreadTypes, InSweep, ThreadPop
<1>5. ~Owns(t) /\ ~Owns(t)' /\ ~Ended(t) /\ ~Takes(t) /\ ~Takes(t)'
  BY <1>3, <1>4 DEF Owns, HoldsOwn, Ended, Takes
<1>6. DOMAIN next = Node /\ Path(Null, next, head, stk)
  BY <1>1 DEF VarTypes, Shared
<1>7. head # Null => head \in Node /\ kind[head] = "stack"
  BY <1>1, <1>6, Finite, PathElements DEF Shared
<1>8. Alone(t)' <=> Alone(t)
  BY <1>1, <1>2, <1>3 DEF VarTypes, Others, Alone
<1>9. ThreadPop(t, kind, who)'
  <2>1. CASE head # Null
    <3>1. Guarded(t, ptr[t], hp[t], kind, who)'
      BY <1>3, <1>4, <1>7, <1>8, <2>1 DEF Guarded, Kept
    <3> QED
      BY <1>3, <1>4, <2>1, <3>1 DEF ThreadPop
  <2>2. CASE head = Null
    BY <1>3, <2>2 DEF ThreadPop
  <2> QED
    BY <2>1, <2>2
<1>10. Shape(stk, kind, who)' /\ OthersTake(t) /\ DataOf(data', stk) = DataOf(data, stk)
  BY <1>2, <1>3, <1>4, <1>5, <1>9, EmptyHandedStep
<1>11. CASE head # Null
  <2>1. Effect(stk, stk)
    BY <1>2, <1>3, <1>5, <1>10, <1>11, UnseenStep
  <2> QED
    BY <1>10, <2>1 DEF Result
<1>12. CASE head = Null
  <2>1. Taken'[t] = Empty /\ Taken[t] = None
    BY <1>3, <1>4, <1>5, <1>12 DEF Taken, Takes
  <2>2. Taken' = [Taken EXCEPT ![t] = Empty]
    BY <1>2, <1>10, <2>1, TakenOthers
  <2>3. stk = <<>>
    BY <1>6, <1>12, Finite, PathElements
  <2>4. DataOf(data, stk) = <<>>
    BY <2>3 DEF DataOf
  <2>5. Effect(stk, stk)
    BY <1>10, <2>1, <2>2, <2>4 DEF Effect
  <2> QED
    BY <1>10, <2>5 DEF Result
<1> QED
  BY <1>11, <1>12

\* old_head->next is read: it stays what it is while old_head is in the stack.
LEMMA PopReadNextStep ==
  ASSUME NEW stk, NEW kind, NEW who, Shape(stk, kind, who), NEW t \in Thread,
         PopReadNext(t), UNCHANGED hazardVars
  PROVE  Result(stk)
<1> USE DEF nodeVars, slotVars, hazardVars, workload
<1>1. /\ Types /\ VarTypes /\ ThreadTypes(t) /\ ThreadPop(t, kind, who)
      /\ Shared(stk, kind, who) /\ ThreadNodes(t, kind, who)
  BY DEF Shape, Types
<1>2. Others(t) /\ Types'
  BY <1>1, PopTypes DEF Pop
<1>3. /\ pc[t] = "pop_next" /\ pc'[t] = "pop_cas" /\ nxt'[t] = next[ptr[t]]
      /\ UNCHANGED <<popping, ending, head, next, data, alive, nodes_to_reclaim, list, hp, pointer,
                     ptr, res, i>>
  BY <1>1 DEF PopReadNext, Goto, VarTypes
<1>4. t \in popping /\ list[t] = <<>> /\ res[t] = None /\ Guarded(t, ptr[t], hp[t], kind, who)
  BY <1>1, <1>3 DEF ThreadTypes, InSweep, ThreadPop
<1>5. ~Owns(t) /\ ~Owns(t)' /\ ~Ended(t) /\ ~Takes(t) /\ ~Takes(t)'
  BY <1>3, <1>4 DEF Owns, HoldsOwn, Ended, Takes
<1>6. Alone(t)' <=> Alone(t)
  BY SMTT(20), <1>1, <1>2, <1>3 DEF VarTypes, Others, Alone
<1>7. PICK n \in Node, h \in Slot : n = ptr[t] /\ h = hp[t]
  BY <1>1, <1>3, Finite DEF VarTypes, ThreadTypes, InPop
<1>8. kind[n] \in {"own", "list"} =>
        who[n] \in Thread /\ pc'[who[n]] = pc[who[n]] /\ who[n] # t
  BY <1>1, <1>2, <1>4, <1>5, NothingHeld DEF Shared, Others
<1>9. Guarded(t, n, h, kind, who)'
  BY <1>3, <1>4, <1>6, <1>7, <1>8 DEF Guarded, Kept
<1>10. ThreadPop(t, kind, who)'
  <2>1. n = ptr'[t] /\ h = hp'[t]
    BY <1>3, <1>7
  <2>2. Guarded(t, ptr[t], hp[t], kind, who)'
    BY <1>9, <2>1 DEF Guarded, Kept
  <2> QED
    BY <1>3, <1>4, <2>2 DEF ThreadPop
<1>11. Shape(stk, kind, who)' /\ OthersTake(t) /\ DataOf(data', stk) = DataOf(data, stk)
  BY <1>2, <1>3, <1>4, <1>5, <1>10, EmptyHandedStep
<1>12. Effect(stk, stk)
  BY <1>2, <1>3, <1>5, <1>11, UnseenStep
<1> QED
  BY <1>11, <1>12 DEF Result

\* hp.store(nullptr): old_head is this thread's own by now.
LEMMA HpClearStep ==
  ASSUME NEW stk, NEW kind, NEW who, Shape(stk, kind, who), NEW t \in Thread, HpClear(t)
  PROVE  Result(stk)
<1> USE DEF nodeVars, workload
<1>1. /\ Types /\ VarTypes /\ ThreadTypes(t) /\ ThreadPop(t, kind, who)
      /\ ThreadNodes(t, kind, who)
  BY DEF Shape, Types
<1>2. Others(t) /\ Types'
  BY <1>1, PopTypes DEF Pop
<1>3. /\ pc[t] = "hp_clear" /\ pc'[t] = IF ptr[t] = Null THEN "idle" ELSE "pop_take"
      /\ UNCHANGED <<popping, ending, head, next, data, alive, nodes_to_reclaim, list, ptr, res>>
      /\ \A s \in Slot : pointer'[s] = pointer[s] \/ s = hp[t]
  BY <1>1 DEF HpClear, Goto, VarTypes
<1>4. t \in popping /\ list[t] = <<>> /\ (ptr[t] # Null => data[ptr[t]] \in Value)
  BY <1>1, <1>3 DEF ThreadTypes, InSweep, ThreadPop
<1>5. (Owns(t)' <=> Owns(t)) /\ ~Ended(t) /\ (Takes(t) <=> ptr[t] # Null) /\ (Takes(t)' <=> Takes(t))
  BY <1>3, <1>4 DEF Owns, HoldsOwn, Ended, Takes
<1>6. ThreadNodes(t, kind, who)'
  BY <1>1, <1>3, <1>5 DEF ThreadNodes
<1>7. ThreadPop(t, kind, who)'
  BY <1>3, <1>4 DEF ThreadPop
<1>8. HoldsOn(t, kind, who)
  <2> SUFFICES ASSUME NEW n \in Node, NEW h \in Slot, kind[n] \in {"own", "list"}, who[n] = t
               PROVE  Kept(n, h, kind, who)'
    BY DEF HoldsOn
  <2>1. Elements(list[t]) = {}
    BY <1>4, PathEmpty
  <2>2. kind[n] = "own" /\ Owns(t)
    BY <1>1, <2>1 DEF ThreadNodes
  <2>3. pc'[t] = "pop_take"
    BY <1>3, <2>2 DEF Owns, HoldsOwn
  <2> QED
    BY <2>2, <2>3 DEF Kept
<1>9. PointersKept(t)
  BY <1>1, <1>3, PointersStep
<1>10. Shape(stk, kind, who)' /\ OthersTake(t) /\ DataOf(data', stk) = DataOf(data, stk)
  BY <1>2, <1>3, <1>5, <1>6, <1>7, <1>8, <1>9, LocalStep
<1>11. Taken'[t] = Taken[t]
  BY <1>3, <1>5 DEF Taken, Takes
<1>12. Effect(stk, stk)
  BY <1>2, <1>10, <1>11, TakenOthers DEF Effect
<1> QED
  BY <1>10, <1>12 DEF Result

\* res.swap(old_head->data)
LEMMA PopTakeStep ==
  ASSUME NEW stk, NEW kind, NEW who, Shape(stk, kind, who), NEW t \in Thread, PopTake(t)
  PROVE  Result(stk)
<1>1. /\ Types /\ VarTypes /\ ThreadTypes(t) /\ ThreadPop(t, kind, who)
      /\ ThreadNodes(t, kind, who)
  BY DEF Shape, Types
<1>2. Others(t) /\ Types'
  BY <1>1, PopTypes DEF Pop
<1>3. /\ pc[t] = "pop_take" /\ pc'[t] = "scan_own" /\ i'[t] = 1 /\ res'[t] = data[ptr[t]]
      /\ UNCHANGED <<popping, ending, head, next, alive, nodes_to_reclaim, list, ptr, pointer>>
      /\ \A n \in Node : n = ptr[t] \/ data'[n] = data[n]
  BY <1>1 DEF PopTake, Scan, Goto, VarTypes, workload
<1>4. t \in popping /\ list[t] = <<>> /\ ptr[t] \in Node
  BY <1>1, <1>3 DEF ThreadTypes, InSweep
<1>5. Owns(t) /\ Owns(t)' /\ ~Ended(t) /\ Takes(t) /\ ~Takes(t)'
  BY <1>3, <1>4, Finite DEF Owns, HoldsOwn, Ended, Takes
<1>6. ThreadNodes(t, kind, who)'
  BY <1>1, <1>3, <1>5 DEF ThreadNodes
<1>7. ThreadPop(t, kind, who)'
  BY <1>3 DEF ThreadPop
<1>8. HoldsOn(t, kind, who)
  <2> SUFFICES ASSUME NEW n \in Node, NEW h \in Slot, kind[n] \in {"own", "list"}, who[n] = t
               PROVE  Kept(n, h, kind, who)'
    BY DEF HoldsOn
  <2>1. Elements(list[t]) = {}
    BY <1>4, PathEmpty
  <2>2. kind[n] = "own"
    BY <1>1, <2>1 DEF ThreadNodes
  <2>3. 1 <= h
    BY Finite
  <2> QED
    BY <1>3, <2>2, <2>3 DEF Kept
<1>9. PointersKept(t)
  BY <1>1, <1>3, PointersStep
<1>10. Shape(stk, kind, who)' /\ OthersTake(t) /\ DataOf(data', stk) = DataOf(data, stk)
  BY <1>2, <1>3, <1>5, <1>6, <1>7, <1>8, <1>9, LocalStep
<1>11. Taken'[t] = Taken[t]
  BY <1>3, <1>5 DEF Taken, Takes
<1>12. Effect(stk, stk)
  BY <1>2, <1>10, <1>11, TakenOthers DEF Effect
<1> QED
  BY <1>10, <1>12 DEF Result

\* The announcement of a node is found before the scan for it ends.
LEMMA ScanStep ==
  ASSUME NEW stk, NEW kind, NEW who, Shape(stk, kind, who), NEW t \in Thread,
         ScanOwn(t) \/ ScanList(t)
  PROVE  Result(stk)
<1> USE DEF nodeVars, workload, Goto, Leave
<1>1. /\ Types /\ VarTypes /\ ThreadTypes(t) /\ ThreadPop(t, kind, who)
      /\ ThreadNodes(t, kind, who)
  BY DEF Shape, Types
<1>2. Others(t) /\ Types'
  BY <1>1, OutstandingTypes
<1>3. /\ \/ pc[t] = "scan_own" /\ pc'[t] \in {"scan_own", "reclaim_later", "delete_own"}
         \/ pc[t] = "scan_list" /\ pc'[t] \in {"scan_list", "keep_node", "delete_node"}
      /\ UNCHANGED <<popping, ending, head, next, data, alive, nodes_to_reclaim, list, ptr, res,
                     pointer>>
  <2>1. CASE ScanOwn(t)
    BY <1>1, <2>1 DEF ScanOwn, Outstanding, VarTypes
  <2>2. CASE ScanList(t)
    BY <1>1, <2>2 DEF ScanList, Outstanding, VarTypes
  <2> QED
    BY <2>1, <2>2
<1>4. t \in popping
  BY <1>1, <1>3 DEF ThreadTypes
<1>5. (Owns(t)' <=> Owns(t)) /\ ~Ended(t) /\ ~Takes(t) /\ ~Takes(t)'
  BY <1>3, <1>4 DEF Owns, HoldsOwn, Ended, Takes
<1>6. ThreadNodes(t, kind, who)'
  BY <1>1, <1>3, <1>5 DEF ThreadNodes
<1>7. ThreadPop(t, kind, who)'
  BY <1>3 DEF ThreadPop
<1>8. ASSUME NEW n, pointer[i[t]] # n \/ pc'[t] \in {"reclaim_later", "keep_node"},
             \/ pointer[i[t]] = n
             \/ pc'[t] \in {"scan_own", "scan_list"} /\ i'[t] = i[t] + 1
             \/ i[t] = MaxPtr,
             NEW h \in Slot, pointer[h] = n, i[t] <= h
      PROVE  \/ pc'[t] \in {"reclaim_later", "keep_node"}
             \/ pc'[t] \in {"scan_own", "scan_list"} /\ i'[t] <= h
  <2>1. i[t] \in Nat /\ h \in Nat /\ h <= MaxPtr /\ MaxPtr \in Nat
    BY <1>1, Finite DEF VarTypes
  <2>2. CASE i[t] = h
    BY <1>8, <2>2
  <2>3. CASE i[t] # h
    BY <1>8, <2>1, <2>3
  <2> QED
    BY <2>2, <2>3
<1>9. HoldsOn(t, kind, who)
  <2> SUFFICES ASSUME NEW n \in Node, NEW h \in Slot, kind[n] \in {"own", "list"}, who[n] = t,
                      pointer[h] = n, Kept(n, h, kind, who)
               PROVE  Kept(n, h, kind, who)'
    BY DEF HoldsOn
  <2>1. CASE ScanOwn(t)
    <3>1. pc[t] = "scan_own" /\ Owns(t) /\ list[t] = <<>>
      BY <1>1, <2>1 DEF ScanOwn, Owns, HoldsOwn, ThreadTypes, InSweep
    <3>2. Elements(list[t]) = {}
      BY <3>1, PathEmpty
    <3>3. kind[n] = "own" /\ n = ptr[t] /\ i[t] <= h
      BY <1>1, <3>1, <3>2 DEF ThreadNodes, Kept
    <3>4. pc'[t] = "reclaim_later" \/ (pc'[t] = "scan_own" /\ i'[t] <= h)
      <4>1. \/ pointer[i[t]] = n /\ pc'[t] = "reclaim_later"
            \/ pointer[i[t]] # n /\ pc'[t] = "scan_own" /\ i'[t] = i[t] + 1
            \/ pointer[i[t]] # n /\ i[t] = MaxPtr
        BY <1>1, <2>1, <3>1, <3>3 DEF ScanOwn, Outstanding, VarTypes
      <4> QED
        BY <1>3, <1>8, <3>1, <3>3, <4>1
    <3> QED
      BY <3>3, <3>4 DEF Kept
  <2>2. CASE ScanList(t)
    <3>1. pc[t] = "scan_list" /\ ~Owns(t)
      BY <2>2 DEF ScanList, Owns, HoldsOwn
    <3>2. kind[n] = "list"
      BY <1>1, <3>1 DEF ThreadNodes
    <3>3. n = Head(list[t]) => i[t] <= h
      BY <3>1, <3>2 DEF Kept
    <3>4. n = Head(list[t]) => pc'[t] = "keep_node" \/ (pc'[t] = "scan_list" /\ i'[t] <= h)
      <4> SUFFICES ASSUME n = Head(list[t])
                   PROVE  pc'[t] = "keep_node" \/ (pc'[t] = "scan_list" /\ i'[t] <= h)
        OBVIOUS
      <4>1. \/ pointer[i[t]] = n /\ pc'[t] = "keep_node"
            \/ pointer[i[t]] # n /\ pc'[t] = "scan_list" /\ i'[t] = i[t] + 1
            \/ pointer[i[t]] # n /\ i[t] = MaxPtr
        BY <1>1, <2>2, <3>1 DEF ScanList, Outstanding, VarTypes
      <4> QED
        BY <1>3, <1>8, <3>1, <3>3, <4>1
    <3> QED
      BY <1>3, <3>2, <3>4 DEF Kept
  <2> QED
    BY <2>1, <2>2
<1>10. PointersKept(t)
  BY <1>1, <1>3, PointersStep
<1>11. Shape(stk, kind, who)' /\ OthersTake(t) /\ DataOf(data', stk) = DataOf(data, stk)
  BY <1>2, <1>3, <1>5, <1>6, <1>7, <1>9, <1>10, LocalStep
<1>12. Effect(stk, stk)
  BY <1>2, <1>3, <1>5, <1>11, UnseenStep
<1> QED
  BY <1>11, <1>12 DEF Result

\* The slot is given up, but not yet cleared.
LEMMA ExitIdStep ==
  ASSUME NEW stk, NEW kind, NEW who, Shape(stk, kind, who), NEW t \in Thread, ExitId(t)
  PROVE  Result(stk)
<1>1. Types /\ VarTypes /\ ThreadTypes(t)
  BY DEF Shape, Types
<1>2. Others(t) /\ Types'
  BY <1>1, ExitTypes DEF Exit
<1>3. /\ pc[t] = "idle" /\ pc'[t] = "exit" /\ hp[t] # 0
      /\ UNCHANGED <<popping, ending, head, next, data, alive, nodes_to_reclaim, list, res, pointer>>
  BY <1>1 DEF ExitId, Goto, VarTypes, nodeVars, workload
<1>4. t \in popping /\ list[t] = <<>>
  BY <1>1, <1>3 DEF ThreadTypes, InSweep
<1>5. ~Owns(t) /\ ~Owns(t)' /\ ~Ended(t) /\ ~Takes(t) /\ ~Takes(t)'
  BY <1>3, <1>4 DEF Owns, HoldsOwn, Ended, Takes
<1>6. ThreadPop(t, kind, who)'
  BY <1>3 DEF ThreadPop
<1>7. Shape(stk, kind, who)' /\ OthersTake(t) /\ DataOf(data', stk) = DataOf(data, stk)
  BY <1>2, <1>3, <1>4, <1>5, <1>6, EmptyHandedStep
<1>8. Effect(stk, stk)
  BY <1>2, <1>3, <1>5, <1>7, UnseenStep
<1> QED
  BY <1>7, <1>8 DEF Result

\* The slot is cleared.  Another thread may own it by now and follow what it has announced
\* in it, but then that thread is the only one left that could delete anything.
LEMMA ExitPointerStep ==
  ASSUME NEW stk, NEW kind, NEW who, Shape(stk, kind, who), NEW t \in Thread, ExitPointer(t)
  PROVE  Result(stk)
<1>1. /\ Types /\ VarTypes /\ ThreadTypes(t) /\ ThreadNodes(t, kind, who)
      /\ Shared(stk, kind, who) /\ Few
  BY DEF Shape, Types
<1>2. Others(t) /\ Types'
  BY <1>1, ExitTypes DEF Exit
<1>3. /\ pc[t] = "exit" /\ pc'[t] = "exited" /\ hp[t] # 0
      /\ UNCHANGED <<popping, ending, head, next, data, alive, nodes_to_reclaim, list, res>>
      /\ \A s \in Slot : pointer'[s] = pointer[s] \/ s = hp[t]
  BY <1>1 DEF ExitPointer, Goto, VarTypes, ThreadTypes, nodeVars, workload
<1>4. t \in popping /\ list[t] = <<>> /\ ending
  BY <1>1, <1>3 DEF ThreadTypes, InSweep
<1>5. ~Owns(t) /\ ~Owns(t)' /\ ~Takes(t) /\ ~Takes(t)'
  BY <1>3 DEF Owns, HoldsOwn, Takes
<1>6. ThreadNodes(t, kind, who)'
  BY <1>1, <1>3, <1>5 DEF ThreadNodes
<1>7. ThreadPop(t, kind, who)'
  BY <1>3 DEF ThreadPop
<1>8. Shared(stk, kind, who)' /\ DataOf(data', stk) = DataOf(data, stk)
  BY <1>1, <1>3, SharedKept
<1>9. Apart(t, kind, who, kind, who)
  BY <1>3 DEF Apart
<1>10. ASSUME NEW u \in Thread, u # t, pc[u] \in InPop PROVE Alone(u)'
  <2>1. u \in popping
    BY <1>1, <1>10 DEF Types, ThreadTypes, InPop
  <2>2. \A w \in popping : w = u \/ w = t
    BY <1>1, <1>4, <1>10, <2>1 DEF Few
  <2> QED
    BY <1>3, <1>4, <2>2 DEF Alone
<1>11. ASSUME NEW u \in Thread, NEW n \in Node, NEW h \in Slot, u # t,
              pc[u] \in {"pop_next", "pop_cas"}, Kept(n, h, kind, who)
       PROVE  kind[n] \in {"stack", "pending"}
  <2> SUFFICES ASSUME kind[n] \in {"own", "list"} PROVE FALSE
    BY <1>11 DEF Kept
  <2>1. PICK w \in Thread : w = who[n]
    BY <1>1 DEF Shared
  <2>2. ThreadNodes(w, kind, who) /\ ThreadTypes(w)
    BY DEF Shape, Types
  <2>3. kind[n] = "own" => pc[w] \in {"hp_clear", "pop_take", "reclaim_later", "scan_own"}
    BY <1>11, <2>1 DEF Kept
  <2>4. kind[n] = "list" => pc[w] \in InSweep
    <3>1. list[w] = <<>> => Elements(list[w]) = {}
      BY PathEmpty
    <3> QED
      BY <2>1, <2>2, <3>1 DEF ThreadNodes, ThreadTypes
  <2>5. /\ w \in popping /\ w # t /\ w # u
    BY <1>3, <1>11, <2>2, <2>3, <2>4 DEF ThreadTypes, InSweep
  <2>6. u \in popping
    BY <1>1, <1>11 DEF Types, ThreadTypes
  <2> QED
    BY <1>1, <1>4, <1>11, <2>5, <2>6 DEF Few
<1>12. Spared(t, kind, who, kind, who)
  <2> SUFFICES ASSUME NEW u \in Thread, NEW n \in Node, NEW h \in Slot, u # t,
                      pc[u] \in {"pop_next", "pop_cas"}, Guarded(u, n, h, kind, who)
               PROVE  Guarded(u, n, h, kind, who)'
    BY <1>3 DEF Spared
  <2>1. kind[n] \in {"stack", "pending"}
    BY <1>11 DEF Guarded
  <2>2. Alone(u)'
    BY <1>10 DEF InPop
  <2> QED
    BY <2>1, <2>2 DEF Guarded, Kept
<1>13. Announced(t)
  BY <1>10 DEF Announced, InPop
<1>14. Shape(stk, kind, who)' /\ OthersTake(t)
  BY <1>2, <1>3, <1>6, <1>7, <1>8, <1>9, <1>12, <1>13, MoveStep
<1>15. Effect(stk, stk)
  BY <1>2, <1>3, <1>5, <1>8, <1>14, UnseenStep
<1> QED
  BY <1>14, <1>15 DEF Result

-----------------------------------------------------------------------------
(* Steps that move nodes from one place to another. *)

\* new node: free before.
LEMMA PushCallStep ==
  ASSUME NEW stk, NEW kind, NEW who, Shape(stk, kind, who),
         NEW t \in Thread, NEW v \in Value, PushCall(t, v), UNCHANGED hazardVars
  PROVE  Result(stk)
<1> USE DEF slotVars, hazardVars, workload
<1>1. /\ Types /\ VarTypes /\ ThreadTypes(t) /\ ThreadNodes(t, kind, who)
      /\ Shared(stk, kind, who)
  BY DEF Shape, Types
<1>2. Others(t) /\ Types'
  BY <1>1, PushTypes
<1>3. PICK n \in Node \ alive : /\ alive' = alive \cup {n}
                                /\ data' = [data EXCEPT ![n] = v]
                                /\ next' = [next EXCEPT ![n] = head]
                                /\ ptr' = [ptr EXCEPT ![t] = n]
  BY DEF PushCall
<1>4. PICK kind2, who2 : kind2 = [kind EXCEPT ![n] = "own"] /\ who2 = [who EXCEPT ![n] = t]
  OBVIOUS
<1>5. /\ pc[t] = "idle" /\ pc'[t] = "push_cas" /\ ptr'[t] = n
      /\ UNCHANGED <<popping, ending, head, nodes_to_reclaim, list, res, pointer, hp>>
  BY <1>1, <1>3 DEF PushCall, Goto, VarTypes
<1>6. ~Owns(t) /\ Owns(t)' /\ ~Takes(t) /\ ~Takes(t)' /\ list[t] = <<>> /\ EndsKept(t)
  BY <1>1, <1>5 DEF Owns, HoldsOwn, Takes, ThreadTypes, InSweep, EndsKept
<1>7. /\ kind[n] = "free" /\ kind2[n] = "own" /\ who2[n] = t /\ data'[n] = v
      /\ \A m \in Node : m # n => /\ kind2[m] = kind[m] /\ who2[m] = who[m]
                                  /\ next'[m] = next[m] /\ data'[m] = data[m]
  BY <1>1, <1>3, <1>4 DEF Shared, VarTypes
<1>8. Shared(stk, kind2, who2)' /\ DataOf(data', stk) = DataOf(data, stk)
  <2>1. n \notin Elements(stk) /\ Elements(stk) \subseteq Node
    BY <1>1, <1>7 DEF Shared
  <2>2. DOMAIN next = Node /\ DOMAIN next' = Node
    BY <1>1, <1>3 DEF VarTypes
  <2>3. Path(Null, next', head', stk)
    BY <1>1, <1>5, <1>7, <2>1, <2>2, PathKept DEF Shared
  <2>4. DataOf(data', stk) = DataOf(data, stk)
    BY <1>7, <2>1, DataKept
  <2>5. alive' = {m \in Node : kind2[m] # "free"}
    BY <1>1, <1>3, <1>7 DEF Shared
  <2>6. /\ kind2 \in [Node -> {"free", "stack", "pending", "own", "list"}]
        /\ who2 \in [Node -> Thread \cup {Null}]
    BY <1>1, <1>4 DEF Shared
  <2>7. /\ \A m \in Node : kind2[m] \in {"own", "list"} => who2[m] \in Thread
        /\ \A m \in Node : kind2[m] = "stack" => data'[m] \in Value
    BY <1>1, <1>7 DEF Shared
  <2>8. /\ Elements(stk) = {m \in Node : kind2[m] = "stack"}
        /\ Elements(nodes_to_reclaim) = {m \in Node : kind2[m] = "pending"}
    BY <1>1, <1>7 DEF Shared
  <2> QED
    BY <1>1, <1>5, <2>3, <2>4, <2>5, <2>6, <2>7, <2>8 DEF Shared
<1>9. ThreadNodes(t, kind2, who2)'
  <2>1. {m \in Node : kind2[m] = "own" /\ who2[m] = t} = {n}
    BY <1>1, <1>6, <1>7 DEF ThreadNodes
  <2>2. {m \in Node : kind2[m] = "list" /\ who2[m] = t} = {m \in Node : kind[m] = "list" /\ who[m] = t}
    BY <1>7
  <2> QED
    BY <1>1, <1>5, <1>6, <2>1, <2>2 DEF ThreadNodes
<1>10. ThreadPop(t, kind2, who2)'
  BY <1>5, <1>7 DEF ThreadPop
<1>11. Apart(t, kind, who, kind2, who2)
  BY <1>7 DEF Apart
<1>12. \A m \in Node : kind[m] \in {"own", "list"} => who[m] \in Thread /\ who[m] # t
  BY <1>1, <1>6, NothingHeld DEF Shared
<1>13. ASSUME NEW m \in Node, NEW h \in Slot PROVE NodeSpared(t, m, h, kind, who, kind2, who2)
  <2>1. CASE m = n
    BY <1>7, <2>1 DEF NodeSpared, Kept
  <2>2. CASE m # n
    BY <1>2, <1>7, <1>12, <2>2, NodeStays
  <2> QED
    BY <2>1, <2>2
<1>14. PointersKept(t)
  BY <1>5 DEF PointersKept
<1>15. Spared(t, kind, who, kind2, who2) /\ Announced(t)
  BY <1>1, <1>2, <1>5, <1>6, <1>13, <1>14, SparedStep
<1>16. Shape(stk, kind2, who2)' /\ OthersTake(t)
  BY <1>2, <1>5, <1>8, <1>9, <1>10, <1>11, <1>15, MoveStep
<1>17. Effect(stk, stk)
  BY <1>2, <1>5, <1>6, <1>8, <1>16, UnseenStep
<1> QED
  BY <1>16, <1>17 DEF Result

\* What a thread has while it pushes: its node, and no list.
LEMMA Pushing ==
  ASSUME NEW stk, NEW kind, NEW who, Shape(stk, kind, who), NEW t \in Thread, pc[t] = "push_cas"
  PROVE  /\ ptr[t] \in Node /\ kind[ptr[t]] = "own" /\ who[ptr[t]] = t /\ data[ptr[t]] \in Value
         /\ \A m \in Node : kind[m] \in {"own", "list"} /\ who[m] = t => m = ptr[t]
         /\ \A h : ~Kept(ptr[t], h, kind, who)
<1>1. ThreadNodes(t, kind, who) /\ ThreadPop(t, kind, who) /\ ThreadTypes(t)
  BY DEF Shape, Types
<1>2. Owns(t) /\ list[t] = <<>>
  BY <1>1 DEF Owns, ThreadTypes, InSweep
<1>3. Elements(list[t]) = {}
  BY <1>2, PathEmpty
<1>4. {m \in Node : kind[m] = "own" /\ who[m] = t} = {ptr[t]}
  BY <1>1, <1>2 DEF ThreadNodes
<1>5. {m \in Node : kind[m] = "list" /\ who[m] = t} = {}
  BY <1>1, <1>3 DEF ThreadNodes
<1>6. ptr[t] \in {m \in Node : kind[m] = "own" /\ who[m] = t}
  BY <1>4
<1>7. \A m \in Node : kind[m] \in {"own", "list"} /\ who[m] = t => m = ptr[t]
  BY <1>4, <1>5
<1>8. \A h : ~Kept(ptr[t], h, kind, who)
  BY <1>6 DEF Kept
<1> QED
  BY <1>1, <1>6, <1>7, <1>8 DEF ThreadPop

\* The exchange of push: the node goes on top of the stack.
LEMMA PushStep ==
  ASSUME NEW stk, NEW kind, NEW who, Shape(stk, kind, who),
         NEW t \in Thread, PushCas(t), UNCHANGED hazardVars, head = next[ptr[t]]
  PROVE  Result(stk)
<1> USE DEF slotVars, hazardVars, workload
<1>1. /\ Types /\ VarTypes /\ ThreadTypes(t) /\ ThreadNodes(t, kind, who)
      /\ Shared(stk, kind, who)
  BY DEF Shape, Types
<1>2. Others(t) /\ Types'
  BY <1>1, PushTypes
<1>3. /\ pc[t] = "push_cas" /\ pc'[t] = "idle" /\ ptr'[t] = Null /\ head' = ptr[t]
      /\ UNCHANGED <<popping, ending, next, data, alive, nodes_to_reclaim, list, res, pointer>>
  BY <1>1 DEF PushCas, Return, Goto, VarTypes
<1>4. PICK n \in Node : /\ n = ptr[t] /\ kind[n] = "own" /\ who[n] = t /\ data[n] \in Value
                        /\ \A m \in Node : kind[m] \in {"own", "list"} /\ who[m] = t => m = n
                        /\ \A h \in Slot : ~Kept(n, h, kind, who)
  BY <1>3, Pushing
<1>5. PICK kind2, stk2 : kind2 = [kind EXCEPT ![n] = "stack"] /\ stk2 = <<n>> \o stk
  OBVIOUS
<1>6. ~Owns(t)' /\ ~Takes(t) /\ ~Takes(t)' /\ EndsKept(t)
  BY <1>3 DEF Owns, HoldsOwn, Takes, EndsKept
<1>7. kind2[n] = "stack" /\ \A m \in Node : m # n => kind2[m] = kind[m]
  BY <1>1, <1>5 DEF Shared
<1>8. /\ Path(Null, next, n, stk2) /\ Elements(stk2) = Elements(stk) \cup {n}
      /\ DataOf(data, stk2) = <<data[n]>> \o DataOf(data, stk)
  <2>1. n \notin Elements(stk)
    BY <1>1, <1>4 DEF Shared
  <2>2. DOMAIN next = Node /\ DOMAIN data = Node
    BY <1>1 DEF VarTypes
  <2>3. Path(Null, next, head, stk) /\ head = next[n]
    BY <1>1, <1>4 DEF Shared
  <2>4. stk \in Seq(Node)
    BY <2>2, <2>3, Finite, PathElements
  <2>5. Path(Null, next, n, stk2) /\ Elements(stk2) = Elements(stk) \cup {n}
    BY <1>5, <2>1, <2>2, <2>3, Finite, PathCons
  <2>6. DataOf(data, stk2) = <<data[n]>> \o DataOf(data, stk)
    BY <1>5, <2>2, <2>4, DataCons
  <2> QED
    BY <2>5, <2>6
<1>9. Shared(stk2, kind2, who)'
  <2>1. kind2 \in [Node -> {"free", "stack", "pending", "own", "list"}]
    BY <1>1, <1>5 DEF Shared
  <2>2. alive' = {m \in Node : kind2[m] # "free"}
    BY <1>1, <1>3, <1>4, <1>7 DEF Shared
  <2>3. /\ Elements(stk2) = {m \in Node : kind2[m] = "stack"}
        /\ Elements(nodes_to_reclaim) = {m \in Node : kind2[m] = "pending"}
    BY <1>1, <1>4, <1>7, <1>8 DEF Shared
  <2>4. /\ \A m \in Node : kind2[m] \in {"own", "list"} => who[m] \in Thread
        /\ \A m \in Node : kind2[m] = "stack" => data[m] \in Value
    BY <1>1, <1>4, <1>7 DEF Shared
  <2> QED
    BY <1>1, <1>3, <1>4, <1>8, <2>1, <2>2, <2>3, <2>4 DEF Shared
<1>10. ThreadNodes(t, kind2, who)'
  <2>1. {m \in Node : kind2[m] = "own" /\ who[m] = t} = {}
    BY <1>4, <1>7
  <2>2. {m \in Node : kind2[m] = "list" /\ who[m] = t} = {m \in Node : kind[m] = "list" /\ who[m] = t}
    BY <1>4, <1>7
  <2> QED
    BY <1>1, <1>3, <1>6, <2>1, <2>2 DEF ThreadNodes
<1>11. ThreadPop(t, kind2, who)'
  BY <1>3 DEF ThreadPop
<1>12. Apart(t, kind, who, kind2, who)
  BY <1>3, <1>4, <1>7 DEF Apart
<1>13. ASSUME NEW m \in Node, NEW h \in Slot PROVE NodeSpared(t, m, h, kind, who, kind2, who)
  <2>1. CASE m = n
    BY <1>4, <1>7, <2>1 DEF NodeSpared
  <2>2. CASE m # n
    <3>1. kind[m] \in {"own", "list"} => who[m] \in Thread /\ who[m] # t
      BY <1>1, <1>4, <2>2 DEF Shared
    <3> QED
      BY <1>2, <1>3, <1>7, <2>2, <3>1, NodeStays
  <2> QED
    BY <2>1, <2>2
<1>14. PointersKept(t)
  BY <1>3 DEF PointersKept
<1>15. Spared(t, kind, who, kind2, who) /\ Announced(t)
  BY <1>1, <1>2, <1>3, <1>6, <1>13, <1>14, SparedStep
<1>16. Shape(stk2, kind2, who)' /\ OthersTake(t)
  BY <1>2, <1>3, <1>9, <1>10, <1>11, <1>12, <1>15, MoveStep
<1>17. Taken'[t] = Taken[t]
  BY <1>3, <1>6 DEF Taken, Takes
<1>18. Taken' = Taken
  BY <1>2, <1>16, <1>17, TakenOthers
<1>19. Effect(stk, stk2)
  <2>1. DataOf(data', stk2) = <<data[n]>> \o DataOf(data, stk)
    BY <1>3, <1>8
  <2> QED
    BY <1>4, <1>18, <2>1 DEF Effect
<1> QED
  BY <1>16, <1>19 DEF Result

\* The exchange of push fails: the node is linked to the new head.
LEMMA PushRetryStep ==
  ASSUME NEW stk, NEW kind, NEW who, Shape(stk, kind, who),
         NEW t \in Thread, PushCas(t), UNCHANGED hazardVars, head # next[ptr[t]]
  PROVE  Result(stk)
<1> USE DEF slotVars, hazardVars, workload
<1>1. /\ Types /\ VarTypes /\ ThreadTypes(t) /\ ThreadNodes(t, kind, who)
      /\ Shared(stk, kind, who) /\ ThreadPop(t, kind, who)
  BY DEF Shape, Types
<1>2. Others(t) /\ Types'
  BY <1>1, PushTypes
<1>3. /\ pc[t] = "push_cas" /\ next' = [next EXCEPT ![ptr[t]] = head]
      /\ UNCHANGED <<popping, ending, head, data, alive, nodes_to_reclaim, list, res, pointer, pc, ptr>>
  BY DEF PushCas
<1>4. PICK n \in Node : /\ n = ptr[t] /\ kind[n] = "own" /\ who[n] = t /\ data[n] \in Value
                        /\ \A m \in Node : kind[m] \in {"own", "list"} /\ who[m] = t => m = n
                        /\ \A h \in Slot : ~Kept(n, h, kind, who)
  BY <1>3, Pushing
<1>5. \A m \in Node : m # n => next'[m] = next[m]
  BY <1>1, <1>3, <1>4 DEF VarTypes
<1>6. (Owns(t)' <=> Owns(t)) /\ ~Takes(t) /\ ~Takes(t)' /\ EndsKept(t)
  BY <1>3 DEF Owns, HoldsOwn, Takes, EndsKept
<1>7. Shared(stk, kind, who)' /\ DataOf(data', stk) = DataOf(data, stk)
  <2>1. DOMAIN next' = DOMAIN next
    BY <1>3
  <2> QED
    BY <1>1, <1>3, <1>4, <1>5, <2>1, SharedKept
<1>8. ThreadNodes(t, kind, who)' /\ ThreadPop(t, kind, who)'
  <2>1. ThreadNodes(t, kind, who)'
    BY <1>1, <1>3, <1>6 DEF ThreadNodes
  <2>2. ThreadPop(t, kind, who)'
    BY <1>1, <1>3 DEF ThreadPop
  <2> QED
    BY <2>1, <2>2
<1>9. Apart(t, kind, who, kind, who)
  BY <1>3 DEF Apart
<1>10. ASSUME NEW m \in Node, NEW h \in Slot PROVE NodeSpared(t, m, h, kind, who, kind, who)
  <2>1. CASE m = n
    BY <1>4, <2>1 DEF NodeSpared
  <2>2. CASE m # n
    <3>1. kind[m] \in {"own", "list"} => who[m] \in Thread /\ who[m] # t
      BY <1>1, <1>4, <2>2 DEF Shared
    <3> QED
      BY <1>2, <1>5, <2>2, <3>1, NodeStays
  <2> QED
    BY <2>1, <2>2
<1>11. PointersKept(t)
  BY <1>3 DEF PointersKept
<1>12. Spared(t, kind, who, kind, who) /\ Announced(t)
  BY <1>1, <1>2, <1>3, <1>6, <1>10, <1>11, SparedStep
<1>13. Shape(stk, kind, who)' /\ OthersTake(t)
  BY <1>2, <1>3, <1>7, <1>8, <1>9, <1>12, MoveStep
<1>14. Effect(stk, stk)
  BY <1>2, <1>3, <1>6, <1>7, <1>13, UnseenStep
<1> QED
  BY <1>13, <1>14 DEF Result

\* The exchange of pop: the node on top of the stack becomes the thread's own.
LEMMA UnlinkStep ==
  ASSUME NEW stk, NEW kind, NEW who, Shape(stk, kind, who),
         NEW t \in Thread, PopUnlink(t, "hp_clear"), UNCHANGED hazardVars
  PROVE  Result(stk)
<1> USE DEF slotVars, hazardVars, workload
<1>1. /\ Types /\ VarTypes /\ ThreadTypes(t) /\ ThreadNodes(t, kind, who)
      /\ Shared(stk, kind, who) /\ ThreadPop(t, kind, who)
  BY DEF Shape, Types
<1>2. Others(t) /\ Types'
  BY <1>1, PopTypes DEF Pop
<1>3. /\ pc[t] = "pop_cas" /\ pc'[t] = "hp_clear" /\ head = ptr[t] /\ head' = nxt[t]
      /\ UNCHANGED <<popping, ending, next, data, alive, nodes_to_reclaim, list, res, pointer, ptr>>
  BY <1>1 DEF PopUnlink, Goto, VarTypes
<1>4. /\ ptr[t] \in Node /\ res[t] = None /\ list[t] = <<>> /\ t \in popping
      /\ kind[ptr[t]] = "stack" => nxt[t] = next[ptr[t]]
  BY <1>1, <1>3 DEF ThreadTypes, ThreadPop, InSweep
<1>5. DOMAIN next = Node /\ DOMAIN data = Node /\ Path(Null, next, head, stk)
  BY <1>1 DEF VarTypes, Shared
<1>6. PICK n \in Node : n = ptr[t] /\ n = head /\ n # Null
  BY <1>3, <1>4, Finite
<1>7. PICK kind2, who2, stk2 : /\ kind2 = [kind EXCEPT ![n] = "own"]
                               /\ who2 = [who EXCEPT ![n] = t]
                               /\ stk2 = Tail(stk)
  OBVIOUS
<1>8. /\ stk # <<>> /\ n = stk[1] /\ n \in Elements(stk) /\ stk \in Seq(Node)
      /\ Path(Null, next, next[n], stk2) /\ Elements(stk2) = Elements(stk) \ {n}
  BY <1>5, <1>6, <1>7, Finite, PathTail, PathElements
<1>9. kind[n] = "stack" /\ head' = next[n] /\ data[n] \in Value
  BY <1>1, <1>3, <1>4, <1>6, <1>8 DEF Shared
<1>10. ~Owns(t) /\ Owns(t)' /\ ~Takes(t) /\ Takes(t)' /\ ~Ended(t) /\ EndsKept(t)
  BY <1>3, <1>4, <1>6 DEF Owns, HoldsOwn, Takes, Ended, EndsKept
<1>11. /\ kind2[n] = "own" /\ who2[n] = t
       /\ \A m \in Node : m # n => kind2[m] = kind[m] /\ who2[m] = who[m]
  BY <1>1, <1>7 DEF Shared
<1>12. Shared(stk2, kind2, who2)'
  <2>1. /\ kind2 \in [Node -> {"free", "stack", "pending", "own", "list"}]
        /\ who2 \in [Node -> Thread \cup {Null}]
    BY <1>1, <1>7 DEF Shared
  <2>2. alive' = {m \in Node : kind2[m] # "free"}
    BY <1>1, <1>3, <1>9, <1>11 DEF Shared
  <2>3. /\ Elements(stk2) = {m \in Node : kind2[m] = "stack"}
        /\ Elements(nodes_to_reclaim) = {m \in Node : kind2[m] = "pending"}
    BY <1>1, <1>8, <1>9, <1>11 DEF Shared
  <2>4. /\ \A m \in Node : kind2[m] \in {"own", "list"} => who2[m] \in Thread
        /\ \A m \in Node : kind2[m] = "stack" => data[m] \in Value
    BY <1>1, <1>11 DEF Shared
  <2> QED
    BY <1>1, <1>3, <1>8, <1>9, <2>1, <2>2, <2>3, <2>4 DEF Shared
<1>13. ThreadNodes(t, kind2, who2)'
  <2>1. {m \in Node : kind2[m] = "own" /\ who2[m] = t} = {n}
    BY <1>1, <1>10, <1>11 DEF ThreadNodes
  <2>2. {m \in Node : kind2[m] = "list" /\ who2[m] = t} = {m \in Node : kind[m] = "list" /\ who[m] = t}
    BY <1>9, <1>11
  <2> QED
    BY <1>1, <1>3, <1>6, <1>10, <2>1, <2>2 DEF ThreadNodes
<1>14. ThreadPop(t, kind2, who2)'
  BY <1>3, <1>6, <1>9 DEF ThreadPop
<1>15. Apart(t, kind, who, kind2, who2)
  BY <1>3, <1>9, <1>11 DEF Apart
<1>16. ASSUME NEW m \in Node, NEW h \in Slot PROVE NodeSpared(t, m, h, kind, who, kind2, who2)
  <2>1. CASE m = n
    BY <1>3, <1>10, <1>11, <2>1 DEF NodeSpared, Kept
  <2>2. CASE m # n
    <3>1. kind[m] \in {"own", "list"} => who[m] \in Thread /\ who[m] # t
      BY <1>1, <1>4, <1>10, NothingHeld DEF Shared
    <3> QED
      BY <1>2, <1>3, <1>11, <2>2, <3>1, NodeStays
  <2> QED
    BY <2>1, <2>2
<1>17. PointersKept(t)
  BY <1>3 DEF PointersKept
<1>18. Spared(t, kind, who, kind2, who2) /\ Announced(t)
  BY <1>1, <1>2, <1>3, <1>10, <1>16, <1>17, SparedStep
<1>19. Shape(stk2, kind2, who2)' /\ OthersTake(t)
  BY <1>2, <1>3, <1>12, <1>13, <1>14, <1>15, <1>18, MoveStep
<1>20. Effect(stk, stk2)
  <2>1. Taken'[t] = data[n] /\ Taken[t] = None
    BY <1>3, <1>4, <1>6, <1>10 DEF Taken, Takes
  <2>2. Taken' = [Taken EXCEPT ![t] = data[n]]
    BY <1>2, <1>19, <2>1, TakenOthers
  <2>3. /\ DataOf(data, stk) # <<>> /\ Head(DataOf(data, stk)) = data[n]
        /\ DataOf(data', stk2) = Tail(DataOf(data, stk))
    BY <1>3, <1>5, <1>7, <1>8, DataTail
  <2> QED
    BY <2>1, <2>2, <2>3 DEF Effect
<1> QED
  BY <1>19, <1>20 DEF Result

\* What a thread has when its scan for old_head is over: this node, and no list.
LEMMA Scanned ==
  ASSUME NEW stk, NEW kind, NEW who, Shape(stk, kind, who), NEW t \in Thread,
         pc[t] \in {"reclaim_later", "delete_own"}
  PROVE  /\ ptr[t] \in Node /\ kind[ptr[t]] = "own" /\ who[ptr[t]] = t /\ list[t] = <<>>
         /\ t \in popping
         /\ \A m \in Node : kind[m] \in {"own", "list"} /\ who[m] = t => m = ptr[t]
         /\ pc[t] = "delete_own" => \A h : ~Kept(ptr[t], h, kind, who)
<1>1. ThreadNodes(t, kind, who) /\ ThreadTypes(t)
  BY DEF Shape, Types
<1>2. Owns(t) /\ list[t] = <<>> /\ t \in popping
  BY <1>1 DEF Owns, HoldsOwn, ThreadTypes, InSweep
<1>3. Elements(list[t]) = {}
  BY <1>2, PathEmpty
<1>4. {m \in Node : kind[m] = "own" /\ who[m] = t} = {ptr[t]}
  BY <1>1, <1>2 DEF ThreadNodes
<1>5. {m \in Node : kind[m] = "list" /\ who[m] = t} = {}
  BY <1>1, <1>3 DEF ThreadNodes
<1>6. ptr[t] \in {m \in Node : kind[m] = "own" /\ who[m] = t}
  BY <1>4
<1>7. \A m \in Node : kind[m] \in {"own", "list"} /\ who[m] = t => m = ptr[t]
  BY <1>4, <1>5
<1>8. pc[t] = "delete_own" => \A h : ~Kept(ptr[t], h, kind, who)
  BY <1>6 DEF Kept
<1> QED
  BY <1>2, <1>6, <1>7, <1>8

\* The thread's own node is put in front of nodes_to_reclaim.
LEMMA ReclaimLaterStep ==
  ASSUME NEW stk, NEW kind, NEW who, Shape(stk, kind, who), NEW t \in Thread, ReclaimLater(t)
  PROVE  Result(stk)
<1>1. /\ Types /\ VarTypes /\ ThreadTypes(t) /\ ThreadNodes(t, kind, who)
      /\ Shared(stk, kind, who)
  BY DEF Shape, Types
<1>2. Others(t) /\ Types'
  BY <1>1, OwnTypes
<1>3. /\ pc[t] = "reclaim_later" /\ pc'[t] = "exchange" /\ ptr'[t] = Null
      /\ nodes_to_reclaim' = <<ptr[t]>> \o nodes_to_reclaim
      /\ UNCHANGED <<popping, ending, head, next, data, alive, list, res, pointer>>
  BY <1>1 DEF ReclaimLater, Goto, VarTypes, nodeVars, workload
<1>4. PICK n \in Node : /\ n = ptr[t] /\ kind[n] = "own" /\ who[n] = t /\ t \in popping
                        /\ \A m \in Node : kind[m] \in {"own", "list"} /\ who[m] = t => m = n
  BY <1>3, Scanned
<1>5. PICK kind2 : kind2 = [kind EXCEPT ![n] = "pending"]
  OBVIOUS
<1>6. ~Owns(t)' /\ ~Takes(t) /\ ~Takes(t)' /\ EndsKept(t) /\ ~Ended(t)
  BY <1>3, <1>4 DEF Owns, HoldsOwn, Takes, EndsKept, Ended
<1>7. kind2[n] = "pending" /\ \A m \in Node : m # n => kind2[m] = kind[m]
  BY <1>1, <1>5 DEF Shared
<1>8. PICK r : r = nodes_to_reclaim
  OBVIOUS
<1>9. Elements(<<n>> \o r) = Elements(r) \cup {n} /\ Distinct(<<n>> \o r)
  <2>1. r \in Seq(Node) /\ Distinct(r) /\ n \notin Elements(r)
    BY <1>1, <1>4, <1>8 DEF VarTypes, Shared
  <2> QED
    BY <2>1, DistinctCons
<1>10. Shared(stk, kind2, who)' /\ DataOf(data', stk) = DataOf(data, stk)
  <2>1. kind2 \in [Node -> {"free", "stack", "pending", "own", "list"}]
    BY <1>1, <1>5 DEF Shared
  <2>2. alive' = {m \in Node : kind2[m] # "free"}
    BY <1>1, <1>3, <1>4, <1>7 DEF Shared
  <2>3. nodes_to_reclaim' = <<n>> \o r
    BY <1>3, <1>4, <1>8
  <2>4. /\ Elements(stk) = {m \in Node : kind2[m] = "stack"}
        /\ Elements(<<n>> \o r) = {m \in Node : kind2[m] = "pending"}
    BY <1>1, <1>4, <1>7, <1>8, <1>9 DEF Shared
  <2>5. /\ \A m \in Node : kind2[m] \in {"own", "list"} => who[m] \in Thread
        /\ \A m \in Node : kind2[m] = "stack" => data[m] \in Value
    BY <1>1, <1>7 DEF Shared
  <2> QED
    BY <1>1, <1>3, <1>9, <2>1, <2>2, <2>3, <2>4, <2>5 DEF Shared
<1>11. ThreadNodes(t, kind2, who)'
  <2>1. {m \in Node : kind2[m] = "own" /\ who[m] = t} = {}
    BY <1>4, <1>7
  <2>2. {m \in Node : kind2[m] = "list" /\ who[m] = t} = {m \in Node : kind[m] = "list" /\ who[m] = t}
    BY <1>4, <1>7
  <2> QED
    BY <1>1, <1>3, <1>6, <2>1, <2>2 DEF ThreadNodes
<1>12. ThreadPop(t, kind2, who)'
  BY <1>3 DEF ThreadPop
<1>13. Apart(t, kind, who, kind2, who)
  BY <1>3, <1>4, <1>7 DEF Apart
<1>14. ASSUME NEW m \in Node, NEW h \in Slot PROVE NodeSpared(t, m, h, kind, who, kind2, who)
  <2>1. CASE m = n
    BY <1>4, <1>7, <2>1 DEF NodeSpared, Kept
  <2>2. CASE m # n
    <3>1. kind[m] \in {"own", "list"} => who[m] \in Thread /\ who[m] # t
      BY <1>1, <1>4, <2>2 DEF Shared
    <3> QED
      BY <1>2, <1>3, <1>7, <2>2, <3>1, NodeStays
  <2> QED
    BY <2>1, <2>2
<1>15. PointersKept(t)
  BY <1>3 DEF PointersKept
<1>16. Spared(t, kind, who, kind2, who) /\ Announced(t)
  BY <1>1, <1>2, <1>3, <1>6, <1>14, <1>15, SparedStep
<1>17. Shape(stk, kind2, who)' /\ OthersTake(t)
  BY <1>2, <1>3, <1>10, <1>11, <1>12, <1>13, <1>16, MoveStep
<1>18. Effect(stk, stk)
  BY <1>2, <1>3, <1>6, <1>10, <1>17, UnseenStep
<1> QED
  BY <1>17, <1>18 DEF Result

\* A node that no slot announced is deleted: the stack does not hold it.
LEMMA DeletedShared ==
  ASSUME NEW stk, NEW kind, NEW who, Shared(stk, kind, who), VarTypes,
         NEW n \in Node, kind[n] \in {"own", "list"}, Delete(n), UNCHANGED <<head, nodes_to_reclaim>>,
         NEW kind2, kind2 = [kind EXCEPT ![n] = "free"]
  PROVE  Shared(stk, kind2, who)' /\ DataOf(data', stk) = DataOf(data, stk)
<1>1. /\ kind2[n] = "free" /\ \A m \in Node : m # n => kind2[m] = kind[m]
      /\ \A m \in Node : m # n => next'[m] = next[m] /\ data'[m] = data[m]
  BY DEF Shared, VarTypes, Delete
<1>2. n \notin Elements(stk) /\ Elements(stk) \subseteq Node
  BY DEF Shared
<1>3. DOMAIN next' = Node /\ DOMAIN next = Node
  BY DEF VarTypes, Delete
<1>4. Path(Null, next', head', stk)
  BY ZenonT(30), <1>1, <1>2, <1>3, PathKept DEF Shared
<1>5. DataOf(data', stk) = DataOf(data, stk)
  BY <1>1, <1>2, DataKept
<1>6. kind2 \in [Node -> {"free", "stack", "pending", "own", "list"}]
  BY DEF Shared
<1>7. alive' = {m \in Node : kind2[m] # "free"}
  BY <1>1 DEF Shared, Delete
<1>8. /\ Elements(stk) = {m \in Node : kind2[m] = "stack"}
      /\ Elements(nodes_to_reclaim) = {m \in Node : kind2[m] = "pending"}
  BY <1>1 DEF Shared
<1>9. /\ \A m \in Node : kind2[m] \in {"own", "list"} => who[m] \in Thread
      /\ \A m \in Node : kind2[m] = "stack" => data'[m] \in Value
  BY <1>1 DEF Shared
<1>10. Shared(stk, kind2, who)'
  BY <1>4, <1>6, <1>7, <1>8, <1>9 DEF Shared
<1> QED
  BY <1>5, <1>10

\* delete old_head
LEMMA DeleteOwnStep ==
  ASSUME NEW stk, NEW kind, NEW who, Shape(stk, kind, who), NEW t \in Thread, DeleteOwn(t)
  PROVE  Result(stk)
<1>1. /\ Types /\ VarTypes /\ ThreadTypes(t) /\ ThreadNodes(t, kind, who)
      /\ Shared(stk, kind, who)
  BY DEF Shape, Types
<1>2. Others(t) /\ Types'
  BY <1>1, OwnTypes
<1>3. /\ pc[t] = "delete_own" /\ pc'[t] = "exchange" /\ ptr'[t] = Null /\ Delete(ptr[t])
      /\ UNCHANGED <<popping, ending, head, nodes_to_reclaim, list, res, pointer>>
  BY <1>1 DEF DeleteOwn, Goto, VarTypes, hazardVars, slotVars, workload
<1>4. PICK n \in Node : /\ n = ptr[t] /\ kind[n] = "own" /\ who[n] = t /\ t \in popping
                        /\ \A m \in Node : kind[m] \in {"own", "list"} /\ who[m] = t => m = n
                        /\ \A h \in Slot : ~Kept(n, h, kind, who)
  BY <1>3, Scanned
<1>5. PICK kind2 : kind2 = [kind EXCEPT ![n] = "free"]
  OBVIOUS
<1>6. ~Owns(t)' /\ ~Takes(t) /\ ~Takes(t)' /\ EndsKept(t) /\ ~Ended(t)
  BY <1>3, <1>4 DEF Owns, HoldsOwn, Takes, EndsKept, Ended
<1>7. /\ Shared(stk, kind2, who)' /\ DataOf(data', stk) = DataOf(data, stk)
      /\ kind2[n] = "free" /\ \A m \in Node : m # n => kind2[m] = kind[m]
      /\ \A m \in Node : m # n => next'[m] = next[m] /\ data'[m] = data[m]
  <2>1. Delete(n) /\ kind[n] \in {"own", "list"} /\ UNCHANGED <<head, nodes_to_reclaim>>
    BY <1>3, <1>4
  <2>2. kind2[n] = "free" /\ \A m \in Node : m # n => kind2[m] = kind[m]
    BY <1>1, <1>5 DEF Shared
  <2>3. \A m \in Node : m # n => next'[m] = next[m] /\ data'[m] = data[m]
    BY <1>1, <2>1 DEF VarTypes, Delete
  <2>4. Shared(stk, kind, who) /\ VarTypes
    BY <1>1
  <2>5. Shared(stk, kind2, who)' /\ DataOf(data', stk) = DataOf(data, stk)
    BY <1>5, <2>1, <2>4, DeletedShared
  <2> QED
    BY <2>2, <2>3, <2>5
<1>8. ThreadNodes(t, kind2, who)'
  <2>1. {m \in Node : kind2[m] = "own" /\ who[m] = t} = {}
    BY <1>4, <1>7
  <2>2. {m \in Node : kind2[m] = "list" /\ who[m] = t} = {m \in Node : kind[m] = "list" /\ who[m] = t}
    BY <1>4, <1>7
  <2> QED
    BY <1>1, <1>3, <1>6, <2>1, <2>2 DEF ThreadNodes
<1>9. ThreadPop(t, kind2, who)'
  BY <1>3 DEF ThreadPop
<1>10. Apart(t, kind, who, kind2, who)
  BY <1>4, <1>7 DEF Apart
<1>11. ASSUME NEW m \in Node, NEW h \in Slot PROVE NodeSpared(t, m, h, kind, who, kind2, who)
  <2>1. CASE m = n
    BY <1>4, <1>7, <2>1 DEF NodeSpared
  <2>2. CASE m # n
    <3>1. kind[m] \in {"own", "list"} => who[m] \in Thread /\ who[m] # t
      BY <1>1, <1>4, <2>2 DEF Shared
    <3> QED
      BY <1>2, <1>7, <2>2, <3>1, NodeStays
  <2> QED
    BY <2>1, <2>2
<1>12. PointersKept(t)
  BY <1>3 DEF PointersKept
<1>13. Spared(t, kind, who, kind2, who) /\ Announced(t)
  BY <1>1, <1>2, <1>3, <1>6, <1>11, <1>12, SparedStep
<1>14. Shape(stk, kind2, who)' /\ OthersTake(t)
  BY <1>2, <1>3, <1>7, <1>8, <1>9, <1>10, <1>13, MoveStep
<1>15. Effect(stk, stk)
  BY <1>2, <1>3, <1>6, <1>7, <1>14, UnseenStep
<1> QED
  BY <1>14, <1>15 DEF Result

\* The first node of a list that thread t has come to the end of its scan for.
LEMMA Swept ==
  ASSUME NEW stk, NEW kind, NEW who, Shape(stk, kind, who), NEW t \in Thread,
         pc[t] \in {"keep_node", "delete_node"}
  PROVE  /\ list[t] \in Seq(Node) /\ list[t] # <<>> /\ Distinct(list[t]) /\ t \in popping
         /\ Head(list[t]) \in Node /\ kind[Head(list[t])] = "list" /\ who[Head(list[t])] = t
         /\ \A m \in Node : kind[m] # "own" \/ who[m] # t
         /\ Elements(list[t]) = {m \in Node : kind[m] = "list" /\ who[m] = t}
         /\ /\ Tail(list[t]) \in Seq(Node) /\ Distinct(Tail(list[t]))
            /\ Elements(Tail(list[t])) = Elements(list[t]) \ {Head(list[t])}
<1>1. ThreadNodes(t, kind, who) /\ ThreadTypes(t) /\ VarTypes
  BY DEF Shape, Types
<1>2. ~Owns(t) /\ list[t] # <<>> /\ t \in popping /\ list[t] \in Seq(Node)
  BY <1>1 DEF Owns, HoldsOwn, ThreadTypes, InSweep, VarTypes
<1>3. PICK s \in Seq(Node) : s = list[t]
  BY <1>2
<1>4. s # <<>> /\ Distinct(s) /\ Elements(s) = {m \in Node : kind[m] = "list" /\ who[m] = t}
  BY <1>1, <1>2, <1>3 DEF ThreadNodes
<1>5. /\ Head(s) \in Node /\ Head(s) \in Elements(s)
      /\ Tail(s) \in Seq(Node) /\ Distinct(Tail(s))
      /\ Elements(Tail(s)) = Elements(s) \ {Head(s)}
  BY <1>4, DistinctTail
<1>6. {m \in Node : kind[m] = "own" /\ who[m] = t} = {}
  BY <1>1, <1>2 DEF ThreadNodes
<1> QED
  BY <1>2, <1>3, <1>4, <1>5, <1>6

\* The thread goes on with the nodes of s.
SweepTo(t, s) ==
  /\ list'[t] = s
  /\ pc'[t] = IF s = <<>> THEN "idle" ELSE "scan_list"
  /\ i'[t] = IF s = <<>> THEN 0 ELSE 1

\* All of them are kept where some slot announces them: it has not yet looked for any.
LEMMA SweptKept ==
  ASSUME NEW t \in Thread, NEW s, SweepTo(t, s), NEW n \in Elements(s), NEW h \in Slot,
         NEW kind, NEW who, kind[n] = "list", who[n] = t
  PROVE  Kept(n, h, kind, who)'
<1>1. s # <<>>
  BY PathEmpty
<1>2. pc'[t] = "scan_list" /\ i'[t] = 1
  BY <1>1 DEF SweepTo
<1>3. 1 <= h
  BY Finite
<1> QED
  BY <1>2, <1>3 DEF Kept

\* What a step to the next node of a list leaves for the thread to do is right.
LEMMA SweepStep ==
  ASSUME NEW stk, NEW kind, NEW who, Shape(stk, kind, who), NEW t \in Thread,
         Others(t), Types', UNCHANGED <<popping, ending, pointer, res>>,
         pc[t] \in {"exchange", "keep_node", "delete_node"}, t \in popping,
         NEW s, SweepTo(t, s), Distinct(s), NEW kind2, NEW who2,
         Elements(s) = {m \in Node : kind2[m] = "list" /\ who2[m] = t},
         \A m \in Node : kind2[m] # "own" \/ who2[m] # t,
         Shared(stk, kind2, who2)', DataOf(data', stk) = DataOf(data, stk),
         Apart(t, kind, who, kind2, who2),
         \A n \in Node, h \in Slot : NodeSpared(t, n, h, kind, who, kind2, who2)
  PROVE  Result(stk)
<1>1. Types
  BY DEF Shape
<1>2. pc'[t] \in {"idle", "scan_list"} /\ list'[t] = s
  BY DEF SweepTo
<1>3. ~Owns(t)' /\ ~Takes(t) /\ ~Takes(t)' /\ EndsKept(t) /\ PointersKept(t)
  BY <1>2 DEF Owns, HoldsOwn, Takes, EndsKept, PointersKept
<1>4. ThreadNodes(t, kind2, who2)'
  <2>1. {m \in Node : kind2[m] = "own" /\ who2[m] = t} = {}
    OBVIOUS
  <2> QED
    BY <1>2, <1>3, <2>1 DEF ThreadNodes
<1>5. ThreadPop(t, kind2, who2)'
  BY <1>2 DEF ThreadPop
<1>6. Spared(t, kind, who, kind2, who2) /\ Announced(t)
  BY <1>1, <1>3, SparedStep
<1>7. Shape(stk, kind2, who2)' /\ OthersTake(t)
  BY <1>4, <1>5, <1>6, MoveStep
<1>8. Effect(stk, stk)
  BY <1>3, <1>7, UnseenStep
<1> QED
  BY <1>7, <1>8 DEF Result

\* All pending nodes become the thread's list.
LEMMA ExchangeStep ==
  ASSUME NEW stk, NEW kind, NEW who, Shape(stk, kind, who), NEW t \in Thread, Exchange(t)
  PROVE  Result(stk)
<1>1. /\ Types /\ VarTypes /\ ThreadTypes(t) /\ ThreadNodes(t, kind, who)
      /\ Shared(stk, kind, who)
  BY DEF Shape, Types
<1>2. Others(t) /\ Types'
  BY <1>1, ListTypes
<1>3. /\ pc[t] = "exchange" /\ nodes_to_reclaim' = <<>>
      /\ UNCHANGED <<popping, ending, head, next, data, alive, res, pointer>>
      /\ SweepTo(t, nodes_to_reclaim)
  BY <1>1 DEF Exchange, Sweep, SweepTo, Scan, Leave, Goto, VarTypes, nodeVars, workload
<1>4. t \in popping /\ ~Owns(t) /\ list[t] = <<>>
  BY <1>1, <1>3 DEF ThreadTypes, Owns, HoldsOwn, InSweep
<1>5. PICK s, kind2, who2 :
        /\ s = nodes_to_reclaim
        /\ kind2 = [m \in Node |-> IF kind[m] = "pending" THEN "list" ELSE kind[m]]
        /\ who2 = [m \in Node |-> IF kind[m] = "pending" THEN t ELSE who[m]]
  OBVIOUS
<1>6. \A m \in Node : /\ kind[m] = "pending" => kind2[m] = "list" /\ who2[m] = t
                      /\ kind[m] # "pending" => kind2[m] = kind[m] /\ who2[m] = who[m]
  BY <1>5
<1>7. \A m \in Node : kind[m] \in {"own", "list"} => who[m] \in Thread /\ who[m] # t
  BY <1>1, <1>4, NothingHeld DEF Shared
<1>8. Elements(s) = {m \in Node : kind[m] = "pending"} /\ Distinct(s)
  BY <1>1, <1>5 DEF Shared
<1>9. SweepTo(t, s)
  BY <1>3, <1>5
<1>10. /\ Elements(s) = {m \in Node : kind2[m] = "list" /\ who2[m] = t}
       /\ \A m \in Node : kind2[m] # "own" \/ who2[m] # t
  BY <1>6, <1>7, <1>8
<1>11. Shared(stk, kind2, who2)' /\ DataOf(data', stk) = DataOf(data, stk)
  <2>1. /\ kind2 \in [Node -> {"free", "stack", "pending", "own", "list"}]
        /\ who2 \in [Node -> Thread \cup {Null}]
    BY <1>1, <1>5 DEF Shared
  <2>2. alive' = {m \in Node : kind2[m] # "free"}
    BY <1>1, <1>3, <1>6 DEF Shared
  <2>3. Elements(<<>>) = {} /\ Distinct(<<>>)
    BY PathEmpty DEF Distinct
  <2>4. /\ Elements(stk) = {m \in Node : kind2[m] = "stack"}
        /\ Elements(<<>>) = {m \in Node : kind2[m] = "pending"}
    BY <1>1, <1>6, <2>3 DEF Shared
  <2>5. /\ \A m \in Node : kind2[m] \in {"own", "list"} => who2[m] \in Thread
        /\ \A m \in Node : kind2[m] = "stack" => data[m] \in Value
    BY <1>1, <1>6 DEF Shared
  <2> QED
    BY <1>1, <1>3, <2>1, <2>2, <2>3, <2>4, <2>5 DEF Shared
<1>12. Apart(t, kind, who, kind2, who2)
  BY <1>3, <1>6 DEF Apart
<1>13. ASSUME NEW m \in Node, NEW h \in Slot PROVE NodeSpared(t, m, h, kind, who, kind2, who2)
  <2>1. CASE kind[m] = "pending"
    <3>1. kind2[m] = "list" /\ who2[m] = t /\ m \in Elements(s)
      BY <1>6, <1>8, <2>1
    <3>2. Kept(m, h, kind2, who2)'
      BY <1>9, <3>1, SweptKept
    <3>3. ~Ended(t)
      BY <1>3, <1>4 DEF Ended
    <3> QED
      BY <3>1, <3>2, <3>3 DEF NodeSpared
  <2>2. CASE kind[m] # "pending"
    BY <1>2, <1>3, <1>6, <1>7, <2>2, NodeStays
  <2> QED
    BY <2>1, <2>2
<1> QED
  BY <1>2, <1>3, <1>4, <1>8, <1>9, <1>10, <1>11, <1>12, <1>13, SweepStep

\* The first node of the list is put back, or deleted; the others have still to be looked for.
LEMMA ListSpared ==
  ASSUME NEW stk, NEW kind, NEW who, Shape(stk, kind, who), NEW t \in Thread, Others(t),
         pc[t] \in {"keep_node", "delete_node"}, NEW n \in Node, n = Head(list[t]),
         SweepTo(t, Tail(list[t])),
         NEW kind2, kind2[n] = "pending" \/ (pc[t] = "delete_node" /\ kind2[n] = "free"),
         \A m \in Node : m # n => kind2[m] = kind[m],
         \A m \in Node : m # n => next'[m] = next[m] /\ data'[m] = data[m]
  PROVE  /\ Elements(Tail(list[t])) = {m \in Node : kind2[m] = "list" /\ who[m] = t}
         /\ Distinct(Tail(list[t]))
         /\ \A m \in Node : kind2[m] # "own" \/ who[m] # t
         /\ Apart(t, kind, who, kind2, who)
         /\ \A m \in Node, h \in Slot : NodeSpared(t, m, h, kind, who, kind2, who)
<1>1. PICK s \in Seq(Node) : s = Tail(list[t])
  BY Swept
<1>2. /\ t \in popping /\ kind[n] = "list" /\ who[n] = t
      /\ \A m \in Node : kind[m] # "own" \/ who[m] # t
      /\ Elements(s) = {m \in Node : kind[m] = "list" /\ who[m] = t} \ {n} /\ Distinct(s)
  <2>1. /\ t \in popping /\ kind[Head(list[t])] = "list" /\ who[Head(list[t])] = t
        /\ \A m \in Node : kind[m] # "own" \/ who[m] # t
    BY Swept
  <2>2. /\ Elements(list[t]) = {m \in Node : kind[m] = "list" /\ who[m] = t}
        /\ Distinct(Tail(list[t]))
        /\ Elements(Tail(list[t])) = Elements(list[t]) \ {Head(list[t])}
    BY Swept
  <2> QED
    BY <1>1, <2>1, <2>2
<1>3. ~Ended(t)
  BY <1>2 DEF Ended
<1>4. Elements(s) = {m \in Node : kind2[m] = "list" /\ who[m] = t}
  BY <1>2
<1>5. \A m \in Node : kind2[m] # "own" \/ who[m] # t
  BY <1>2
<1>6. Apart(t, kind, who, kind2, who)
  BY <1>2 DEF Apart
<1>7. ASSUME NEW m \in Node, NEW h \in Slot PROVE NodeSpared(t, m, h, kind, who, kind2, who)
  <2>1. CASE m = n
    <3>1. CASE kind2[n] = "pending"
      BY <1>2, <1>3, <2>1, <3>1 DEF NodeSpared, Kept
    <3>2. CASE pc[t] = "delete_node" /\ kind2[n] = "free"
      <4>1. ~Kept(n, h, kind, who)
        BY <1>2, <3>2 DEF Kept
      <4> QED
        BY <1>2, <2>1, <4>1 DEF NodeSpared
    <3> QED
      BY <3>1, <3>2
  <2>2. CASE m # n
    <3>1. kind[m] \in {"own", "list"} => who[m] \in Thread
      BY DEF Shape, Shared
    <3>2. kind[m] \in {"own", "list"} /\ who[m] = t => Kept(m, h, kind2, who)'
      <4> SUFFICES ASSUME kind[m] \in {"own", "list"}, who[m] = t PROVE Kept(m, h, kind2, who)'
        OBVIOUS
      <4>1. kind2[m] = "list" /\ m \in Elements(s) /\ SweepTo(t, s)
        BY <1>1, <1>2, <2>2
      <4> QED
        BY <4>1, SweptKept
    <3> QED
      BY <2>2, <3>1, <3>2, NodeStays
  <2> QED
    BY <2>1, <2>2
<1> QED
  BY <1>1, <1>2, <1>4, <1>5, <1>6, <1>7

\* add_to_reclaim_list(current)
LEMMA KeepNodeStep ==
  ASSUME NEW stk, NEW kind, NEW who, Shape(stk, kind, who), NEW t \in Thread, KeepNode(t)
  PROVE  Result(stk)
<1>1. Types /\ VarTypes /\ Shared(stk, kind, who)
  BY DEF Shape, Types
<1>2. Others(t) /\ Types'
  BY <1>1, ListTypes
<1>3. /\ pc[t] = "keep_node" /\ nodes_to_reclaim' = <<Head(list[t])>> \o nodes_to_reclaim
      /\ UNCHANGED <<popping, ending, head, next, data, alive, res, pointer>>
      /\ SweepTo(t, Tail(list[t]))
  BY <1>1 DEF KeepNode, Sweep, SweepTo, Scan, Leave, Goto, VarTypes, nodeVars, workload
<1>4. PICK n \in Node : n = Head(list[t]) /\ kind[n] = "list" /\ who[n] = t /\ t \in popping
  BY <1>3, Swept
<1>5. PICK kind2, s, r : /\ kind2 = [kind EXCEPT ![n] = "pending"]
                         /\ s = Tail(list[t]) /\ r = nodes_to_reclaim
  OBVIOUS
<1>6. kind2[n] = "pending" /\ \A m \in Node : m # n => kind2[m] = kind[m]
  BY <1>1, <1>5 DEF Shared
<1>7. /\ Elements(Tail(list[t])) = {m \in Node : kind2[m] = "list" /\ who[m] = t}
      /\ Distinct(Tail(list[t]))
      /\ \A m \in Node : kind2[m] # "own" \/ who[m] # t
      /\ Apart(t, kind, who, kind2, who)
      /\ \A m \in Node, h \in Slot : NodeSpared(t, m, h, kind, who, kind2, who)
  <2>1. \A m \in Node : m # n => next'[m] = next[m] /\ data'[m] = data[m]
    BY <1>3
  <2>2. n = Head(list[t]) /\ kind2[n] = "pending" /\ SweepTo(t, Tail(list[t]))
    BY <1>3, <1>4, <1>6
  <2>3. Others(t) /\ pc[t] \in {"keep_node", "delete_node"}
    BY <1>2, <1>3
  <2> QED
    BY <1>6, <2>1, <2>2, <2>3, ListSpared
<1>8. Elements(<<n>> \o r) = Elements(r) \cup {n} /\ Distinct(<<n>> \o r)
  <2>1. r \in Seq(Node) /\ Distinct(r) /\ n \notin Elements(r)
    BY <1>1, <1>4, <1>5 DEF VarTypes, Shared
  <2> QED
    BY <2>1, DistinctCons
<1>9. Shared(stk, kind2, who)' /\ DataOf(data', stk) = DataOf(data, stk)
  <2>1. kind2 \in [Node -> {"free", "stack", "pending", "own", "list"}]
    BY <1>1, <1>5 DEF Shared
  <2>2. alive' = {m \in Node : kind2[m] # "free"}
    BY <1>1, <1>3, <1>4, <1>6 DEF Shared
  <2>3. nodes_to_reclaim' = <<n>> \o r
    BY <1>3, <1>4, <1>5
  <2>4. /\ Elements(stk) = {m \in Node : kind2[m] = "stack"}
        /\ Elements(<<n>> \o r) = {m \in Node : kind2[m] = "pending"}
    BY <1>1, <1>4, <1>5, <1>6, <1>8 DEF Shared
  <2>5. /\ \A m \in Node : kind2[m] \in {"own", "list"} => who[m] \in Thread
        /\ \A m \in Node : kind2[m] = "stack" => data[m] \in Value
    BY <1>1, <1>6 DEF Shared
  <2> QED
    BY <1>1, <1>3, <1>8, <2>1, <2>2, <2>3, <2>4, <2>5 DEF Shared
<1>10. /\ SweepTo(t, s) /\ Distinct(s)
       /\ Elements(s) = {m \in Node : kind2[m] = "list" /\ who[m] = t}
  BY <1>3, <1>5, <1>7
<1> QED
  BY <1>2, <1>3, <1>4, <1>7, <1>9, <1>10, SweepStep

\* delete current
LEMMA DeleteNodeStep ==
  ASSUME NEW stk, NEW kind, NEW who, Shape(stk, kind, who), NEW t \in Thread, DeleteNode(t)
  PROVE  Result(stk)
<1>1. Types /\ VarTypes /\ Shared(stk, kind, who)
  BY DEF Shape, Types
<1>2. Others(t) /\ Types'
  BY <1>1, ListTypes
<1>3. /\ pc[t] = "delete_node" /\ Delete(Head(list[t]))
      /\ UNCHANGED <<popping, ending, head, nodes_to_reclaim, res, pointer>>
      /\ SweepTo(t, Tail(list[t]))
  BY <1>1 DEF DeleteNode, Sweep, SweepTo, Scan, Leave, Goto, VarTypes, nodeVars, workload
<1>4. PICK n \in Node : n = Head(list[t]) /\ kind[n] = "list" /\ who[n] = t /\ t \in popping
  BY <1>3, Swept
<1>5. PICK kind2, s : kind2 = [kind EXCEPT ![n] = "free"] /\ s = Tail(list[t])
  OBVIOUS
<1>6. kind2[n] = "free" /\ \A m \in Node : m # n => kind2[m] = kind[m]
  BY <1>1, <1>5 DEF Shared
<1>7. Delete(n)
  BY <1>3, <1>4
<1>8. /\ Elements(Tail(list[t])) = {m \in Node : kind2[m] = "list" /\ who[m] = t}
      /\ Distinct(Tail(list[t]))
      /\ \A m \in Node : kind2[m] # "own" \/ who[m] # t
      /\ Apart(t, kind, who, kind2, who)
      /\ \A m \in Node, h \in Slot : NodeSpared(t, m, h, kind, who, kind2, who)
  <2>1. \A m \in Node : m # n => next'[m] = next[m] /\ data'[m] = data[m]
    BY <1>1, <1>7 DEF VarTypes, Delete
  <2>2. n = Head(list[t]) /\ kind2[n] = "free" /\ SweepTo(t, Tail(list[t]))
    BY <1>3, <1>4, <1>6
  <2>3. Others(t) /\ pc[t] = "delete_node"
    BY <1>2, <1>3
  <2> QED
    BY <1>6, <2>1, <2>2, <2>3, ListSpared
<1>9. Shared(stk, kind2, who)' /\ DataOf(data', stk) = DataOf(data, stk)
  <2>1. kind[n] \in {"own", "list"} /\ UNCHANGED <<head, nodes_to_reclaim>>
    BY <1>3, <1>4
  <2>2. Shared(stk, kind, who) /\ VarTypes
    BY <1>1
  <2> QED
    BY <1>5, <1>7, <2>1, <2>2, DeletedShared
<1>10. /\ SweepTo(t, s) /\ Distinct(s)
       /\ Elements(s) = {m \in Node : kind2[m] = "list" /\ who[m] = t}
  BY <1>3, <1>5, <1>8
<1> QED
  BY <1>2, <1>3, <1>4, <1>8, <1>9, <1>10, SweepStep

-----------------------------------------------------------------------------
(* All steps. *)

\* Among at most two threads there are no three.
LEMMA FewThreads ==
  ASSUME Init, MaxEnding <= 2
  PROVE  Few
<1> SUFFICES ASSUME ending, NEW t \in popping, NEW u \in popping, NEW w \in popping,
                    t # u, t # w, u # w
             PROVE  FALSE
  BY DEF Few
<1>1. IsFiniteSet(popping)
  BY Finite, FS_Subset DEF Init
<1>2. Cardinality(popping) \in Nat /\ Cardinality(popping) <= 2
  BY <1>1, FS_CardinalityType, ThreadAssumption DEF Init
<1>3. IsFiniteSet({}) /\ Cardinality({}) = 0
  BY FS_EmptySet
<1>4. IsFiniteSet({t}) /\ Cardinality({t}) = 1
  BY FS_Singleton
<1>5. IsFiniteSet({t} \cup {u}) /\ Cardinality({t} \cup {u}) = 2
  BY <1>4, FS_AddElement
<1>6. Cardinality(({t} \cup {u}) \cup {w}) = 3
  BY <1>5, FS_AddElement
<1>7. ({t} \cup {u}) \cup {w} \subseteq popping
  OBVIOUS
<1>8. Cardinality(({t} \cup {u}) \cup {w}) <= Cardinality(popping)
  BY <1>1, <1>7, FS_Subset
<1> QED
  BY <1>2, <1>6, <1>8

\* At first every node is free.
LEMMA InitShape ==
  ASSUME Init, MaxEnding <= 2
  PROVE  Shape(<<>>, [n \in Node |-> "free"], [n \in Node |-> Null])
<1> USE DEF Init, StackInit
<1>1. PICK kind, who : kind = [n \in Node |-> "free"] /\ who = [n \in Node |-> Null]
  OBVIOUS
<1>2. Types /\ Few
  BY TypesInit, FewThreads
<1>3. Path(Null, next, Null, <<>>) /\ Elements(<<>>) = {} /\ Distinct(<<>>)
  BY PathEmpty DEF Distinct
<1>4. Shared(<<>>, kind, who)
  BY <1>1, <1>3 DEF Shared
<1>5. ASSUME NEW t \in Thread PROVE ThreadNodes(t, kind, who) /\ ThreadPop(t, kind, who)
  <2>1. pc[t] = "idle" /\ list[t] = <<>> /\ ~Owns(t)
    BY DEF Owns, HoldsOwn
  <2> QED
    BY <1>1, <1>3, <2>1 DEF ThreadNodes, ThreadPop
<1> QED
  BY <1>1, <1>2, <1>4, <1>5 DEF Shape

\* Every step keeps the invariant and does to the stack what AtomicStack may do.
LEMMA Step ==
  ASSUME NEW stk, NEW kind, NEW who, Shape(stk, kind, who), [Next]_vars
  PROVE  Result(stk)
<1>1. CASE UNCHANGED vars
  <2> USE <1>1 DEF vars, stackVars, nodeVars, threadVars, hazardVars, slotVars, workload
  <2>1. Types'
    BY TypesNext DEF Shape
  <2>2. Shared(stk, kind, who)' /\ Few'
    BY DEF Shape, Shared, Few
  <2>3. ASSUME NEW t \in Thread
        PROVE  ThreadNodes(t, kind, who)' /\ ThreadPop(t, kind, who)'
    <3>1. Owns(t)' <=> Owns(t)
      BY DEF Owns, HoldsOwn
    <3>2. ThreadNodes(t, kind, who) /\ ThreadPop(t, kind, who)
      BY DEF Shape
    <3>3. ThreadNodes(t, kind, who)'
      BY <3>1, <3>2 DEF ThreadNodes
    <3> QED
      BY <3>2, <3>3 DEF ThreadPop, Guarded, Kept, Alone
  <2>4. Shape(stk, kind, who)'
    BY <2>1, <2>2, <2>3 DEF Shape
  <2>5. Effect(stk, stk)
    BY DEF Effect, Taken
  <2> QED
    BY <2>4, <2>5 DEF Result
<1>2. CASE Next
  <2>1. PICK t \in Thread : \/ \E v \in Value : PushCall(t, v) /\ UNCHANGED hazardVars
                            \/ PushCas(t) /\ UNCHANGED hazardVars
                            \/ PopCall(t) \/ Pop(t) \/ Reclaim(t) \/ Exit(t)
    BY <1>2 DEF Next
  <2>2. CASE \E v \in Value : PushCall(t, v) /\ UNCHANGED hazardVars
    BY <2>2, PushCallStep
  <2>3. CASE PushCas(t) /\ UNCHANGED hazardVars
    BY <2>3, PushStep, PushRetryStep
  <2>4. CASE PopCall(t)
    BY <2>4, PopCallStep
  <2>5. CASE Pop(t)
    <3>1. CASE HpOwner(t) \/ PopLoad(t) \/ HpStore(t) \/ PopMiss(t)
      BY <3>1, AnnounceStep
    <3>2. CASE HpValidate(t)
      BY <3>2, AnnounceStep, SeenStep
    <3>3. CASE PopReadNext(t) /\ UNCHANGED hazardVars
      BY <3>3, PopReadNextStep
    <3>4. CASE PopUnlink(t, "hp_clear") /\ UNCHANGED hazardVars
      BY <3>4, UnlinkStep
    <3>5. CASE HpClear(t) \/ PopTake(t)
      BY <3>5, HpClearStep, PopTakeStep
    <3> QED
      BY <2>5, <3>1, <3>2, <3>3, <3>4, <3>5 DEF Pop
  <2>6. CASE Reclaim(t)
    BY <2>6, ScanStep, ReclaimLaterStep, DeleteOwnStep, ExchangeStep, DeleteNodeStep, KeepNodeStep
       DEF Reclaim
  <2>7. CASE Exit(t)
    BY <2>7, ExitIdStep, ExitPointerStep DEF Exit
  <2> QED
    BY <2>1, <2>2, <2>3, <2>4, <2>5, <2>6, <2>7
<1> QED
  BY <1>1, <1>2

\* For any threads, slots, nodes and values, if threads never end or at most two of them
\* pop: every node is always in one place, and none that a thread in the loop of pop points
\* to is where it may be deleted.
THEOREM InvCorrect == ASSUME MaxEnding <= 2 PROVE Spec => []IInv
<1>1. Init => IInv
  BY InitShape DEF IInv
<1>2. IInv /\ [Next]_vars => IInv'
  <2> SUFFICES ASSUME NEW stk, NEW kind, NEW who, Shape(stk, kind, who), [Next]_vars
               PROVE  IInv'
    BY DEF IInv
  <2>1. Result(stk)
    BY Step
  <2>2. \E stk2, kind2, who2 : Shape(stk2, kind2, who2)'
    BY <2>1 DEF Result
  <2> QED
    BY <2>2 DEF IInv
<1> QED
  BY <1>1, <1>2, PTL DEF Spec

\* What the announcements are for: whoever is about to read old_head->next reads a node
\* that is allocated.
THEOREM NoUseAfterFreeCorrect == ASSUME MaxEnding <= 2 PROVE Spec => []NoUseAfterFree
<1>1. IInv => NoUseAfterFree
  <2> SUFFICES ASSUME NEW stk, NEW kind, NEW who, Shape(stk, kind, who),
                      NEW t \in Thread, pc[t] = "pop_next"
               PROVE  ptr[t] \in alive
    BY DEF IInv, NoUseAfterFree
  <2>1. ThreadPop(t, kind, who) /\ ThreadTypes(t)
    BY DEF Shape, Types
  <2>2. ptr[t] \in Node /\ kind[ptr[t]] # "free"
    BY <2>1 DEF ThreadPop, ThreadTypes, Guarded, Kept
  <2> QED
    BY <2>2 DEF Shape, Shared
<1> QED
  BY <1>1, InvCorrect, PTL

\* "no other thread currently sees this expired ptr": when old_head is deleted no other
\* thread is about to follow it.
THEOREM DeletedUnseenCorrect == ASSUME MaxEnding <= 2 PROVE Spec => DeletedUnseen
<1> DEFINE Unseen == \A t, u \in Thread : t # u /\ pc[t] = "delete_own" /\ pc'[t] # pc[t] =>
                       ~(pc[u] = "pop_next" /\ ptr[u] = ptr[t])
<1>1. IInv => Unseen
  <2> SUFFICES ASSUME NEW stk, NEW kind, NEW who, Shape(stk, kind, who),
                      NEW t \in Thread, NEW u \in Thread, t # u, pc[t] = "delete_own",
                      pc[u] = "pop_next", ptr[u] = ptr[t]
               PROVE  FALSE
    BY DEF IInv
  <2>1. ThreadPop(u, kind, who)
    BY DEF Shape
  <2>2. Kept(ptr[t], hp[u], kind, who)
    BY <2>1 DEF ThreadPop, Guarded
  <2> QED
    BY <2>2, Scanned
<1>2. IInv => [Unseen]_vars
  BY <1>1
<1> QED
  BY <1>2, InvCorrect, PTL DEF DeletedUnseen

-----------------------------------------------------------------------------
(* Nodes and their places. *)

\* A thread's own node and its list, as EachNodeOnce puts them together.
Held(t) == (IF HoldsOwn(t) \/ pc[t] = "push_cas" THEN <<ptr[t]>> ELSE <<>>) \o list[t]

\* They are the nodes that are its own or in its list, each once.
LEMMA HeldNodes ==
  ASSUME NEW stk, NEW kind, NEW who, Shape(stk, kind, who), NEW t \in Thread
  PROVE  /\ NoRepeats(Held(t))
         /\ Rng(Held(t)) = {n \in Node : kind[n] \in {"own", "list"} /\ who[n] = t}
<1>1. ThreadNodes(t, kind, who) /\ VarTypes
  BY DEF Shape, Types
<1>2. PICK own : own = IF Owns(t) THEN <<ptr[t]>> ELSE <<>>
  OBVIOUS
<1>3. PICK r : r = list[t]
  OBVIOUS
<1>4. /\ own \in Seq(Node) /\ Elements(own) = {n \in Node : kind[n] = "own" /\ who[n] = t}
      /\ Distinct(own)
  <2>1. CASE Owns(t)
    <3>1. {n \in Node : kind[n] = "own" /\ who[n] = t} = {ptr[t]}
      BY <1>1, <2>1 DEF ThreadNodes
    <3>2. ptr[t] \in Node
      BY <3>1
    <3>3. own = <<ptr[t]>> /\ Len(own) = 1 /\ own[1] = ptr[t] /\ own \in Seq(Node)
      BY <1>2, <2>1, <3>2
    <3> QED
      BY <3>1, <3>3 DEF Elements, Distinct
  <2>2. CASE ~Owns(t)
    <3>1. own = <<>> /\ own \in Seq(Node) /\ Len(own) = 0
      BY <1>2, <2>2
    <3>2. Elements(own) = {}
      BY <3>1, PathEmpty
    <3> QED
      BY <1>1, <2>2, <3>1, <3>2 DEF ThreadNodes, Distinct
  <2> QED
    BY <2>1, <2>2
<1>5. /\ r \in Seq(Node) /\ Elements(r) = {n \in Node : kind[n] = "list" /\ who[n] = t}
      /\ Distinct(r)
  BY <1>1, <1>3 DEF ThreadNodes, VarTypes
<1>6. Elements(own) \cap Elements(r) = {}
  BY <1>4, <1>5
<1>7. PICK c : c = own \o r
  OBVIOUS
<1>8. /\ c \in Seq(Node) /\ Elements(c) = Elements(own) \cup Elements(r)
      /\ Distinct(c)
  BY <1>4, <1>5, <1>6, <1>7, DistinctJoin
<1>9. Held(t) = c
  BY <1>2, <1>3, <1>7 DEF Held, Owns
<1>10. DOMAIN c = 1..Len(c)
  BY <1>8
<1>11. Rng(c) = Elements(c) /\ NoRepeats(c)
  BY <1>8, <1>10 DEF Rng, Elements, NoRepeats, Distinct
<1> QED
  BY <1>4, <1>5, <1>8, <1>9, <1>11

\* The chain of nodes from the head is stk.
LEMMA ChainIs ==
  ASSUME NEW stk, NEW kind, NEW who, Shape(stk, kind, who)
  PROVE  Chain(head) = stk /\ stk \in Seq(Node) /\ Distinct(stk)
<1>1. VarTypes /\ Path(Null, next, head, stk) /\ DOMAIN next = Node
  BY DEF Shape, Types, VarTypes, Shared
<1>2. Links(Null, next, head)
  BY <1>1 DEF Links, VarTypes
<1>3. Follow(Null, next, head, Cardinality(Node)) = stk
  BY <1>1, <1>2, Finite, FollowIs
<1>4. Chain(head) = Follow(Null, next, head, Cardinality(Node))
  BY DEF Chain, Follow
<1>5. stk \in Seq(Node)
  BY <1>1, Finite, PathElements
<1>6. Distinct(stk)
  BY <1>1 DEF Path, Segment, Distinct
<1> QED
  BY <1>3, <1>4, <1>5, <1>6

\* Every allocated node is once in exactly one place: none leaks, none is deleted
\* twice, none that was deleted comes back.
THEOREM EachNodeOnceCorrect == ASSUME MaxEnding <= 2 PROVE Spec => []EachNodeOnce
<1>1. IInv => EachNodeOnce
  <2> SUFFICES ASSUME NEW stk, NEW kind, NEW who, Shape(stk, kind, who)
               PROVE  EachNodeOnce
    BY DEF IInv
  <2> DEFINE free == Chain(head) \o nodes_to_reclaim
             held == [t \in Thread |-> Held(t)]
  <2>1. VarTypes /\ Shared(stk, kind, who)
    BY DEF Shape, Types
  <2>2. PICK r : r = nodes_to_reclaim
    OBVIOUS
  <2>3. stk \in Seq(Node) /\ r \in Seq(Node) /\ Distinct(stk) /\ Distinct(r)
    BY <2>1, <2>2, ChainIs DEF VarTypes, Shared
  <2>4. /\ Elements(stk) = {n \in Node : kind[n] = "stack"}
        /\ Elements(r) = {n \in Node : kind[n] = "pending"}
    BY <2>1, <2>2 DEF Shared
  <2>5. PICK c : c = stk \o r
    OBVIOUS
  <2>6. Elements(stk) \cap Elements(r) = {}
    BY <2>4
  <2>7. /\ c \in Seq(Node) /\ Elements(c) = Elements(stk) \cup Elements(r)
        /\ Distinct(c)
    BY <2>3, <2>5, <2>6, DistinctJoin
  <2>8. free = c /\ DOMAIN c = 1..Len(c)
    <3>1. Chain(head) = stk
      BY ChainIs
    <3>2. free = c
      BY <2>2, <2>5, <3>1
    <3>3. DOMAIN c = 1..Len(c)
      BY <2>7
    <3> QED
      BY <3>2, <3>3
  <2> HIDE DEF free, held
  <2>9. Rng(free) = {n \in Node : kind[n] \in {"stack", "pending"}} /\ NoRepeats(free)
    <3>1. Rng(c) = Elements(c) /\ NoRepeats(c)
      BY <2>7, <2>8 DEF Rng, Elements, NoRepeats, Distinct
    <3> QED
      BY <2>4, <2>7, <2>8, <3>1
  <2>10. \A t \in Thread : /\ NoRepeats(held[t])
                           /\ Rng(held[t]) = {n \in Node : kind[n] \in {"own", "list"} /\ who[n] = t}
    BY HeldNodes DEF held
  <2>11. Rng(free) \cup UNION {Rng(held[t]) : t \in Thread} = alive
    <3>1. \A n \in Node : kind[n] \in {"free", "stack", "pending", "own", "list"}
      BY <2>1 DEF Shared
    <3>2. \A n \in Node : kind[n] \in {"own", "list"} => who[n] \in Thread
      BY <2>1 DEF Shared
    <3>3. alive = {n \in Node : kind[n] # "free"}
      BY <2>1 DEF Shared
    <3>4. \A n \in alive : n \in Rng(free) \/ \E t \in Thread : n \in Rng(held[t])
      BY <2>9, <2>10, <3>1, <3>2, <3>3
    <3>5. \A n \in Rng(free) : n \in alive
      BY <2>9, <3>3
    <3>6. \A t \in Thread : \A n \in Rng(held[t]) : n \in alive
      BY <2>10, <3>3
    <3> QED
      BY <3>4, <3>5, <3>6
  <2>12. EachOnce(free, held)
    BY <2>9, <2>10, <2>11 DEF EachOnce
  <2> QED
    BY <2>12 DEF EachNodeOnce, free, held, Held
<1> QED
  BY <1>1, InvCorrect, PTL

-----------------------------------------------------------------------------
(* The stack as its callers see it. *)

\* The values that the path from the head holds are the contents,
ContentsAre(s) == Contents = DataOf(data, s)

\* whatever path it is.
ContentsKnown == \A stk, kind, who : Shape(stk, kind, who) => ContentsAre(stk)

\* By ChainIs.
LEMMA ContentsIs == ContentsKnown
<1> SUFFICES ASSUME NEW stk, NEW kind, NEW who, Shape(stk, kind, who)
             PROVE  ContentsAre(stk)
  BY DEF ContentsKnown
<1>1. Chain(head) = stk /\ stk \in Seq(Node)
  BY ChainIs
<1>2. DOMAIN stk = 1..Len(stk)
  BY <1>1
<1> QED
  BY <1>1, <1>2 DEF ContentsAre, Contents, DataOf

\* Although freed addresses are handed out again: pushes and pops act in one order, last in
\* first out.
THEOREM StackCorrect == ASSUME MaxEnding <= 2 PROVE Spec => ImplementsStack
<1>1. Init => Atomic!Init
  <2> SUFFICES ASSUME Init PROVE Atomic!Init
    OBVIOUS
  <2>1. Contents = DataOf(data, <<>>)
    BY InitShape, ContentsIs DEF ContentsKnown, ContentsAre
  <2>2. Contents = <<>>
    BY <2>1 DEF DataOf
  <2> QED
    BY <2>2 DEF Init, StackInit, Atomic!Init
<1>2. IInv /\ [Next]_vars => [Atomic!Next]_(Atomic!vars)
  <2> SUFFICES ASSUME NEW stk, NEW kind, NEW who, Shape(stk, kind, who), [Next]_vars
               PROVE  [Atomic!Next]_(Atomic!vars)
    BY DEF IInv
  <2>1. Result(stk)
    BY Step
  <2>2. PICK stk2, kind2, who2 : Shape(stk2, kind2, who2)' /\ Effect(stk, stk2)
    BY <2>1 DEF Result
  <2>3. Contents = DataOf(data, stk)
    BY ContentsIs DEF ContentsKnown, ContentsAre
  <2>4. ContentsKnown'
    BY ContentsIs, PTL
  <2>5. Contents' = DataOf(data', stk2)
    BY <2>2, <2>4 DEF ContentsKnown, ContentsAre, DataOf
  <2> QED
    BY <2>2, <2>3, <2>5 DEF Effect, Taken, Atomic!Next, Atomic!vars, Atomic!Push,
       Atomic!PopCall, Atomic!Pop, Atomic!PopEmpty
<1> QED
  BY <1>1, <1>2, InvCorrect, PTL DEF Spec, ImplementsStack, Atomic!Spec
=============================================================================
