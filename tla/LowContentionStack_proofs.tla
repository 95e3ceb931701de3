---------------------- MODULE LowContentionStack_proofs ----------------------
(***************************************************************************)
(* Proofs about low_contention::stack.                                     *)
(*                                                                         *)
(* The inductive invariant says of every node in which place it is: free,  *)
(* in the stack, pending in to_be_deleted, owned by a thread (being        *)
(* pushed, or unlinked and not given away) or in the list that a thread    *)
(* deletes or chains back.  A node that a thread in the loop of pop still  *)
(* points to is in a place from which nobody deletes it, because whoever   *)
(* deletes has counted the threads in pop after it unlinked its nodes.     *)
(***************************************************************************)
EXTENDS LowContentionStack, Lemmas, TLAPS

-----------------------------------------------------------------------------
(* The invariant.  stk, tbd and lst are the nodes of the stack, those of   *)
(* to_be_deleted, and those of each thread's list, in order; kind[n] is    *)
(* the place of node n and who[n] the thread whose it is.                  *)

\* The threads that threads_in_pop counts: one that has given up its own node, or has
\* found the stack empty, until it leaves; the others until they ask if they are alone.
Counted ==
  {t \in Thread : \/ pc[t] \in {"pop_load", "pop_next", "pop_cas", "pop_take", "pop_count",
                                "pop_exchange", "pop_alone", "pop_leave"}
                  \/ pc[t] \in {"chain_load", "chain_cas"} /\ first[t] = ptr[t]}

\* A place that nobody deletes nodes from while a thread in the loop of pop is counted.
Kept(n, kind, who) ==
  \/ kind[n] \in {"stack", "pending"}
  \/ kind[n] = "own" /\ pc[who[n]] \in {"pop_take", "pop_count"}
  \/ kind[n] = "list" /\ pc[who[n]] \in {"pop_alone", "chain_load", "chain_cas"}

Owns(t) == HoldsOwn(t) \/ pc[t] = "push_cas"

\* Thread t's own node, and its list.
ThreadNodes(t, lst, kind, who) ==
  /\ {n \in Node : kind[n] = "own" /\ who[n] = t} = IF Owns(t) THEN {ptr[t]} ELSE {}
  /\ lst[t] \in Seq(Node)
  /\ Elements(lst[t]) = {n \in Node : kind[n] = "list" /\ who[n] = t}
  /\ pc[t] \in {"pop_alone", "delete_nodes"} => Path(Null, next, first[t], lst[t])
  /\ pc[t] \in {"chain_load", "chain_cas"} =>
       /\ Segment(next, lst[t]) /\ lst[t] # <<>>
       /\ first[t] = lst[t][1] /\ last[t] = lst[t][Len(lst[t])]
  /\ pc[t] \notin {"pop_alone", "delete_nodes", "chain_load", "chain_cas"} => lst[t] = <<>>

\* What thread t remembers in the loop of pop.
ThreadPop(t, kind, who) ==
  /\ pc[t] \in {"pop_next", "pop_cas"} => ptr[t] \in Node /\ Kept(ptr[t], kind, who)
  /\ pc[t] = "pop_cas" /\ kind[ptr[t]] = "stack" => nxt[t] = next[ptr[t]]
  /\ pc[t] \in {"pop_load", "pop_next", "pop_cas", "pop_take"} => res[t] = None
  /\ pc[t] \in {"push_cas", "pop_take"} => data[ptr[t]] \in Value

Types ==
  /\ head \in Node \cup {Null}
  /\ next \in [Node -> Node \cup {Null}]
  /\ data \in [Node -> Value \cup {None}]
  /\ ptr \in [Thread -> Node \cup {Null}]
  /\ nxt \in [Thread -> Node \cup {Null}]
  /\ res \in [Thread -> Value \cup {None, Empty}]
  /\ pc \in [Thread -> {"idle", "push_cas", "pop_load", "pop_next", "pop_cas", "pop_take",
                        "pop_count", "pop_exchange", "pop_alone", "delete_nodes",
                        "chain_load", "chain_cas", "delete_own", "pop_leave"}]
  /\ to_be_deleted \in Node \cup {Null}
  /\ first \in [Thread -> Node \cup {Null}]
  /\ last \in [Thread -> Node \cup {Null}]
  /\ threads_in_pop = Cardinality(Counted)

\* The nodes that no thread has to itself, and those that are free.
Shared(stk, tbd, kind, who) ==
  /\ kind \in [Node -> {"free", "stack", "pending", "own", "list"}]
  /\ who \in [Node -> Thread \cup {Null}]
  /\ \A n \in Node : kind[n] \in {"own", "list"} => who[n] \in Thread
  /\ alive = {n \in Node : kind[n] # "free"}
  /\ Path(Null, next, head, stk)
  /\ Elements(stk) = {n \in Node : kind[n] = "stack"}
  /\ Path(Null, next, to_be_deleted, tbd)
  /\ Elements(tbd) = {n \in Node : kind[n] = "pending"}
  /\ \A n \in Node : kind[n] = "stack" => data[n] \in Value

Shape(stk, tbd, lst, kind, who) ==
  /\ Types
  /\ Shared(stk, tbd, kind, who)
  /\ \A t \in Thread : ThreadNodes(t, lst, kind, who)
  /\ \A t \in Thread : ThreadPop(t, kind, who)

IInv == \E stk, tbd, lst, kind, who : Shape(stk, tbd, lst, kind, who)

-----------------------------------------------------------------------------
(* What the steps have in common. *)

\* Null is no node, and there are finitely many nodes and threads.
LEMMA Finite == Null \notin Node /\ IsFiniteSet(Node) /\ IsFiniteSet(Thread)
BY StackAssumption DEF NodeAssumption

\* threads_in_pop is a number, of threads.
LEMMA CountedFinite ==
  /\ IsFiniteSet(Counted) /\ Cardinality(Counted) \in Nat
  /\ Cardinality(Counted) <= Cardinality(Thread) /\ Cardinality(Thread) \in Nat
<1>1. Counted \in SUBSET Thread
  BY DEF Counted
<1> QED
  BY <1>1, Finite, FS_Subset, FS_CardinalityType

\* A thread that counts one is alone.
LEMMA Alone ==
  ASSUME Cardinality(Counted) = 1, NEW t \in Counted, NEW u \in Counted
  PROVE  u = t
BY CountedFinite, FS_Singleton

\* One thread joins the count, or leaves it, or none does.
LEMMA CountStep ==
  ASSUME threads_in_pop = Cardinality(Counted), NEW t,
         \/ Counted' = Counted /\ threads_in_pop' = threads_in_pop
         \/ /\ t \notin Counted /\ Counted' = Counted \cup {t}
            /\ threads_in_pop' = threads_in_pop + 1
         \/ /\ t \in Counted /\ Counted' = Counted \ {t}
            /\ threads_in_pop' = threads_in_pop - 1
  PROVE  threads_in_pop' = Cardinality(Counted')
<1>1. t \notin Counted => Cardinality(Counted \cup {t}) = Cardinality(Counted) + 1
  BY CountedFinite, FS_AddElement
<1>2. t \in Counted => Cardinality(Counted \ {t}) = Cardinality(Counted) - 1
  BY CountedFinite, FS_RemoveElement
<1> QED
  BY <1>1, <1>2

\* The other threads' variables do not change.
Others(t) ==
  \A u \in Thread : u # t =>
    /\ pc'[u] = pc[u] /\ ptr'[u] = ptr[u] /\ nxt'[u] = nxt[u] /\ res'[u] = res[u]
    /\ first'[u] = first[u] /\ last'[u] = last[u]

\* Who counts.
Counts(t) ==
  \/ pc[t] \in {"pop_load", "pop_next", "pop_cas", "pop_take", "pop_count",
                "pop_exchange", "pop_alone", "pop_leave"}
  \/ pc[t] \in {"chain_load", "chain_cas"} /\ first[t] = ptr[t]

\* So the count depends on one thread.
LEMMA CountedOthers ==
  ASSUME NEW t \in Thread, Others(t)
  PROVE  /\ Counts(t)' <=> Counts(t) => Counted' = Counted
         /\ ~Counts(t) /\ Counts(t)' => t \notin Counted /\ Counted' = Counted \cup {t}
         /\ Counts(t) /\ ~Counts(t)' => t \in Counted /\ Counted' = Counted \ {t}
<1>1. \A u \in Thread : (u \in Counted <=> Counts(u)) /\ (u \in Counted' <=> Counts(u)')
  BY DEF Counted, Counts
<1>2. \A u \in Thread : u # t => (Counts(u)' <=> Counts(u))
  BY DEF Others, Counts
<1>3. Counted \subseteq Thread /\ Counted' \subseteq Thread
  BY DEF Counted
<1> HIDE DEF Others
<1> QED
  BY <1>1, <1>2, <1>3

\* The node and the list of a thread that takes no part.
LEMMA NodesKept ==
  ASSUME NEW t \in Thread, Others(t), NEW u \in Thread, u # t,
         NEW lst, NEW kind, NEW who, ThreadNodes(u, lst, kind, who),
         NEW lst2, NEW kind2, NEW who2, lst2[u] = lst[u],
         \A n \in Node : kind2[n] = "own" /\ who2[n] = u <=> kind[n] = "own" /\ who[n] = u,
         \A n \in Node : kind2[n] = "list" /\ who2[n] = u <=> kind[n] = "list" /\ who[n] = u,
         DOMAIN next' = DOMAIN next,
         \A n \in Node : kind[n] = "list" /\ who[n] = u => next'[n] = next[n]
  PROVE  ThreadNodes(u, lst2, kind2, who2)'
<1>1. pc'[u] = pc[u] /\ ptr'[u] = ptr[u] /\ first'[u] = first[u] /\ last'[u] = last[u]
  BY DEF Others
<1>2. Owns(u)' <=> Owns(u)
  BY <1>1 DEF Owns, HoldsOwn
<1>3. {n \in Node : kind2[n] = "own" /\ who2[n] = u} = {n \in Node : kind[n] = "own" /\ who[n] = u}
  OBVIOUS
<1>4. {n \in Node : kind2[n] = "list" /\ who2[n] = u} = {n \in Node : kind[n] = "list" /\ who[n] = u}
  OBVIOUS
<1>5. \A n \in Elements(lst[u]) : next'[n] = next[n]
  BY DEF ThreadNodes
<1>6. Path(Null, next, first[u], lst[u]) => Path(Null, next', first'[u], lst2[u])
  BY <1>1, <1>5, PathKept
<1>7. Segment(next, lst[u]) => Segment(next', lst2[u])
  BY <1>5, SegmentKept
<1>8. {n \in Node : kind2[n] = "own" /\ who2[n] = u} = IF Owns(u)' THEN {ptr'[u]} ELSE {}
  BY <1>1, <1>2, <1>3 DEF ThreadNodes
<1>9. Elements(lst2[u]) = {n \in Node : kind2[n] = "list" /\ who2[n] = u}
  BY <1>4 DEF ThreadNodes
<1> QED
  BY <1>1, <1>6, <1>7, <1>8, <1>9 DEF ThreadNodes

\* What a thread that takes no part remembers of its pop.
LEMMA PopKept ==
  ASSUME NEW t \in Thread, Others(t), NEW u \in Thread, u # t,
         NEW kind, NEW who, ThreadPop(u, kind, who), NEW kind2, NEW who2,
         pc[u] \in {"pop_next", "pop_cas"} => Kept(ptr[u], kind2, who2)',
         pc[u] = "pop_cas" /\ kind2[ptr[u]] = "stack" =>
           kind[ptr[u]] = "stack" /\ next'[ptr[u]] = next[ptr[u]],
         pc[u] \in {"push_cas", "pop_take"} => data'[ptr[u]] = data[ptr[u]]
  PROVE  ThreadPop(u, kind2, who2)'
<1>1. pc'[u] = pc[u] /\ ptr'[u] = ptr[u] /\ nxt'[u] = nxt[u] /\ res'[u] = res[u]
  BY DEF Others
<1> QED
  BY <1>1 DEF ThreadPop, Kept

\* What each thread has got out of its last pop, as ImplementsStack maps it.
Taken == [t \in Thread |-> IF pc[t] = "pop_take" THEN data[ptr[t]] ELSE res[t]]

\* What a step that makes r of s does to the stack as its callers see it.
Effect(s, r) ==
  \/ DataOf(data', r) = DataOf(data, s) /\ Taken' = Taken
  \/ \E v \in Value : DataOf(data', r) = <<v>> \o DataOf(data, s) /\ Taken' = Taken
  \/ \E t \in Thread : /\ DataOf(data', r) = DataOf(data, s)
                       /\ Taken' = [Taken EXCEPT ![t] = None]
  \/ \E t \in Thread : /\ Taken[t] = None /\ DataOf(data, s) # <<>>
                       /\ DataOf(data', r) = Tail(DataOf(data, s))
                       /\ Taken' = [Taken EXCEPT ![t] = Head(DataOf(data, s))]
  \/ \E t \in Thread : /\ Taken[t] = None /\ DataOf(data, s) = <<>>
                       /\ DataOf(data', r) = DataOf(data, s)
                       /\ Taken' = [Taken EXCEPT ![t] = Empty]

\* The step keeps the invariant, and is one of AtomicStack or none.
Result(s) ==
  \E stk, tbd, lst, kind, who : Shape(stk, tbd, lst, kind, who)' /\ Effect(s, stk)

\* What others have taken does not change, if no node that they hold does.
LEMMA TakenOthers ==
  ASSUME NEW t \in Thread, Others(t), res \in [Thread -> Value \cup {None, Empty}],
         \A u \in Thread : u # t /\ pc[u] = "pop_take" => data'[ptr[u]] = data[ptr[u]]
  PROVE  /\ Taken'[t] = Taken[t] => Taken' = Taken
         /\ \A v : Taken'[t] = v => Taken' = [Taken EXCEPT ![t] = v]
<1>1. \A u \in Thread : u # t => Taken'[u] = Taken[u]
  BY DEF Others, Taken
<1>2. Taken = [u \in Thread |-> Taken[u]] /\ Taken' = [u \in Thread |-> Taken'[u]]
  BY DEF Taken
<1> HIDE DEF Taken
<1> QED
  BY <1>1, <1>2

-----------------------------------------------------------------------------
(* Steps that change no place. *)

\* Where no node changes its place, the stack stays as it is.
LEMMA SharedKept ==
  ASSUME NEW stk, NEW tbd, NEW kind, NEW who, Shared(stk, tbd, kind, who),
         UNCHANGED <<head, alive, to_be_deleted>>, DOMAIN next' = DOMAIN next,
         \A n \in Node : kind[n] \in {"stack", "pending"} => next'[n] = next[n],
         \A n \in Node : kind[n] = "stack" => data'[n] = data[n]
  PROVE  Shared(stk, tbd, kind, who)' /\ DataOf(data', stk) = DataOf(data, stk)
<1>1. \A n \in Elements(stk) : n \in Node /\ kind[n] = "stack"
  BY DEF Shared
<1>2. \A n \in Elements(tbd) : n \in Node /\ kind[n] = "pending"
  BY DEF Shared
<1>3. Path(Null, next', head, stk)
  BY <1>1, PathKept DEF Shared
<1>4. Path(Null, next', to_be_deleted, tbd)
  BY <1>2, PathKept DEF Shared
<1>5. DataOf(data', stk) = DataOf(data, stk)
  BY <1>1, DataKept
<1> QED
  BY <1>3, <1>4, <1>5 DEF Shared

\* No node of another thread comes, goes or changes.
Apart(t, lst, kind, who, lst2, kind2, who2) ==
  /\ \A u \in Thread : u # t => lst2[u] = lst[u]
  /\ \A n \in Node : kind[n] \in {"own", "list"} /\ who[n] # t =>
       kind2[n] = kind[n] /\ who2[n] = who[n] /\ next'[n] = next[n] /\ data'[n] = data[n]
  /\ \A n \in Node : kind2[n] \in {"own", "list"} /\ who2[n] # t =>
       kind2[n] = kind[n] /\ who2[n] = who[n]

\* Node n stays where nobody deletes it, and is not linked into the stack.
NodeSpared(n, kind, who, kind2, who2) ==
  Kept(n, kind, who) =>
    Kept(n, kind2, who2)' /\ (kind2[n] = "stack" => kind[n] = "stack" /\ next'[n] = next[n])

\* So do all, if another thread than t is in the loop of pop.
Spared(t, kind, who, kind2, who2) ==
  \/ \A u \in Counted : u = t
  \/ \A n \in Node : NodeSpared(n, kind, who, kind2, who2)

\* If thread t's step is right for the shared nodes, for its own and for what others
\* still point to, it is right.
LEMMA MoveStep ==
  ASSUME NEW stk, NEW tbd, NEW lst, NEW kind, NEW who, Shape(stk, tbd, lst, kind, who),
         NEW stk2, NEW tbd2, NEW lst2, NEW kind2, NEW who2,
         NEW t \in Thread, Others(t), Types', Shared(stk2, tbd2, kind2, who2)',
         ThreadNodes(t, lst2, kind2, who2)', ThreadPop(t, kind2, who2)',
         Apart(t, lst, kind, who, lst2, kind2, who2), Spared(t, kind, who, kind2, who2)
  PROVE  /\ Shape(stk2, tbd2, lst2, kind2, who2)'
         /\ \A u \in Thread : u # t /\ pc[u] = "pop_take" => data'[ptr[u]] = data[ptr[u]]
<1> USE DEF Shape
<1>1. ASSUME NEW u \in Thread, u # t PROVE ThreadNodes(u, lst2, kind2, who2)'
  <2>1. DOMAIN next' = DOMAIN next
    BY DEF Types
  <2>2. \A n \in Node : /\ kind2[n] = "own" /\ who2[n] = u <=> kind[n] = "own" /\ who[n] = u
                        /\ kind2[n] = "list" /\ who2[n] = u <=> kind[n] = "list" /\ who[n] = u
                        /\ kind[n] = "list" /\ who[n] = u => next'[n] = next[n]
    BY <1>1 DEF Apart
  <2>3. ThreadNodes(u, lst, kind, who) /\ lst2[u] = lst[u]
    BY <1>1 DEF Apart
  <2> QED
    BY <1>1, <2>1, <2>2, <2>3, NodesKept
<1>2. \A u \in Thread : u # t /\ pc[u] \in {"push_cas", "pop_take"} => data'[ptr[u]] = data[ptr[u]]
  <2> SUFFICES ASSUME NEW u \in Thread, u # t, pc[u] \in {"push_cas", "pop_take"}
               PROVE  data'[ptr[u]] = data[ptr[u]]
    OBVIOUS
  <2>1. Owns(u)
    BY DEF Owns, HoldsOwn
  <2>2. ptr[u] \in {n \in Node : kind[n] = "own" /\ who[n] = u}
    BY <2>1 DEF ThreadNodes
  <2> QED
    BY <2>2 DEF Apart
<1>3. ASSUME NEW u \in Thread, u # t PROVE ThreadPop(u, kind2, who2)'
  <2>1. ThreadPop(u, kind, who)
    OBVIOUS
  <2>2. ASSUME pc[u] \in {"pop_next", "pop_cas"}
        PROVE  /\ Kept(ptr[u], kind2, who2)'
               /\ kind2[ptr[u]] = "stack" => kind[ptr[u]] = "stack" /\ next'[ptr[u]] = next[ptr[u]]
    <3>1. u \in Counted /\ ptr'[u] = ptr[u]
      BY <1>3, <2>2 DEF Counted, Others
    <3>2. PICK n \in Node : n = ptr[u] /\ Kept(n, kind, who)
      BY <2>1, <2>2 DEF ThreadPop
    <3>3. NodeSpared(n, kind, who, kind2, who2)
      BY <1>3, <3>1 DEF Spared
    <3> QED
      BY <3>1, <3>2, <3>3 DEF NodeSpared, Kept
  <2> QED
    BY <1>2, <1>3, <2>1, <2>2, PopKept
<1> QED
  BY <1>1, <1>2, <1>3

\* No place: thread t goes on with its nodes where they are, and comes to where it
\* deletes some only if it is alone.
LEMMA LocalStep ==
  ASSUME NEW stk, NEW tbd, NEW lst, NEW kind, NEW who, Shape(stk, tbd, lst, kind, who),
         NEW t \in Thread, Others(t), Types',
         UNCHANGED <<head, next, alive, to_be_deleted>>,
         \A n \in Node : (n = ptr[t] /\ Owns(t)) \/ data'[n] = data[n],
         ThreadNodes(t, lst, kind, who)', ThreadPop(t, kind, who)',
         \/ \A u \in Counted : u = t
         \/ /\ pc[t] \in {"pop_take", "pop_count"} => pc'[t] \in {"pop_take", "pop_count"}
            /\ pc[t] \in {"pop_alone", "chain_load", "chain_cas"} =>
                 \/ pc'[t] \in {"pop_alone", "chain_load", "chain_cas"}
                 \/ lst[t] = <<>>
  PROVE  /\ Shape(stk, tbd, lst, kind, who)'
         /\ DataOf(data', stk) = DataOf(data, stk)
         /\ \A u \in Thread : u # t /\ pc[u] = "pop_take" => data'[ptr[u]] = data[ptr[u]]
<1> USE DEF Shape
<1>1. \A n \in Node : n = ptr[t] /\ Owns(t) => kind[n] = "own" /\ who[n] = t
  <2>1. Owns(t) => ptr[t] \in {n \in Node : kind[n] = "own" /\ who[n] = t}
    BY DEF ThreadNodes
  <2> QED
    BY <2>1
<1>2. Shared(stk, tbd, kind, who)' /\ DataOf(data', stk) = DataOf(data, stk)
  BY <1>1, SharedKept
<1>3. Apart(t, lst, kind, who, lst, kind, who)
  BY <1>1 DEF Apart
<1>4. ASSUME NEW n \in Node, ~\A u \in Counted : u = t
      PROVE  NodeSpared(n, kind, who, kind, who)
  <2> SUFFICES ASSUME Kept(n, kind, who) PROVE Kept(n, kind, who)'
    BY DEF NodeSpared
  <2>1. CASE kind[n] \in {"stack", "pending"}
    BY <2>1 DEF Kept
  <2>2. CASE kind[n] = "own" /\ pc[who[n]] \in {"pop_take", "pop_count"}
    <3>1. who[n] \in Thread
      BY <2>2 DEF Shared
    <3> QED
      BY <1>4, <2>2, <3>1 DEF Kept, Others
  <2>3. CASE kind[n] = "list" /\ pc[who[n]] \in {"pop_alone", "chain_load", "chain_cas"}
    <3>1. who[n] \in Thread
      BY <2>3 DEF Shared
    <3>2. lst[who[n]] # <<>>
      <4>1. n \in Elements(lst[who[n]])
        BY <2>3, <3>1 DEF ThreadNodes
      <4> QED
        BY <4>1, PathEmpty
    <3> QED
      BY <1>4, <2>3, <3>1, <3>2 DEF Kept, Others
  <2> QED
    BY <2>1, <2>2, <2>3 DEF Kept
<1>5. Spared(t, kind, who, kind, who)
  BY <1>4 DEF Spared
<1> QED
  BY <1>2, <1>3, <1>5, MoveStep

\* threads_in_pop++
LEMMA PopCallStep ==
  ASSUME NEW stk, NEW tbd, NEW lst, NEW kind, NEW who, Shape(stk, tbd, lst, kind, who),
         NEW t \in Thread, PopCall(t)
  PROVE  Result(stk)
<1> USE DEF Shape
<1>1. Others(t) /\ pc'[t] = "pop_load" /\ res'[t] = None
  BY DEF PopCall, Goto, Types, Others
<1>2. threads_in_pop' = Cardinality(Counted')
  <2>1. ~Counts(t) /\ Counts(t)'
    BY <1>1 DEF PopCall, Counts
  <2>2. t \notin Counted /\ Counted' = Counted \cup {t}
    BY <1>1, <2>1, CountedOthers
  <2> QED
    BY <2>2, CountStep DEF Types, PopCall
<1>3. Types'
  BY <1>2 DEF Types, PopCall, Goto, nodeVars
<1>4. ThreadNodes(t, lst, kind, who)' /\ ThreadPop(t, kind, who)'
  <2>1. ThreadNodes(t, lst, kind, who) /\ ~Owns(t) /\ ~Owns(t)'
    BY <1>1 DEF PopCall, Owns, HoldsOwn
  <2> QED
    BY <1>1, <2>1 DEF PopCall, ThreadNodes, ThreadPop
<1>5. /\ Shape(stk, tbd, lst, kind, who)'
      /\ DataOf(data', stk) = DataOf(data, stk)
  BY <1>1, <1>3, <1>4, LocalStep DEF PopCall, nodeVars
<1>6. Taken' = [Taken EXCEPT ![t] = None]
  <2>1. Taken'[t] = None
    BY <1>1 DEF Taken
  <2> QED
    BY <1>1, <2>1, TakenOthers DEF Types, PopCall, nodeVars
<1>7. Effect(stk, stk)
  BY <1>5, <1>6 DEF Effect
<1> QED
  BY <1>5, <1>7 DEF Result

\* The head was loaded: the stack has a node to try for, or is empty.
LEMMA SeeHeadStep ==
  ASSUME NEW stk, NEW tbd, NEW lst, NEW kind, NEW who, Shape(stk, tbd, lst, kind, who),
         NEW t \in Thread, pc[t] \in {"pop_load", "pop_cas"}, SeeHead(t, "pop_next", "pop_leave"),
         UNCHANGED <<nodeVars, reclaimVars>>
  PROVE  Result(stk)
<1> USE DEF Shape, nodeVars, reclaimVars
<1>1. /\ Others(t) /\ ptr'[t] = head
      /\ \/ head # Null /\ pc'[t] = "pop_next" /\ res'[t] = res[t]
         \/ head = Null /\ pc'[t] = "pop_leave" /\ res'[t] = Empty
  BY DEF SeeHead, Goto, Types, Others
<1>2. threads_in_pop' = Cardinality(Counted')
  <2>1. Counts(t) /\ Counts(t)'
    BY <1>1 DEF Counts
  <2>2. Counted' = Counted
    BY <1>1, <2>1, CountedOthers
  <2> QED
    BY <2>2 DEF Types
<1>3. Types'
  BY <1>2 DEF Types, SeeHead, Goto
<1>4. head # Null => head \in Node /\ kind[head] = "stack"
  BY Finite, PathElements DEF Types, Shared
<1>5. ThreadNodes(t, lst, kind, who)' /\ ThreadPop(t, kind, who)'
  <2>1. ThreadNodes(t, lst, kind, who) /\ ThreadPop(t, kind, who) /\ ~Owns(t) /\ ~Owns(t)'
    BY <1>1 DEF Owns, HoldsOwn
  <2>2. pc'[t] \in {"pop_next", "pop_leave"}
    BY <1>1
  <2>3. ThreadNodes(t, lst, kind, who)'
    BY <2>1, <2>2 DEF ThreadNodes
  <2> QED
    BY <1>1, <1>4, <2>1, <2>3 DEF ThreadPop, Kept
<1>6. /\ Shape(stk, tbd, lst, kind, who)'
      /\ DataOf(data', stk) = DataOf(data, stk)
  BY <1>1, <1>3, <1>5, LocalStep
<1>7. Effect(stk, stk)
  <2>1. res \in [Thread -> Value \cup {None, Empty}] /\ Taken[t] = res[t] /\ res[t] = None
    BY DEF Types, Taken, ThreadPop
  <2>2. CASE head # Null
    <3>1. Taken'[t] = Taken[t]
      BY <1>1, <2>1, <2>2 DEF Taken
    <3>2. Taken' = Taken
      BY <1>1, <2>1, <3>1, TakenOthers
    <3> QED
      BY <1>6, <3>2 DEF Effect
  <2>3. CASE head = Null
    <3>1. Taken'[t] = Empty
      BY <1>1, <2>3 DEF Taken
    <3>2. Taken' = [Taken EXCEPT ![t] = Empty]
      BY <1>1, <2>1, <3>1, TakenOthers
    <3>3. stk = <<>>
      BY <2>3, Finite, PathElements DEF Types, Shared
    <3>4. DataOf(data, stk) = <<>>
      BY <3>3 DEF DataOf
    <3> QED
      BY <1>6, <2>1, <3>2, <3>4 DEF Effect
  <2> QED
    BY <2>2, <2>3
<1> QED
  BY <1>6, <1>7 DEF Result

\* res.swap(old_head->data)
LEMMA PopTakeStep ==
  ASSUME NEW stk, NEW tbd, NEW lst, NEW kind, NEW who, Shape(stk, tbd, lst, kind, who),
         NEW t \in Thread, PopTake(t)
  PROVE  Result(stk)
<1> USE DEF Shape, reclaimVars
<1>1. /\ Others(t) /\ pc[t] = "pop_take" /\ pc'[t] = "pop_count" /\ res'[t] = data[ptr[t]]
      /\ Owns(t) /\ Owns(t)' /\ UNCHANGED <<head, next, alive, to_be_deleted, ptr, first, last, nxt>>
  BY DEF PopTake, Goto, Types, Others, Owns, HoldsOwn
<1>2. threads_in_pop' = Cardinality(Counted')
  <2>1. Counts(t) /\ Counts(t)'
    BY <1>1 DEF Counts
  <2>2. Counted' = Counted
    BY <1>1, <2>1, CountedOthers
  <2> QED
    BY <2>2 DEF Types, PopTake
<1>3. Types'
  <2>1. data[ptr[t]] \in Value
    BY <1>1 DEF ThreadPop
  <2> QED
    BY <1>2, <2>1 DEF Types, PopTake, Goto
<1>4. ThreadNodes(t, lst, kind, who)' /\ ThreadPop(t, kind, who)'
  <2>1. ThreadNodes(t, lst, kind, who)
    OBVIOUS
  <2>2. ThreadNodes(t, lst, kind, who)'
    BY <1>1, <2>1 DEF ThreadNodes
  <2> QED
    BY <1>1, <2>2 DEF ThreadPop
<1>5. \A n \in Node : n = ptr[t] \/ data'[n] = data[n]
  BY DEF PopTake, Types
<1>6. /\ Shape(stk, tbd, lst, kind, who)'
      /\ DataOf(data', stk) = DataOf(data, stk)
      /\ \A u \in Thread : u # t /\ pc[u] = "pop_take" => data'[ptr[u]] = data[ptr[u]]
  <2>1. \A n \in Node : (n = ptr[t] /\ Owns(t)) \/ data'[n] = data[n]
    BY <1>1, <1>5
  <2>2. UNCHANGED <<head, next, alive, to_be_deleted>>
    BY <1>1
  <2> HIDE DEF Shape
  <2> QED
    BY <1>1, <1>3, <1>4, <2>1, <2>2, LocalStep
<1>7. Taken' = Taken
  <2>1. Taken'[t] = Taken[t]
    BY <1>1 DEF Taken
  <2> QED
    BY <1>1, <1>6, <2>1, TakenOthers DEF Types
<1>8. Effect(stk, stk)
  BY <1>6, <1>7 DEF Effect
<1> QED
  BY <1>6, <1>8 DEF Result

\* old_head->next is read: it stays what it is while old_head is in the stack.
LEMMA PopReadNextStep ==
  ASSUME NEW stk, NEW tbd, NEW lst, NEW kind, NEW who, Shape(stk, tbd, lst, kind, who),
         NEW t \in Thread, PopReadNext(t), UNCHANGED reclaimVars
  PROVE  Result(stk)
<1> USE DEF Shape, reclaimVars, nodeVars
<1>1. /\ Others(t) /\ pc[t] = "pop_next" /\ pc'[t] = "pop_cas" /\ nxt'[t] = next[ptr[t]]
      /\ ~Owns(t) /\ ~Owns(t)' /\ UNCHANGED <<nodeVars, ptr, res>>
  BY DEF PopReadNext, Goto, Types, Others, Owns, HoldsOwn
<1>2. threads_in_pop' = Cardinality(Counted')
  <2>1. Counts(t) /\ Counts(t)'
    BY <1>1 DEF Counts
  <2>2. Counted' = Counted
    BY <1>1, <2>1, CountedOthers
  <2> QED
    BY <2>2 DEF Types
<1>3. ThreadPop(t, kind, who) /\ ptr[t] \in Node
  BY <1>1 DEF ThreadPop
<1>4. Types'
  BY <1>2, <1>3 DEF Types, PopReadNext, Goto
<1>5. ThreadNodes(t, lst, kind, who)' /\ ThreadPop(t, kind, who)'
  <2>1. ThreadNodes(t, lst, kind, who)
    OBVIOUS
  <2>2. ThreadNodes(t, lst, kind, who)'
    BY <1>1, <2>1 DEF ThreadNodes
  <2>3. Kept(ptr[t], kind, who)'
    <3>1. PICK n \in Node : n = ptr[t] /\ Kept(n, kind, who)
      BY <1>1, <1>3 DEF ThreadPop
    <3>2. Kept(n, kind, who)'
      <4>1. kind[n] = "own" => who[n] # t
        BY <1>1, <2>1 DEF ThreadNodes
      <4>2. kind[n] = "list" => who[n] # t
        <5>1. lst[t] = <<>>
          BY <1>1, <2>1 DEF ThreadNodes
        <5>2. Elements(lst[t]) = {}
          BY <5>1, PathEmpty
        <5> QED
          BY <2>1, <5>2 DEF ThreadNodes
      <4>3. kind[n] \in {"own", "list"} => who[n] \in Thread
        BY DEF Shared
      <4>4. kind[n] \in {"own", "list"} => pc'[who[n]] = pc[who[n]]
        BY <1>1, <4>1, <4>2, <4>3 DEF Others
      <4> QED
        BY <3>1, <4>4 DEF Kept
    <3> QED
      BY <1>1, <3>1, <3>2 DEF Kept
  <2> QED
    BY <1>1, <1>3, <2>2, <2>3 DEF ThreadPop
<1>6. /\ Shape(stk, tbd, lst, kind, who)'
      /\ DataOf(data', stk) = DataOf(data, stk)
  BY <1>1, <1>4, <1>5, LocalStep
<1>7. Taken' = Taken
  <2>1. Taken'[t] = Taken[t]
    BY <1>1 DEF Taken
  <2> QED
    BY <1>1, <1>6, <2>1, TakenOthers DEF Types
<1>8. Effect(stk, stk)
  BY <1>6, <1>7 DEF Effect
<1> QED
  BY <1>6, <1>8 DEF Result

\* The chain of nodes from the head of a path is the path.
LEMMA ChainIs ==
  ASSUME Types, NEW f, NEW s, Path(Null, next, f, s)
  PROVE  Chain(f) = s
<1>1. DOMAIN next = Node
  BY DEF Types
<1>2. f \in Node \cup {Null}
  BY <1>1, Finite, PathElements
<1>3. Links(Null, next, f)
  BY <1>1, <1>2 DEF Links, Types
<1>4. Follow(Null, next, f, Cardinality(Node)) = s
  BY <1>1, <1>3, Finite, FollowIs
<1>5. Chain(f) = Follow(Null, next, f, Cardinality(Node))
  BY DEF Chain, Follow
<1> QED
  BY <1>4, <1>5

\* If a step of a thread that takes nothing changes no data, others see none of it.
LEMMA UnseenStep ==
  ASSUME NEW s, NEW r, DataOf(data', r) = DataOf(data, s), NEW t \in Thread, Others(t),
         res \in [Thread -> Value \cup {None, Empty}],
         \A u \in Thread : u # t /\ pc[u] = "pop_take" => data'[ptr[u]] = data[ptr[u]],
         pc[t] # "pop_take", pc'[t] # "pop_take", res'[t] = res[t]
  PROVE  Effect(s, r)
<1>1. Taken'[t] = Taken[t]
  BY DEF Taken
<1>2. Taken' = Taken
  BY <1>1, TakenOthers
<1> QED
  BY <1>2 DEF Effect

\* Alone in pop: reclaim.
LEMMA PopCountStep ==
  ASSUME NEW stk, NEW tbd, NEW lst, NEW kind, NEW who, Shape(stk, tbd, lst, kind, who),
         NEW t \in Thread, PopCount(t), threads_in_pop = 1
  PROVE  Result(stk)
<1> USE DEF Shape, nodeVars
<1>1. /\ Others(t) /\ pc[t] = "pop_count" /\ pc'[t] = "pop_exchange" /\ res'[t] = res[t]
      /\ Owns(t) /\ Owns(t)'
      /\ UNCHANGED <<head, next, data, alive, to_be_deleted, ptr, first, last, nxt, res, threads_in_pop>>
  BY DEF PopCount, Goto, Types, Others, Owns, HoldsOwn
<1>2. Counts(t) /\ Counts(t)'
  BY <1>1 DEF Counts
<1>3. threads_in_pop' = Cardinality(Counted')
  <2>1. Counted' = Counted
    BY <1>1, <1>2, CountedOthers
  <2> QED
    BY <1>1, <2>1 DEF Types
<1>4. Types'
  BY <1>1, <1>3 DEF Types, PopCount, Goto
<1>5. \A u \in Counted : u = t
  <2>1. t \in Counted /\ Cardinality(Counted) = 1
    BY <1>1 DEF Counted, Types
  <2> QED
    BY <2>1, Alone
<1>6. ThreadNodes(t, lst, kind, who)' /\ ThreadPop(t, kind, who)'
  <2>1. ThreadNodes(t, lst, kind, who)
    OBVIOUS
  <2>2. ThreadNodes(t, lst, kind, who)'
    BY <1>1, <2>1 DEF ThreadNodes
  <2> QED
    BY <1>1, <2>2 DEF ThreadPop
<1>7. /\ Shape(stk, tbd, lst, kind, who)'
      /\ DataOf(data', stk) = DataOf(data, stk)
      /\ \A u \in Thread : u # t /\ pc[u] = "pop_take" => data'[ptr[u]] = data[ptr[u]]
  <2> HIDE DEF Shape
  <2> QED
    BY <1>1, <1>4, <1>5, <1>6, LocalStep
<1>8. Effect(stk, stk)
  BY <1>1, <1>7, UnseenStep DEF Types
<1> QED
  BY <1>7, <1>8 DEF Result

\* --threads_in_pop, and what to do with the list depends on it.
LEMMA PopAloneStep ==
  ASSUME NEW stk, NEW tbd, NEW lst, NEW kind, NEW who, Shape(stk, tbd, lst, kind, who),
         NEW t \in Thread, PopAlone(t)
  PROVE  Result(stk)
<1> USE DEF Shape, nodeVars
<1>1. /\ Others(t) /\ pc[t] = "pop_alone" /\ res'[t] = res[t]
      /\ UNCHANGED <<head, next, data, alive, to_be_deleted, ptr, first, nxt, res>>
      /\ pc'[t] \in {"delete_nodes", "delete_own", "chain_load"}
      /\ threads_in_pop' = threads_in_pop - 1
  BY DEF PopAlone, Goto, Types, Others
<1>2. /\ ThreadNodes(t, lst, kind, who)
      /\ lst[t] \in Seq(Node) /\ Path(Null, next, first[t], lst[t])
      /\ Elements(lst[t]) = {n \in Node : kind[n] = "list" /\ who[n] = t}
      /\ ptr[t] \in {n \in Node : kind[n] = "own" /\ who[n] = t}
  BY <1>1 DEF ThreadNodes, Owns, HoldsOwn
<1>3. first[t] # ptr[t]
  <2>1. first[t] # Null => first[t] \in Elements(lst[t])
    BY <1>2, Finite, PathElements DEF Types
  <2> QED
    BY <1>2, <2>1, Finite
<1>4. Owns(t) /\ Owns(t)' /\ Counts(t) /\ ~Counts(t)'
  BY <1>1, <1>3 DEF Owns, HoldsOwn, Counts
<1>5. threads_in_pop' = Cardinality(Counted')
  <2>1. t \in Counted /\ Counted' = Counted \ {t}
    BY <1>1, <1>4, CountedOthers
  <2> QED
    BY <1>1, <2>1, CountStep DEF Types
<1>6. /\ lst[t] # <<>> => Segment(next, lst[t]) /\ first[t] = lst[t][1]
                          /\ lst[t][Len(lst[t])] \in Node
      /\ lst[t] = <<>> <=> first[t] = Null
      /\ pc'[t] = "chain_load" => first[t] # Null /\ last' = [last EXCEPT ![t] = lst[t][Len(lst[t])]]
      /\ pc'[t] # "chain_load" => last' = last
  <2>1. lst[t] # <<>> => lst[t][Len(lst[t])] \in Node
    BY <1>2
  <2>2. Chain(first[t]) = lst[t]
    BY <1>2, ChainIs
  <2>3. Segment(next, lst[t]) /\ first[t] = IF lst[t] = <<>> THEN Null ELSE lst[t][1]
    BY <1>2 DEF Path
  <2>4. lst[t] # <<>> => lst[t][1] \in Node
    BY <1>2
  <2>5. lst[t] = <<>> <=> first[t] = Null
    BY <2>3, <2>4, Finite
  <2> QED
    BY <1>1, <2>1, <2>2, <2>3, <2>5 DEF PopAlone, Goto, Types
<1>7. Types'
  <2>1. last' \in [Thread -> Node \cup {Null}]
    BY <1>1, <1>6 DEF Types
  <2>2. pc' = [pc EXCEPT ![t] = pc'[t]]
    BY DEF PopAlone, Goto, Types
  <2> QED
    BY <1>1, <1>5, <2>1, <2>2 DEF Types
<1>8. ThreadNodes(t, lst, kind, who)'
  <2>1. {n \in Node : kind[n] = "own" /\ who[n] = t} = IF Owns(t)' THEN {ptr'[t]} ELSE {}
    BY <1>1, <1>2, <1>4 DEF ThreadNodes
  <2>2. CASE pc'[t] = "chain_load"
    <3>1. last'[t] = lst[t][Len(lst[t])]
      BY <1>6, <2>2 DEF Types
    <3> QED
      BY <1>1, <1>2, <1>6, <2>1, <2>2, <3>1 DEF ThreadNodes
  <2>3. CASE pc'[t] = "delete_nodes"
    BY <1>1, <1>2, <2>1, <2>3 DEF ThreadNodes
  <2>4. CASE pc'[t] = "delete_own"
    <3>1. first[t] = Null
      BY <2>4 DEF PopAlone, Goto, Types
    <3> QED
      BY <1>1, <1>2, <1>6, <2>1, <2>4, <3>1 DEF ThreadNodes
  <2> QED
    BY <1>1, <2>2, <2>3, <2>4
<1>9. ThreadPop(t, kind, who)'
  BY <1>1 DEF ThreadPop
<1>10. \/ \A u \in Counted : u = t
       \/ pc'[t] = "chain_load"
       \/ lst[t] = <<>>
  <2>1. CASE threads_in_pop = 1
    <3>1. t \in Counted /\ Cardinality(Counted) = 1
      BY <1>1, <2>1 DEF Counted, Types
    <3> QED
      BY <3>1, Alone
  <2>2. CASE threads_in_pop # 1
    BY <1>6, <2>2 DEF PopAlone, Goto, Types
  <2> QED
    BY <2>1, <2>2
<1>11. /\ Shape(stk, tbd, lst, kind, who)'
       /\ DataOf(data', stk) = DataOf(data, stk)
       /\ \A u \in Thread : u # t /\ pc[u] = "pop_take" => data'[ptr[u]] = data[ptr[u]]
  <2> HIDE DEF Shape
  <2> QED
    BY <1>1, <1>7, <1>8, <1>9, <1>10, LocalStep
<1>12. Effect(stk, stk)
  BY <1>1, <1>11, UnseenStep DEF Types
<1> QED
  BY <1>11, <1>12 DEF Result

\* --threads_in_pop on the way out.
LEMMA PopLeaveStep ==
  ASSUME NEW stk, NEW tbd, NEW lst, NEW kind, NEW who, Shape(stk, tbd, lst, kind, who),
         NEW t \in Thread, PopLeave(t)
  PROVE  Result(stk)
<1> USE DEF Shape, nodeVars
<1>1. /\ Others(t) /\ pc[t] = "pop_leave" /\ pc'[t] = "idle" /\ res'[t] = res[t]
      /\ ~Owns(t) /\ ~Owns(t)'
      /\ UNCHANGED <<head, next, data, alive, to_be_deleted, first, last, nxt, res>>
  BY DEF PopLeave, Return, Goto, Types, Others, Owns, HoldsOwn
<1>2. Counts(t) /\ ~Counts(t)'
  BY <1>1 DEF Counts
<1>3. threads_in_pop' = Cardinality(Counted')
  <2>1. t \in Counted /\ Counted' = Counted \ {t}
    BY <1>1, <1>2, CountedOthers
  <2> QED
    BY <2>1, CountStep DEF Types, PopLeave
<1>4. Types'
  BY <1>1, <1>3 DEF Types, PopLeave, Return, Goto
<1>5. ThreadNodes(t, lst, kind, who)' /\ ThreadPop(t, kind, who)'
  <2>1. ThreadNodes(t, lst, kind, who)
    OBVIOUS
  <2>2. ThreadNodes(t, lst, kind, who)'
    BY <1>1, <2>1 DEF ThreadNodes
  <2> QED
    BY <1>1, <2>2 DEF ThreadPop
<1>6. /\ Shape(stk, tbd, lst, kind, who)'
      /\ DataOf(data', stk) = DataOf(data, stk)
      /\ \A u \in Thread : u # t /\ pc[u] = "pop_take" => data'[ptr[u]] = data[ptr[u]]
  <2> HIDE DEF Shape
  <2> QED
    BY <1>1, <1>4, <1>5, LocalStep
<1>7. Effect(stk, stk)
  BY <1>1, <1>6, UnseenStep DEF Types
<1> QED
  BY <1>6, <1>7 DEF Result

\* The loop of delete_nodes ends.
LEMMA DeletedStep ==
  ASSUME NEW stk, NEW tbd, NEW lst, NEW kind, NEW who, Shape(stk, tbd, lst, kind, who),
         NEW t \in Thread, DeleteNodes(t), first[t] = Null
  PROVE  Result(stk)
<1> USE DEF Shape, nodeVars
<1>1. /\ Others(t) /\ pc[t] = "delete_nodes" /\ pc'[t] = "delete_own" /\ res'[t] = res[t]
      /\ Owns(t) /\ Owns(t)'
      /\ UNCHANGED <<head, next, data, alive, to_be_deleted, ptr, first, last, nxt, res, threads_in_pop>>
  BY DEF DeleteNodes, Goto, Types, Others, Owns, HoldsOwn
<1>2. ~Counts(t) /\ ~Counts(t)'
  BY <1>1 DEF Counts
<1>3. threads_in_pop' = Cardinality(Counted')
  <2>1. Counted' = Counted
    BY <1>1, <1>2, CountedOthers
  <2> QED
    BY <1>1, <2>1 DEF Types
<1>4. Types'
  BY <1>1, <1>3 DEF Types, DeleteNodes, Goto
<1>5. ThreadNodes(t, lst, kind, who)' /\ ThreadPop(t, kind, who)'
  <2>1. ThreadNodes(t, lst, kind, who)
    OBVIOUS
  <2>2. lst[t] = <<>>
    <3>1. Path(Null, next, Null, lst[t])
      BY <1>1, <2>1 DEF ThreadNodes
    <3>2. lst[t] = <<>>
      <4>1. DOMAIN next = Node
        BY DEF Types
      <4> QED
        BY <3>1, <4>1, Finite, PathElements
    <3> QED
      BY <3>2
  <2>3. ThreadNodes(t, lst, kind, who)'
    BY <1>1, <2>1, <2>2 DEF ThreadNodes
  <2> QED
    BY <1>1, <2>3 DEF ThreadPop
<1>6. /\ Shape(stk, tbd, lst, kind, who)'
      /\ DataOf(data', stk) = DataOf(data, stk)
      /\ \A u \in Thread : u # t /\ pc[u] = "pop_take" => data'[ptr[u]] = data[ptr[u]]
  <2> HIDE DEF Shape
  <2> QED
    BY <1>1, <1>4, <1>5, LocalStep
<1>7. Effect(stk, stk)
  BY <1>1, <1>6, UnseenStep DEF Types
<1> QED
  BY <1>6, <1>7 DEF Result

-----------------------------------------------------------------------------
(* Steps that move nodes from one place to another. *)

\* A node that does not move is spared, unless it is t's and t comes to delete it.
LEMMA NodeStays ==
  ASSUME NEW t \in Thread, Others(t), NEW kind, NEW who, NEW kind2, NEW who2, NEW n \in Node,
         kind2[n] = kind[n], who2[n] = who[n], kind[n] = "stack" => next'[n] = next[n],
         kind[n] \in {"own", "list"} => who[n] \in Thread,
         kind[n] = "own" /\ who[n] = t => pc[t] \notin {"pop_take", "pop_count"},
         kind[n] = "list" /\ who[n] = t =>
           \/ pc[t] \notin {"pop_alone", "chain_load", "chain_cas"}
           \/ pc'[t] \in {"pop_alone", "chain_load", "chain_cas"}
  PROVE  NodeSpared(n, kind, who, kind2, who2)
<1>1. kind[n] \in {"own", "list"} /\ who[n] # t => pc'[who[n]] = pc[who[n]]
  BY DEF Others
<1> QED
  BY <1>1 DEF NodeSpared, Kept

\* new node: free before.
LEMMA PushCallStep ==
  ASSUME NEW stk, NEW tbd, NEW lst, NEW kind, NEW who, Shape(stk, tbd, lst, kind, who),
         NEW t \in Thread, NEW v \in Value, PushCall(t, v), UNCHANGED reclaimVars
  PROVE  Result(stk)
<1> USE DEF Shape, reclaimVars
<1>1. PICK n \in Node \ alive : /\ alive' = alive \cup {n}
                                /\ data' = [data EXCEPT ![n] = v]
                                /\ next' = [next EXCEPT ![n] = head]
                                /\ ptr' = [ptr EXCEPT ![t] = n]
  BY DEF PushCall
<1>2. PICK kind2, who2 : kind2 = [kind EXCEPT ![n] = "own"] /\ who2 = [who EXCEPT ![n] = t]
  OBVIOUS
<1>3. /\ Others(t) /\ pc[t] = "idle" /\ pc'[t] = "push_cas" /\ res'[t] = res[t] /\ ptr'[t] = n
      /\ ~Owns(t) /\ Owns(t)'
      /\ UNCHANGED <<head, to_be_deleted, first, last, nxt, res, threads_in_pop>>
  BY <1>1 DEF PushCall, Goto, Types, Others, Owns, HoldsOwn
<1>4. threads_in_pop' = Cardinality(Counted')
  <2>1. ~Counts(t) /\ ~Counts(t)'
    BY <1>3 DEF Counts
  <2>2. Counted' = Counted
    BY <1>3, <2>1, CountedOthers
  <2> QED
    BY <1>3, <2>2 DEF Types
<1>5. Types'
  <2>1. pc' = [pc EXCEPT ![t] = "push_cas"]
    BY DEF PushCall, Goto
  <2> QED
    BY <1>1, <1>3, <1>4, <2>1 DEF Types
<1>6. /\ kind[n] = "free" /\ kind2[n] = "own" /\ who2[n] = t
      /\ \A m \in Node : m # n => kind2[m] = kind[m] /\ who2[m] = who[m]
      /\ \A m \in Node : m # n => next'[m] = next[m] /\ data'[m] = data[m]
      /\ data'[n] = v
  BY <1>1, <1>2 DEF Shared, Types
<1>7. Shared(stk, tbd, kind2, who2)' /\ DataOf(data', stk) = DataOf(data, stk)
  <2>1. n \notin Elements(stk) /\ n \notin Elements(tbd)
    BY <1>6 DEF Shared
  <2>2. DOMAIN next = Node /\ DOMAIN next' = Node
    BY <1>5 DEF Types
  <2>3. Elements(stk) \subseteq Node /\ Elements(tbd) \subseteq Node
    BY DEF Shared
  <2>4. Path(Null, next', head', stk)
    BY <1>3, <1>6, <2>1, <2>2, <2>3, PathKept DEF Shared
  <2>5. Path(Null, next', to_be_deleted', tbd)
    BY <1>3, <1>6, <2>1, <2>2, <2>3, PathKept DEF Shared
  <2>6. DataOf(data', stk) = DataOf(data, stk)
    BY <1>6, <2>1, <2>3, DataKept
  <2>7. alive' = {m \in Node : kind2[m] # "free"}
    BY <1>1, <1>6 DEF Shared
  <2>8. /\ {m \in Node : kind2[m] = "stack"} = {m \in Node : kind[m] = "stack"}
        /\ {m \in Node : kind2[m] = "pending"} = {m \in Node : kind[m] = "pending"}
    BY <1>6
  <2>9. /\ kind2 \in [Node -> {"free", "stack", "pending", "own", "list"}]
        /\ who2 \in [Node -> Thread \cup {Null}]
    BY <1>2 DEF Shared
  <2>10. /\ \A m \in Node : kind2[m] \in {"own", "list"} => who2[m] \in Thread
         /\ \A m \in Node : kind2[m] = "stack" => data'[m] \in Value
    BY <1>6 DEF Shared
  <2>11. /\ Elements(stk) = {m \in Node : kind2[m] = "stack"}
         /\ Elements(tbd) = {m \in Node : kind2[m] = "pending"}
    BY <2>8 DEF Shared
  <2> QED
    BY <2>4, <2>5, <2>6, <2>7, <2>9, <2>10, <2>11 DEF Shared
<1>8. ThreadNodes(t, lst, kind2, who2)'
  <2>1. ThreadNodes(t, lst, kind, who)
    OBVIOUS
  <2>2. {m \in Node : kind2[m] = "own" /\ who2[m] = t} = {n}
    BY <1>3, <1>6, <2>1 DEF ThreadNodes
  <2>3. {m \in Node : kind2[m] = "list" /\ who2[m] = t} = {m \in Node : kind[m] = "list" /\ who[m] = t}
    BY <1>6
  <2>4. lst[t] = <<>> /\ Elements(lst[t]) = {m \in Node : kind2[m] = "list" /\ who2[m] = t}
    BY <1>3, <2>1, <2>3 DEF ThreadNodes
  <2> QED
    BY <1>3, <2>1, <2>2, <2>4 DEF ThreadNodes
<1>9. ThreadPop(t, kind2, who2)'
  BY <1>3, <1>6 DEF ThreadPop
<1>10. Apart(t, lst, kind, who, lst, kind2, who2)
  BY <1>6 DEF Apart
<1>11. Spared(t, kind, who, kind2, who2)
  <2>1. ASSUME NEW m \in Node, m # n PROVE NodeSpared(m, kind, who, kind2, who2)
    BY <1>3, <1>6, <2>1, NodeStays DEF Shared
  <2>2. NodeSpared(n, kind, who, kind2, who2)
    BY <1>6 DEF NodeSpared, Kept
  <2> QED
    BY <2>1, <2>2 DEF Spared
<1>12. /\ Shape(stk, tbd, lst, kind2, who2)'
       /\ \A u \in Thread : u # t /\ pc[u] = "pop_take" => data'[ptr[u]] = data[ptr[u]]
  <2> HIDE DEF Shape
  <2> QED
    BY <1>3, <1>5, <1>7, <1>8, <1>9, <1>10, <1>11, MoveStep
<1>13. Effect(stk, stk)
  BY <1>3, <1>7, <1>12, UnseenStep DEF Types
<1> QED
  BY <1>12, <1>13 DEF Result

\* The exchange of push: the node goes on top of the stack.
LEMMA PushStep ==
  ASSUME NEW stk, NEW tbd, NEW lst, NEW kind, NEW who, Shape(stk, tbd, lst, kind, who),
         NEW t \in Thread, PushCas(t), UNCHANGED reclaimVars, head = next[ptr[t]]
  PROVE  Result(stk)
<1> USE DEF Shape, reclaimVars
<1>1. /\ Others(t) /\ pc[t] = "push_cas" /\ pc'[t] = "idle" /\ res'[t] = res[t] /\ ptr'[t] = Null
      /\ Owns(t) /\ ~Owns(t)' /\ head' = ptr[t]
      /\ UNCHANGED <<next, data, alive, to_be_deleted, first, last, nxt, res, threads_in_pop>>
  BY DEF PushCas, Return, Goto, Types, Others, Owns, HoldsOwn
<1>2. PICK n \in Node : n = ptr[t] /\ kind[n] = "own" /\ who[n] = t
  <2>1. ptr[t] \in {n \in Node : kind[n] = "own" /\ who[n] = t}
    BY <1>1 DEF ThreadNodes
  <2> QED
    BY <2>1
<1>3. PICK kind2, stk2 : kind2 = [kind EXCEPT ![n] = "stack"] /\ stk2 = <<n>> \o stk
  OBVIOUS
<1>4. threads_in_pop' = Cardinality(Counted')
  <2>1. ~Counts(t) /\ ~Counts(t)'
    BY <1>1 DEF Counts
  <2>2. Counted' = Counted
    BY <1>1, <2>1, CountedOthers
  <2> QED
    BY <1>1, <2>2 DEF Types
<1>5. Types'
  <2>1. pc' = [pc EXCEPT ![t] = "idle"] /\ ptr' = [ptr EXCEPT ![t] = Null]
    BY <1>1 DEF PushCas, Return, Goto
  <2> QED
    BY <1>1, <1>4, <2>1 DEF Types
<1>6. /\ kind2[n] = "stack"
      /\ \A m \in Node : m # n => kind2[m] = kind[m]
  BY <1>3 DEF Shared
<1>7. /\ Path(Null, next, n, stk2) /\ Elements(stk2) = Elements(stk) \cup {n}
      /\ DataOf(data, stk2) = <<data[n]>> \o DataOf(data, stk)
  <2>1. n \notin Elements(stk)
    BY <1>2 DEF Shared
  <2>2. DOMAIN next = Node /\ DOMAIN data = Node
    BY DEF Types
  <2>3. Path(Null, next, head, stk) /\ head = next[n]
    BY <1>2 DEF Shared
  <2>4. stk \in Seq(Node)
    BY <2>2, <2>3, Finite, PathElements
  <2>5. Path(Null, next, n, stk2) /\ Elements(stk2) = Elements(stk) \cup {n}
    BY <1>3, <2>1, <2>2, <2>3, Finite, PathCons
  <2>6. DataOf(data, stk2) = <<data[n]>> \o DataOf(data, stk)
    BY <1>3, <2>2, <2>4, DataCons
  <2> QED
    BY <2>5, <2>6
<1>8. data[n] \in Value
  BY <1>1, <1>2 DEF ThreadPop
<1>9. Shared(stk2, tbd, kind2, who)'
  <2>1. kind2 \in [Node -> {"free", "stack", "pending", "own", "list"}]
    BY <1>3 DEF Shared
  <2>2. alive' = {m \in Node : kind2[m] # "free"}
    BY <1>1, <1>2, <1>6 DEF Shared
  <2>3. /\ Elements(stk2) = {m \in Node : kind2[m] = "stack"}
        /\ Elements(tbd) = {m \in Node : kind2[m] = "pending"}
    BY <1>2, <1>6, <1>7 DEF Shared
  <2>4. /\ \A m \in Node : kind2[m] \in {"own", "list"} => who[m] \in Thread
        /\ \A m \in Node : kind2[m] = "stack" => data[m] \in Value
    BY <1>6, <1>8 DEF Shared
  <2> QED
    BY <1>1, <1>2, <1>7, <2>1, <2>2, <2>3, <2>4 DEF Shared
<1>10. ThreadNodes(t, lst, kind2, who)'
  <2>1. ThreadNodes(t, lst, kind, who)
    OBVIOUS
  <2>2. {m \in Node : kind2[m] = "own" /\ who[m] = t} = {}
    BY <1>1, <1>2, <1>6, <2>1 DEF ThreadNodes
  <2>3. {m \in Node : kind2[m] = "list" /\ who[m] = t} = {m \in Node : kind[m] = "list" /\ who[m] = t}
    BY <1>2, <1>6
  <2>4. lst[t] = <<>> /\ Elements(lst[t]) = {m \in Node : kind2[m] = "list" /\ who[m] = t}
    BY <1>1, <2>1, <2>3 DEF ThreadNodes
  <2> QED
    BY <1>1, <2>1, <2>2, <2>4 DEF ThreadNodes
<1>11. ThreadPop(t, kind2, who)'
  BY <1>1 DEF ThreadPop
<1>12. Apart(t, lst, kind, who, lst, kind2, who)
  BY <1>1, <1>2, <1>6 DEF Apart
<1>13. Spared(t, kind, who, kind2, who)
  <2>1. ASSUME NEW m \in Node, m # n PROVE NodeSpared(m, kind, who, kind2, who)
    <3>1. kind2[m] = kind[m] /\ next'[m] = next[m]
      BY <1>1, <1>6, <2>1
    <3> QED
      BY <1>1, <3>1, NodeStays DEF Shared
  <2>2. NodeSpared(n, kind, who, kind2, who)
    BY <1>1, <1>2 DEF NodeSpared, Kept
  <2> QED
    BY <2>1, <2>2 DEF Spared
<1>14. /\ Shape(stk2, tbd, lst, kind2, who)'
       /\ \A u \in Thread : u # t /\ pc[u] = "pop_take" => data'[ptr[u]] = data[ptr[u]]
  <2> HIDE DEF Shape
  <2> QED
    BY <1>1, <1>5, <1>9, <1>10, <1>11, <1>12, <1>13, MoveStep
<1>15. Effect(stk, stk2)
  <2>1. Taken'[t] = Taken[t]
    BY <1>1 DEF Taken
  <2>2. Taken' = Taken
    BY <1>1, <1>14, <2>1, TakenOthers DEF Types
  <2>3. DataOf(data', stk2) = <<data[n]>> \o DataOf(data, stk)
    BY <1>1, <1>7
  <2> QED
    BY <1>8, <2>2, <2>3 DEF Effect
<1> QED
  BY <1>14, <1>15 DEF Result

\* The exchange of push fails: the node is linked to the new head.
LEMMA PushRetryStep ==
  ASSUME NEW stk, NEW tbd, NEW lst, NEW kind, NEW who, Shape(stk, tbd, lst, kind, who),
         NEW t \in Thread, PushCas(t), UNCHANGED reclaimVars, head # next[ptr[t]]
  PROVE  Result(stk)
<1> USE DEF Shape, reclaimVars
<1>1. /\ Others(t) /\ pc[t] = "push_cas" /\ pc' = pc /\ Owns(t) /\ Owns(t)'
      /\ next' = [next EXCEPT ![ptr[t]] = head]
      /\ UNCHANGED <<head, ptr, data, alive, to_be_deleted, first, last, nxt, res, threads_in_pop>>
  BY DEF PushCas, Types, Others, Owns, HoldsOwn
<1>2. PICK n \in Node : n = ptr[t] /\ kind[n] = "own" /\ who[n] = t
  <2>1. ptr[t] \in {n \in Node : kind[n] = "own" /\ who[n] = t}
    BY <1>1 DEF ThreadNodes
  <2> QED
    BY <2>1
<1>3. Types'
  <2>1. Counted' = Counted
    BY <1>1 DEF Counted
  <2>2. next' \in [Node -> Node \cup {Null}]
    BY <1>1, <1>2 DEF Types
  <2> QED
    BY <1>1, <2>1, <2>2 DEF Types
<1>4. \A m \in Node : m # n => next'[m] = next[m]
  BY <1>1, <1>2 DEF Types
<1>5. Shared(stk, tbd, kind, who)' /\ DataOf(data', stk) = DataOf(data, stk)
  <2>1. DOMAIN next' = DOMAIN next
    BY <1>1
  <2> QED
    BY <1>1, <1>2, <1>4, <2>1, SharedKept
<1>6. ThreadNodes(t, lst, kind, who)' /\ ThreadPop(t, kind, who)'
  <2>1. ThreadNodes(t, lst, kind, who) /\ ThreadPop(t, kind, who)
    OBVIOUS
  <2> QED
    BY <1>1, <2>1 DEF ThreadNodes, ThreadPop
<1>7. Apart(t, lst, kind, who, lst, kind, who)
  BY <1>1, <1>2, <1>4 DEF Apart
<1>8. ASSUME NEW m \in Node PROVE NodeSpared(m, kind, who, kind, who)
  BY <1>1, <1>2, <1>4, NodeStays DEF Shared
<1>9. Spared(t, kind, who, kind, who)
  BY <1>8 DEF Spared
<1>10. /\ Shape(stk, tbd, lst, kind, who)'
       /\ \A u \in Thread : u # t /\ pc[u] = "pop_take" => data'[ptr[u]] = data[ptr[u]]
  <2> HIDE DEF Shape
  <2> QED
    BY <1>1, <1>3, <1>5, <1>6, <1>7, <1>9, MoveStep
<1>11. Effect(stk, stk)
  BY <1>1, <1>5, <1>10, UnseenStep DEF Types
<1> QED
  BY <1>10, <1>11 DEF Result

\* The exchange of pop: the node on top of the stack becomes the thread's own.
LEMMA UnlinkStep ==
  ASSUME NEW stk, NEW tbd, NEW lst, NEW kind, NEW who, Shape(stk, tbd, lst, kind, who),
         NEW t \in Thread, Unlink(t)
  PROVE  Result(stk)
<1> USE DEF Shape, reclaimVars
<1>1. /\ Others(t) /\ pc[t] = "pop_cas" /\ pc'[t] = "pop_take" /\ res'[t] = res[t]
      /\ head = ptr[t] /\ head' = nxt[t] /\ ~Owns(t) /\ Owns(t)'
      /\ UNCHANGED <<next, ptr, data, alive, to_be_deleted, first, last, res, threads_in_pop>>
  BY DEF Unlink, PopUnlink, Goto, Types, Others, Owns, HoldsOwn
<1>2. /\ ptr[t] \in Node /\ res[t] = None
      /\ kind[ptr[t]] = "stack" => nxt[t] = next[ptr[t]]
  BY <1>1 DEF ThreadPop
<1>3. DOMAIN next = Node /\ DOMAIN data = Node /\ Path(Null, next, head, stk)
  BY DEF Types, Shared
<1>4. PICK n \in Node : n = ptr[t] /\ n = head /\ n # Null
  BY <1>1, <1>2, Finite
<1>5. PICK kind2, who2, stk2 : /\ kind2 = [kind EXCEPT ![n] = "own"]
                               /\ who2 = [who EXCEPT ![n] = t]
                               /\ stk2 = Tail(stk)
  OBVIOUS
<1>6. /\ stk # <<>> /\ n = stk[1] /\ n \in Elements(stk) /\ stk \in Seq(Node)
      /\ Path(Null, next, next[n], stk2) /\ Elements(stk2) = Elements(stk) \ {n}
  BY <1>3, <1>4, <1>5, Finite, PathTail, PathElements
<1>7. kind[n] = "stack" /\ head' = next[n] /\ data[n] \in Value
  BY <1>1, <1>2, <1>4, <1>6 DEF Shared
<1>8. threads_in_pop' = Cardinality(Counted')
  <2>1. Counts(t) /\ Counts(t)'
    BY <1>1 DEF Counts
  <2>2. Counted' = Counted
    BY <1>1, <2>1, CountedOthers
  <2> QED
    BY <1>1, <2>2 DEF Types
<1>9. Types'
  <2>1. pc' = [pc EXCEPT ![t] = "pop_take"] /\ nxt' = [nxt EXCEPT ![t] = Null]
    BY DEF Unlink, PopUnlink, Goto
  <2> QED
    BY <1>1, <1>8, <2>1 DEF Types
<1>10. /\ kind2[n] = "own" /\ who2[n] = t
       /\ \A m \in Node : m # n => kind2[m] = kind[m] /\ who2[m] = who[m]
  BY <1>5 DEF Shared
<1>11. Shared(stk2, tbd, kind2, who2)'
  <2>1. /\ kind2 \in [Node -> {"free", "stack", "pending", "own", "list"}]
        /\ who2 \in [Node -> Thread \cup {Null}]
    BY <1>5 DEF Shared
  <2>2. alive' = {m \in Node : kind2[m] # "free"}
    BY <1>1, <1>7, <1>10 DEF Shared
  <2>3. /\ Elements(stk2) = {m \in Node : kind2[m] = "stack"}
        /\ Elements(tbd) = {m \in Node : kind2[m] = "pending"}
    BY <1>6, <1>7, <1>10 DEF Shared
  <2>4. /\ \A m \in Node : kind2[m] \in {"own", "list"} => who2[m] \in Thread
        /\ \A m \in Node : kind2[m] = "stack" => data[m] \in Value
    BY <1>10 DEF Shared
  <2> QED
    BY <1>1, <1>6, <1>7, <2>1, <2>2, <2>3, <2>4 DEF Shared
<1>12. ThreadNodes(t, lst, kind2, who2)'
  <2>1. ThreadNodes(t, lst, kind, who)
    OBVIOUS
  <2>2. {m \in Node : kind2[m] = "own" /\ who2[m] = t} = {n}
    BY <1>1, <1>10, <2>1 DEF ThreadNodes
  <2>3. {m \in Node : kind2[m] = "list" /\ who2[m] = t} = {m \in Node : kind[m] = "list" /\ who[m] = t}
    BY <1>7, <1>10
  <2>4. lst[t] = <<>> /\ Elements(lst[t]) = {m \in Node : kind2[m] = "list" /\ who2[m] = t}
    BY <1>1, <2>1, <2>3 DEF ThreadNodes
  <2> QED
    BY <1>1, <1>4, <2>1, <2>2, <2>4 DEF ThreadNodes
<1>13. ThreadPop(t, kind2, who2)'
  BY <1>1, <1>2, <1>4, <1>7 DEF ThreadPop
<1>14. Apart(t, lst, kind, who, lst, kind2, who2)
  BY <1>1, <1>7, <1>10 DEF Apart
<1>15. Spared(t, kind, who, kind2, who2)
  <2>1. ASSUME NEW m \in Node, m # n PROVE NodeSpared(m, kind, who, kind2, who2)
    <3>1. kind2[m] = kind[m] /\ who2[m] = who[m] /\ next'[m] = next[m]
      BY <1>1, <1>10, <2>1
    <3> QED
      BY <1>1, <3>1, NodeStays DEF Shared
  <2>2. NodeSpared(n, kind, who, kind2, who2)
    BY <1>1, <1>10 DEF NodeSpared, Kept
  <2> QED
    BY <2>1, <2>2 DEF Spared
<1>16. /\ Shape(stk2, tbd, lst, kind2, who2)'
       /\ \A u \in Thread : u # t /\ pc[u] = "pop_take" => data'[ptr[u]] = data[ptr[u]]
  <2> HIDE DEF Shape
  <2> QED
    BY <1>1, <1>9, <1>11, <1>12, <1>13, <1>14, <1>15, MoveStep
<1>17. Effect(stk, stk2)
  <2>1. Taken'[t] = data[n] /\ Taken[t] = None
    BY <1>1, <1>2, <1>4 DEF Taken
  <2>2. Taken' = [Taken EXCEPT ![t] = data[n]]
    BY <1>1, <1>16, <2>1, TakenOthers DEF Types
  <2>3. /\ DataOf(data, stk) # <<>> /\ Head(DataOf(data, stk)) = data[n]
        /\ DataOf(data', stk2) = Tail(DataOf(data, stk))
    BY <1>1, <1>3, <1>5, <1>6, DataTail
  <2> QED
    BY <2>1, <2>2, <2>3 DEF Effect
<1> QED
  BY <1>16, <1>17 DEF Result

\* Not alone in pop: the own node becomes a list of one.
LEMMA PopGiveStep ==
  ASSUME NEW stk, NEW tbd, NEW lst, NEW kind, NEW who, Shape(stk, tbd, lst, kind, who),
         NEW t \in Thread, PopCount(t), threads_in_pop # 1
  PROVE  Result(stk)
<1> USE DEF Shape, nodeVars
<1>1. /\ Others(t) /\ pc[t] = "pop_count" /\ pc'[t] = "chain_load" /\ res'[t] = res[t]
      /\ first'[t] = ptr[t] /\ last'[t] = ptr[t] /\ Owns(t) /\ ~Owns(t)'
      /\ UNCHANGED <<head, next, ptr, data, alive, to_be_deleted, nxt, res, threads_in_pop>>
  BY DEF PopCount, Goto, Types, Others, Owns, HoldsOwn
<1>2. PICK n \in Node : n = ptr[t] /\ kind[n] = "own" /\ who[n] = t
  <2>1. ptr[t] \in {n \in Node : kind[n] = "own" /\ who[n] = t}
    BY <1>1 DEF ThreadNodes
  <2> QED
    BY <2>1
<1>3. PICK kind2, lst2 : /\ kind2 = [kind EXCEPT ![n] = "list"]
                         /\ lst2 = [u \in Thread |-> IF u = t THEN <<n>> ELSE lst[u]]
  OBVIOUS
<1>4. threads_in_pop' = Cardinality(Counted')
  <2>1. Counts(t) /\ Counts(t)'
    BY <1>1 DEF Counts
  <2>2. Counted' = Counted
    BY <1>1, <2>1, CountedOthers
  <2> QED
    BY <1>1, <2>2 DEF Types
<1>5. Types'
  <2>1. /\ pc' = [pc EXCEPT ![t] = "chain_load"]
        /\ first' = [first EXCEPT ![t] = ptr[t]] /\ last' = [last EXCEPT ![t] = ptr[t]]
    BY <1>1 DEF PopCount, Goto
  <2> QED
    BY <1>1, <1>2, <1>4, <2>1 DEF Types
<1>6. /\ kind2[n] = "list" /\ \A m \in Node : m # n => kind2[m] = kind[m]
      /\ lst2[t] = <<n>> /\ \A u \in Thread : u # t => lst2[u] = lst[u]
  BY <1>3 DEF Shared
<1>7. Shared(stk, tbd, kind2, who)' /\ DataOf(data', stk) = DataOf(data, stk)
  <2>1. kind2 \in [Node -> {"free", "stack", "pending", "own", "list"}]
    BY <1>3 DEF Shared
  <2>2. alive' = {m \in Node : kind2[m] # "free"}
    BY <1>1, <1>2, <1>6 DEF Shared
  <2>3. /\ Elements(stk) = {m \in Node : kind2[m] = "stack"}
        /\ Elements(tbd) = {m \in Node : kind2[m] = "pending"}
    BY <1>2, <1>6 DEF Shared
  <2>4. /\ \A m \in Node : kind2[m] \in {"own", "list"} => who[m] \in Thread
        /\ \A m \in Node : kind2[m] = "stack" => data[m] \in Value
    BY <1>2, <1>6 DEF Shared
  <2> QED
    BY <1>1, <2>1, <2>2, <2>3, <2>4 DEF Shared
<1>8. ThreadNodes(t, lst2, kind2, who)'
  <2>1. ThreadNodes(t, lst, kind, who)
    OBVIOUS
  <2>2. {m \in Node : kind2[m] = "own" /\ who[m] = t} = {}
    BY <1>1, <1>2, <1>6, <2>1 DEF ThreadNodes
  <2>3. {m \in Node : kind2[m] = "list" /\ who[m] = t} = {n}
    <3>1. {m \in Node : kind[m] = "list" /\ who[m] = t} = {}
      <4>1. lst[t] = <<>>
        BY <1>1, <2>1 DEF ThreadNodes
      <4> QED
        BY <2>1, <4>1, PathEmpty DEF ThreadNodes
    <3> QED
      BY <1>2, <1>6, <3>1
  <2>4. n \in DOMAIN next
    BY <1>2 DEF Types
  <2>5. Segment(next, <<n>>) /\ Elements(<<n>>) = {n} /\ Len(<<n>>) = 1 /\ <<n>>[1] = n
    BY <2>4, SegmentOne
  <2>6. <<n>> \in Seq(Node) /\ <<n>> # <<>>
    BY <1>2
  <2>7. PICK s : s = <<n>>
    OBVIOUS
  <2>8. /\ Segment(next', s) /\ Elements(s) = {n} /\ s \in Seq(Node) /\ s # <<>>
        /\ first'[t] = s[1] /\ last'[t] = s[Len(s)]
    BY <1>1, <1>2, <2>5, <2>6, <2>7
  <2>9. lst2[t] = s
    BY <1>6, <2>7
  <2> QED
    BY <1>1, <2>2, <2>3, <2>8, <2>9 DEF ThreadNodes
<1>9. ThreadPop(t, kind2, who)'
  BY <1>1 DEF ThreadPop
<1>10. Apart(t, lst, kind, who, lst2, kind2, who)
  BY <1>1, <1>2, <1>6 DEF Apart
<1>11. Spared(t, kind, who, kind2, who)
  <2>1. ASSUME NEW m \in Node, m # n PROVE NodeSpared(m, kind, who, kind2, who)
    <3>1. kind2[m] = kind[m] /\ next'[m] = next[m]
      BY <1>1, <1>6, <2>1
    <3>2. kind[m] = "own" => who[m] # t
      BY <1>1, <1>2, <2>1 DEF ThreadNodes
    <3> QED
      BY <1>1, <3>1, <3>2, NodeStays DEF Shared
  <2>2. NodeSpared(n, kind, who, kind2, who)
    BY <1>1, <1>2, <1>6 DEF NodeSpared, Kept
  <2> QED
    BY <2>1, <2>2 DEF Spared
<1>12. /\ Shape(stk, tbd, lst2, kind2, who)'
       /\ \A u \in Thread : u # t /\ pc[u] = "pop_take" => data'[ptr[u]] = data[ptr[u]]
  <2> HIDE DEF Shape
  <2> QED
    BY <1>1, <1>5, <1>7, <1>8, <1>9, <1>10, <1>11, MoveStep
<1>13. Effect(stk, stk)
  BY <1>1, <1>7, <1>12, UnseenStep DEF Types
<1> QED
  BY <1>12, <1>13 DEF Result

\* nodes_to_delete = to_be_deleted.exchange(nullptr)
LEMMA PopExchangeStep ==
  ASSUME NEW stk, NEW tbd, NEW lst, NEW kind, NEW who, Shape(stk, tbd, lst, kind, who),
         NEW t \in Thread, PopExchange(t)
  PROVE  Result(stk)
<1> USE DEF Shape, nodeVars
<1>1. /\ Others(t) /\ pc[t] = "pop_exchange" /\ pc'[t] = "pop_alone" /\ res'[t] = res[t]
      /\ first'[t] = to_be_deleted /\ to_be_deleted' = Null /\ Owns(t) /\ Owns(t)'
      /\ UNCHANGED <<head, next, ptr, data, alive, last, nxt, res, threads_in_pop>>
  BY DEF PopExchange, Goto, Types, Others, Owns, HoldsOwn
<1>2. PICK kind2, who2, lst2 :
        /\ kind2 = [m \in Node |-> IF kind[m] = "pending" THEN "list" ELSE kind[m]]
        /\ who2 = [m \in Node |-> IF kind[m] = "pending" THEN t ELSE who[m]]
        /\ lst2 = [u \in Thread |-> IF u = t THEN tbd ELSE lst[u]]
  OBVIOUS
<1>3. threads_in_pop' = Cardinality(Counted')
  <2>1. Counts(t) /\ Counts(t)'
    BY <1>1 DEF Counts
  <2>2. Counted' = Counted
    BY <1>1, <2>1, CountedOthers
  <2> QED
    BY <1>1, <2>2 DEF Types
<1>4. Types'
  <2>1. /\ pc' = [pc EXCEPT ![t] = "pop_alone"]
        /\ first' = [first EXCEPT ![t] = to_be_deleted]
    BY <1>1 DEF PopExchange, Goto
  <2> QED
    BY <1>1, <1>3, <2>1 DEF Types
<1>5. /\ \A m \in Node : kind[m] = "pending" => kind2[m] = "list" /\ who2[m] = t
      /\ \A m \in Node : kind[m] # "pending" => kind2[m] = kind[m] /\ who2[m] = who[m]
      /\ lst2[t] = tbd /\ \A u \in Thread : u # t => lst2[u] = lst[u]
  BY <1>2
<1>6. Shared(stk, <<>>, kind2, who2)' /\ DataOf(data', stk) = DataOf(data, stk)
  <2>1. /\ kind2 \in [Node -> {"free", "stack", "pending", "own", "list"}]
        /\ who2 \in [Node -> Thread \cup {Null}]
    BY <1>2 DEF Shared
  <2>2. alive' = {m \in Node : kind2[m] # "free"}
    BY <1>1, <1>5 DEF Shared
  <2>3. /\ Elements(stk) = {m \in Node : kind2[m] = "stack"}
        /\ Elements(<<>>) = {m \in Node : kind2[m] = "pending"}
    BY <1>5, PathEmpty DEF Shared
  <2>4. /\ \A m \in Node : kind2[m] \in {"own", "list"} => who2[m] \in Thread
        /\ \A m \in Node : kind2[m] = "stack" => data[m] \in Value
    BY <1>5 DEF Shared
  <2>5. Path(Null, next, Null, <<>>)
    BY PathEmpty
  <2> QED
    BY <1>1, <2>1, <2>2, <2>3, <2>4, <2>5 DEF Shared
<1>7. ThreadNodes(t, lst2, kind2, who2)'
  <2>1. ThreadNodes(t, lst, kind, who)
    OBVIOUS
  <2>2. {m \in Node : kind2[m] = "own" /\ who2[m] = t} = {ptr[t]}
    <3>1. {m \in Node : kind[m] = "own" /\ who[m] = t} = {ptr[t]}
      BY <1>1, <2>1 DEF ThreadNodes
    <3>2. \A m \in Node : kind2[m] = "own" /\ who2[m] = t <=> kind[m] = "own" /\ who[m] = t
      BY <1>5
    <3> QED
      BY <3>1, <3>2
  <2>3. Elements(tbd) = {m \in Node : kind2[m] = "list" /\ who2[m] = t}
    <3>1. {m \in Node : kind[m] = "list" /\ who[m] = t} = {}
      <4>1. lst[t] = <<>>
        BY <1>1, <2>1 DEF ThreadNodes
      <4> QED
        BY <2>1, <4>1, PathEmpty DEF ThreadNodes
    <3> QED
      BY <1>5, <3>1 DEF Shared
  <2>4. Path(Null, next, to_be_deleted, tbd) /\ tbd \in Seq(Node)
    <3>1. DOMAIN next = Node /\ Path(Null, next, to_be_deleted, tbd)
      BY DEF Types, Shared
    <3> QED
      BY <3>1, Finite, PathElements
  <2> QED
    BY <1>1, <1>5, <2>2, <2>3, <2>4 DEF ThreadNodes
<1>8. ThreadPop(t, kind2, who2)'
  BY <1>1 DEF ThreadPop
<1>9. Apart(t, lst, kind, who, lst2, kind2, who2)
  BY <1>1, <1>5 DEF Apart
<1>10. Spared(t, kind, who, kind2, who2)
  <2>1. ASSUME NEW m \in Node, kind[m] # "pending" PROVE NodeSpared(m, kind, who, kind2, who2)
    <3>1. kind2[m] = kind[m] /\ who2[m] = who[m] /\ next'[m] = next[m]
      BY <1>1, <1>5, <2>1
    <3> QED
      BY <1>1, <3>1, NodeStays DEF Shared
  <2>2. ASSUME NEW m \in Node, kind[m] = "pending" PROVE NodeSpared(m, kind, who, kind2, who2)
    BY <1>1, <1>5, <2>2 DEF NodeSpared, Kept
  <2> QED
    BY <2>1, <2>2 DEF Spared
<1>11. /\ Shape(stk, <<>>, lst2, kind2, who2)'
       /\ \A u \in Thread : u # t /\ pc[u] = "pop_take" => data'[ptr[u]] = data[ptr[u]]
  <2> HIDE DEF Shape
  <2> QED
    BY <1>1, <1>4, <1>6, <1>7, <1>8, <1>9, <1>10, MoveStep
<1>12. Effect(stk, stk)
  BY <1>1, <1>6, <1>11, UnseenStep DEF Types
<1> QED
  BY <1>11, <1>12 DEF Result

\* One round of delete_nodes: the first node of the list is freed.
LEMMA DeleteFirstStep ==
  ASSUME NEW stk, NEW tbd, NEW lst, NEW kind, NEW who, Shape(stk, tbd, lst, kind, who),
         NEW t \in Thread, DeleteNodes(t), first[t] # Null
  PROVE  Result(stk)
<1> USE DEF Shape
<1>1. /\ Others(t) /\ pc[t] = "delete_nodes" /\ pc' = pc /\ Owns(t) /\ Owns(t)'
      /\ first'[t] = next[first[t]]
      /\ UNCHANGED <<head, ptr, to_be_deleted, last, nxt, res, threads_in_pop>>
  BY DEF DeleteNodes, Delete, Types, Others, Owns, HoldsOwn
<1>2. /\ ThreadNodes(t, lst, kind, who) /\ Path(Null, next, first[t], lst[t])
      /\ lst[t] \in Seq(Node) /\ DOMAIN next = Node
      /\ Elements(lst[t]) = {m \in Node : kind[m] = "list" /\ who[m] = t}
  BY <1>1 DEF ThreadNodes, Types
<1>3. PICK n \in Node : n = first[t]
  BY DEF DeleteNodes, Types
<1>4. PICK rest : rest = Tail(lst[t])
  OBVIOUS
<1>5. /\ Path(Null, next, next[n], rest) /\ lst[t] # <<>>
      /\ Elements(rest) = Elements(lst[t]) \ {n} /\ n \in Elements(lst[t])
  BY <1>2, <1>3, <1>4, Finite, PathTail
<1>6. PICK kind2, lst2 : /\ kind2 = [kind EXCEPT ![n] = "free"]
                         /\ lst2 = [u \in Thread |-> IF u = t THEN rest ELSE lst[u]]
  OBVIOUS
<1>7. /\ alive' = alive \ {n}
      /\ next' = [next EXCEPT ![n] = Null]
      /\ data' = [data EXCEPT ![n] = None]
      /\ first' = [first EXCEPT ![t] = next[n]]
  BY <1>3 DEF DeleteNodes, Delete
<1>8. Types'
  <2>1. Counted' = Counted
    <3>1. ~Counts(t) /\ ~Counts(t)'
      BY <1>1 DEF Counts
    <3> QED
      BY <1>1, <3>1, CountedOthers
  <2> QED
    BY <1>1, <1>7, <2>1 DEF Types
<1>9. /\ kind[n] = "list" /\ who[n] = t /\ kind2[n] = "free"
      /\ \A m \in Node : m # n => kind2[m] = kind[m]
      /\ \A m \in Node : m # n => next'[m] = next[m] /\ data'[m] = data[m]
      /\ lst2[t] = rest /\ \A u \in Thread : u # t => lst2[u] = lst[u]
  BY <1>2, <1>5, <1>6, <1>7 DEF Shared, Types
<1>10. Shared(stk, tbd, kind2, who)' /\ DataOf(data', stk) = DataOf(data, stk)
  <2>1. n \notin Elements(stk) /\ n \notin Elements(tbd)
    BY <1>9 DEF Shared
  <2>2. DOMAIN next' = Node
    BY <1>8 DEF Types
  <2>3. Elements(stk) \subseteq Node /\ Elements(tbd) \subseteq Node
    BY DEF Shared
  <2>4. Path(Null, next', head', stk)
    BY <1>1, <1>2, <1>9, <2>1, <2>2, <2>3, PathKept DEF Shared
  <2>5. Path(Null, next', to_be_deleted', tbd)
    BY <1>1, <1>2, <1>9, <2>1, <2>2, <2>3, PathKept DEF Shared
  <2>6. DataOf(data', stk) = DataOf(data, stk)
    BY <1>9, <2>1, <2>3, DataKept
  <2>7. kind2 \in [Node -> {"free", "stack", "pending", "own", "list"}]
    BY <1>6 DEF Shared
  <2>8. alive' = {m \in Node : kind2[m] # "free"}
    BY <1>7, <1>9 DEF Shared
  <2>9. /\ Elements(stk) = {m \in Node : kind2[m] = "stack"}
        /\ Elements(tbd) = {m \in Node : kind2[m] = "pending"}
    BY <1>9 DEF Shared
  <2>10. /\ \A m \in Node : kind2[m] \in {"own", "list"} => who[m] \in Thread
         /\ \A m \in Node : kind2[m] = "stack" => data'[m] \in Value
    BY <1>9 DEF Shared
  <2> QED
    BY <2>4, <2>5, <2>6, <2>7, <2>8, <2>9, <2>10 DEF Shared
<1>11. ThreadNodes(t, lst2, kind2, who)'
  <2>1. {m \in Node : kind2[m] = "own" /\ who[m] = t} = {ptr[t]}
    <3>1. {m \in Node : kind[m] = "own" /\ who[m] = t} = {ptr[t]}
      BY <1>1, <1>2 DEF ThreadNodes
    <3>2. \A m \in Node : kind2[m] = "own" /\ who[m] = t <=> kind[m] = "own" /\ who[m] = t
      BY <1>9
    <3> QED
      BY <3>1, <3>2
  <2>2. Elements(rest) = {m \in Node : kind2[m] = "list" /\ who[m] = t}
    BY <1>2, <1>5, <1>9
  <2>3. \A m \in Elements(rest) : next'[m] = next[m]
    BY <1>2, <1>5, <1>9
  <2>4. DOMAIN next' = DOMAIN next
    BY <1>7
  <2>5. Path(Null, next', next[n], rest)
    BY <1>5, <2>3, <2>4, PathKept
  <2>6. rest \in Seq(Node)
    BY <1>2, <1>4, <1>5
  <2>7. first'[t] = next[n]
    BY <1>1, <1>3
  <2> QED
    BY <1>1, <1>9, <2>1, <2>2, <2>5, <2>6, <2>7 DEF ThreadNodes
<1>12. ThreadPop(t, kind2, who)'
  BY <1>1 DEF ThreadPop
<1>13. Apart(t, lst, kind, who, lst2, kind2, who)
  BY <1>9 DEF Apart
<1>14. Spared(t, kind, who, kind2, who)
  <2>1. ASSUME NEW m \in Node, m # n PROVE NodeSpared(m, kind, who, kind2, who)
    <3>1. kind2[m] = kind[m] /\ next'[m] = next[m]
      BY <1>9, <2>1
    <3> QED
      BY <1>1, <3>1, NodeStays DEF Shared
  <2>2. NodeSpared(n, kind, who, kind2, who)
    BY <1>1, <1>9 DEF NodeSpared, Kept
  <2> QED
    BY <2>1, <2>2 DEF Spared
<1>15. /\ Shape(stk, tbd, lst2, kind2, who)'
       /\ \A u \in Thread : u # t /\ pc[u] = "pop_take" => data'[ptr[u]] = data[ptr[u]]
  <2> HIDE DEF Shape
  <2>1. Others(t) /\ Types' /\ Shared(stk, tbd, kind2, who)'
    BY <1>1, <1>8, <1>10
  <2>2. ThreadNodes(t, lst2, kind2, who)' /\ ThreadPop(t, kind2, who)'
    BY <1>11, <1>12
  <2>3. Apart(t, lst, kind, who, lst2, kind2, who) /\ Spared(t, kind, who, kind2, who)
    BY <1>13, <1>14
  <2> QED
    BY <2>1, <2>2, <2>3, MoveStep
<1>16. Effect(stk, stk)
  BY <1>1, <1>10, <1>15, UnseenStep DEF Types
<1> QED
  BY <1>15, <1>16 DEF Result

\* last->next = to_be_deleted, the first time or after a failed exchange.
LEMMA RelinkStep ==
  ASSUME NEW stk, NEW tbd, NEW lst, NEW kind, NEW who, Shape(stk, tbd, lst, kind, who),
         NEW t \in Thread, pc[t] \in {"chain_load", "chain_cas"},
         next' = [next EXCEPT ![last[t]] = to_be_deleted],
         pc' = [pc EXCEPT ![t] = "chain_cas"],
         UNCHANGED <<head, data, alive, ptr, nxt, res, reclaimVars>>
  PROVE  Result(stk)
<1> USE DEF Shape, reclaimVars
<1>1. /\ Others(t) /\ pc'[t] = "chain_cas" /\ (Owns(t)' <=> Owns(t)) /\ (Counts(t)' <=> Counts(t))
  BY DEF Types, Others, Owns, HoldsOwn, Counts
<1>2. /\ ThreadNodes(t, lst, kind, who) /\ Segment(next, lst[t])
      /\ lst[t] \in Seq(Node) /\ DOMAIN next = Node
      /\ Elements(lst[t]) = {m \in Node : kind[m] = "list" /\ who[m] = t}
      /\ lst[t] # <<>> /\ last[t] = lst[t][Len(lst[t])]
  BY DEF ThreadNodes, Types
<1>3. PICK n \in Node : n = last[t] /\ kind[n] = "list" /\ who[n] = t
  <2>1. Len(lst[t]) \in 1..Len(lst[t])
    BY <1>2
  <2>2. lst[t][Len(lst[t])] \in Elements(lst[t])
    BY <2>1 DEF Elements
  <2> QED
    BY <1>2, <2>2
<1>4. Types'
  <2>1. Counted' = Counted
    BY <1>1, CountedOthers
  <2> QED
    BY <1>3, <2>1 DEF Types
<1>5. \A m \in Node : m # n => next'[m] = next[m]
  BY <1>3 DEF Types
<1>6. Shared(stk, tbd, kind, who)' /\ DataOf(data', stk) = DataOf(data, stk)
  <2>1. DOMAIN next' = DOMAIN next
    OBVIOUS
  <2> QED
    BY <1>3, <1>5, <2>1, SharedKept
<1>7. ThreadNodes(t, lst, kind, who)'
  <2>1. \A m \in Elements(lst[t]) : m = lst[t][Len(lst[t])] \/ next'[m] = next[m]
    BY <1>2, <1>3, <1>5
  <2>2. DOMAIN next' = DOMAIN next
    OBVIOUS
  <2>3. Segment(next', lst[t])
    BY <1>2, <2>1, <2>2, SegmentKept
  <2> QED
    BY <1>1, <1>2, <2>3 DEF ThreadNodes
<1>8. ThreadPop(t, kind, who)'
  BY <1>1 DEF ThreadPop
<1>9. Apart(t, lst, kind, who, lst, kind, who)
  BY <1>3, <1>5 DEF Apart
<1>10. ASSUME NEW m \in Node PROVE NodeSpared(m, kind, who, kind, who)
  BY <1>1, <1>3, <1>5, NodeStays DEF Shared
<1>11. Spared(t, kind, who, kind, who)
  BY <1>10 DEF Spared
<1>12. /\ Shape(stk, tbd, lst, kind, who)'
       /\ \A u \in Thread : u # t /\ pc[u] = "pop_take" => data'[ptr[u]] = data[ptr[u]]
  <2> HIDE DEF Shape
  <2> QED
    BY <1>1, <1>4, <1>6, <1>7, <1>8, <1>9, <1>11, MoveStep
<1>13. Effect(stk, stk)
  BY <1>1, <1>6, <1>12, UnseenStep DEF Types
<1> QED
  BY <1>12, <1>13 DEF Result

\* The exchange of chain_pending_nodes: the list is in front of to_be_deleted.
LEMMA ChainStep ==
  ASSUME NEW stk, NEW tbd, NEW lst, NEW kind, NEW who, Shape(stk, tbd, lst, kind, who),
         NEW t \in Thread, ChainCas(t), to_be_deleted = next[last[t]]
  PROVE  Result(stk)
<1> USE DEF Shape
<1>1. /\ Others(t) /\ pc[t] = "chain_cas" /\ to_be_deleted' = first[t]
      /\ pc'[t] = (IF first[t] = ptr[t] THEN "pop_leave" ELSE "delete_own")
      /\ (Owns(t)' <=> Owns(t)) /\ (Counts(t)' <=> Counts(t))
      /\ UNCHANGED <<head, next, data, alive, ptr, nxt, res, threads_in_pop>>
  BY DEF ChainCas, Goto, Types, Others, Owns, HoldsOwn, Counts
<1>2. /\ ThreadNodes(t, lst, kind, who) /\ Segment(next, lst[t])
      /\ lst[t] \in Seq(Node) /\ DOMAIN next = Node
      /\ Elements(lst[t]) = {m \in Node : kind[m] = "list" /\ who[m] = t}
      /\ lst[t] # <<>> /\ first[t] = lst[t][1] /\ last[t] = lst[t][Len(lst[t])]
  BY <1>1 DEF ThreadNodes, Types
<1>3. PICK kind2, lst2, tbd2 :
        /\ kind2 = [m \in Node |-> IF kind[m] = "list" /\ who[m] = t THEN "pending" ELSE kind[m]]
        /\ lst2 = [u \in Thread |-> IF u = t THEN <<>> ELSE lst[u]]
        /\ tbd2 = lst[t] \o tbd
  OBVIOUS
<1>4. Types'
  <2>1. Counted' = Counted
    BY <1>1, CountedOthers
  <2>2. /\ pc' = [pc EXCEPT ![t] = IF first[t] = ptr[t] THEN "pop_leave" ELSE "delete_own"]
        /\ first' = [first EXCEPT ![t] = Null] /\ last' = [last EXCEPT ![t] = Null]
    BY <1>1 DEF ChainCas, Goto
  <2> QED
    BY <1>1, <2>1, <2>2 DEF Types
<1>5. /\ \A m \in Node : kind[m] = "list" /\ who[m] = t => kind2[m] = "pending"
      /\ \A m \in Node : ~(kind[m] = "list" /\ who[m] = t) => kind2[m] = kind[m]
      /\ lst2[t] = <<>> /\ \A u \in Thread : u # t => lst2[u] = lst[u]
  BY <1>3
<1>6. Path(Null, next, first[t], tbd2) /\ Elements(tbd2) = Elements(lst[t]) \cup Elements(tbd)
  <2>1. Path(Null, next, to_be_deleted, tbd) /\ Elements(lst[t]) \cap Elements(tbd) = {}
    BY <1>2 DEF Shared
  <2>2. next[lst[t][Len(lst[t])]] = to_be_deleted
    BY <1>2
  <2> QED
    BY <1>2, <1>3, <2>1, <2>2, Finite, PathJoin
<1>7. Shared(stk, tbd2, kind2, who)' /\ DataOf(data', stk) = DataOf(data, stk)
  <2>1. kind2 \in [Node -> {"free", "stack", "pending", "own", "list"}]
    BY <1>3 DEF Shared
  <2>2. alive' = {m \in Node : kind2[m] # "free"}
    BY <1>1, <1>5 DEF Shared
  <2>3. /\ Elements(stk) = {m \in Node : kind2[m] = "stack"}
        /\ Elements(tbd2) = {m \in Node : kind2[m] = "pending"}
    BY <1>2, <1>5, <1>6 DEF Shared
  <2>4. /\ \A m \in Node : kind2[m] \in {"own", "list"} => who[m] \in Thread
        /\ \A m \in Node : kind2[m] = "stack" => data[m] \in Value
    BY <1>5 DEF Shared
  <2> QED
    BY <1>1, <1>6, <2>1, <2>2, <2>3, <2>4 DEF Shared
<1>8. ThreadNodes(t, lst2, kind2, who)'
  <2>1. {m \in Node : kind2[m] = "own" /\ who[m] = t} = {m \in Node : kind[m] = "own" /\ who[m] = t}
    BY <1>5
  <2>2. {m \in Node : kind2[m] = "own" /\ who[m] = t} = IF Owns(t)' THEN {ptr'[t]} ELSE {}
    BY <1>1, <1>2, <2>1 DEF ThreadNodes
  <2>3. Elements(lst2[t]) = {m \in Node : kind2[m] = "list" /\ who[m] = t}
    BY <1>5, PathEmpty
  <2> QED
    BY <1>1, <1>5, <2>2, <2>3 DEF ThreadNodes
<1>9. ThreadPop(t, kind2, who)'
  BY <1>1 DEF ThreadPop
<1>10. Apart(t, lst, kind, who, lst2, kind2, who)
  BY <1>1, <1>5 DEF Apart
<1>11. Spared(t, kind, who, kind2, who)
  <2>1. ASSUME NEW m \in Node, ~(kind[m] = "list" /\ who[m] = t)
        PROVE  NodeSpared(m, kind, who, kind2, who)
    <3>1. kind2[m] = kind[m] /\ next'[m] = next[m]
      BY <1>1, <1>5, <2>1
    <3> QED
      BY <1>1, <2>1, <3>1, NodeStays DEF Shared
  <2>2. ASSUME NEW m \in Node, kind[m] = "list" /\ who[m] = t
        PROVE  NodeSpared(m, kind, who, kind2, who)
    BY <1>5, <2>2 DEF NodeSpared, Kept
  <2> QED
    BY <2>1, <2>2 DEF Spared
<1>12. /\ Shape(stk, tbd2, lst2, kind2, who)'
       /\ \A u \in Thread : u # t /\ pc[u] = "pop_take" => data'[ptr[u]] = data[ptr[u]]
  <2> HIDE DEF Shape
  <2> QED
    BY <1>1, <1>4, <1>7, <1>8, <1>9, <1>10, <1>11, MoveStep
<1>13. Effect(stk, stk)
  BY <1>1, <1>7, <1>12, UnseenStep DEF Types
<1> QED
  BY <1>12, <1>13 DEF Result

\* delete old_head
LEMMA DeleteOwnStep ==
  ASSUME NEW stk, NEW tbd, NEW lst, NEW kind, NEW who, Shape(stk, tbd, lst, kind, who),
         NEW t \in Thread, DeleteOwn(t)
  PROVE  Result(stk)
<1> USE DEF Shape, reclaimVars
<1>1. /\ Others(t) /\ pc[t] = "delete_own" /\ pc'[t] = "idle" /\ res'[t] = res[t]
      /\ Owns(t) /\ ~Owns(t)'
      /\ UNCHANGED <<head, to_be_deleted, first, last, nxt, res, threads_in_pop>>
  BY DEF DeleteOwn, Delete, Return, Goto, Types, Others, Owns, HoldsOwn
<1>2. PICK n \in Node : n = ptr[t] /\ kind[n] = "own" /\ who[n] = t
  <2>1. ptr[t] \in {n \in Node : kind[n] = "own" /\ who[n] = t}
    BY <1>1 DEF ThreadNodes
  <2> QED
    BY <2>1
<1>3. PICK kind2 : kind2 = [kind EXCEPT ![n] = "free"]
  OBVIOUS
<1>4. /\ alive' = alive \ {n}
      /\ next' = [next EXCEPT ![n] = Null]
      /\ data' = [data EXCEPT ![n] = None]
      /\ ptr' = [ptr EXCEPT ![t] = Null]
      /\ pc' = [pc EXCEPT ![t] = "idle"]
  BY <1>2 DEF DeleteOwn, Delete, Return, Goto
<1>5. Types'
  <2>1. Counted' = Counted
    <3>1. ~Counts(t) /\ ~Counts(t)'
      BY <1>1 DEF Counts
    <3> QED
      BY <1>1, <3>1, CountedOthers
  <2> QED
    BY <1>1, <1>4, <2>1 DEF Types
<1>6. /\ kind2[n] = "free" /\ \A m \in Node : m # n => kind2[m] = kind[m]
      /\ \A m \in Node : m # n => next'[m] = next[m] /\ data'[m] = data[m]
  BY <1>3, <1>4 DEF Shared, Types
<1>7. Shared(stk, tbd, kind2, who)' /\ DataOf(data', stk) = DataOf(data, stk)
  <2>1. n \notin Elements(stk) /\ n \notin Elements(tbd)
    BY <1>2 DEF Shared
  <2>2. DOMAIN next' = Node /\ DOMAIN next = Node
    BY <1>5 DEF Types
  <2>3. Elements(stk) \subseteq Node /\ Elements(tbd) \subseteq Node
    BY DEF Shared
  <2>4. Path(Null, next', head', stk)
    BY <1>1, <1>6, <2>1, <2>2, <2>3, PathKept DEF Shared
  <2>5. Path(Null, next', to_be_deleted', tbd)
    BY <1>1, <1>6, <2>1, <2>2, <2>3, PathKept DEF Shared
  <2>6. DataOf(data', stk) = DataOf(data, stk)
    BY <1>6, <2>1, <2>3, DataKept
  <2>7. kind2 \in [Node -> {"free", "stack", "pending", "own", "list"}]
    BY <1>3 DEF Shared
  <2>8. alive' = {m \in Node : kind2[m] # "free"}
    BY <1>4, <1>6 DEF Shared
  <2>9. /\ Elements(stk) = {m \in Node : kind2[m] = "stack"}
        /\ Elements(tbd) = {m \in Node : kind2[m] = "pending"}
    BY <1>2, <1>6 DEF Shared
  <2>10. /\ \A m \in Node : kind2[m] \in {"own", "list"} => who[m] \in Thread
         /\ \A m \in Node : kind2[m] = "stack" => data'[m] \in Value
    BY <1>6 DEF Shared
  <2> QED
    BY <2>4, <2>5, <2>6, <2>7, <2>8, <2>9, <2>10 DEF Shared
<1>8. ThreadNodes(t, lst, kind2, who)'
  <2>1. ThreadNodes(t, lst, kind, who)
    OBVIOUS
  <2>2. {m \in Node : kind2[m] = "own" /\ who[m] = t} = {}
    BY <1>1, <1>2, <1>6, <2>1 DEF ThreadNodes
  <2>3. {m \in Node : kind2[m] = "list" /\ who[m] = t} = {m \in Node : kind[m] = "list" /\ who[m] = t}
    BY <1>2, <1>6
  <2>4. lst[t] = <<>> /\ Elements(lst[t]) = {m \in Node : kind2[m] = "list" /\ who[m] = t}
    BY <1>1, <2>1, <2>3 DEF ThreadNodes
  <2> QED
    BY <1>1, <2>1, <2>2, <2>4 DEF ThreadNodes
<1>9. ThreadPop(t, kind2, who)'
  BY <1>1 DEF ThreadPop
<1>10. Apart(t, lst, kind, who, lst, kind2, who)
  BY <1>2, <1>6 DEF Apart
<1>11. Spared(t, kind, who, kind2, who)
  <2>1. ASSUME NEW m \in Node, m # n PROVE NodeSpared(m, kind, who, kind2, who)
    <3>1. kind2[m] = kind[m] /\ next'[m] = next[m]
      BY <1>6, <2>1
    <3> QED
      BY <1>1, <3>1, NodeStays DEF Shared
  <2>2. NodeSpared(n, kind, who, kind2, who)
    BY <1>1, <1>2 DEF NodeSpared, Kept
  <2> QED
    BY <2>1, <2>2 DEF Spared
<1>12. /\ Shape(stk, tbd, lst, kind2, who)'
       /\ \A u \in Thread : u # t /\ pc[u] = "pop_take" => data'[ptr[u]] = data[ptr[u]]
  <2> HIDE DEF Shape
  <2>1. Others(t) /\ Types' /\ Shared(stk, tbd, kind2, who)'
    BY <1>1, <1>5, <1>7
  <2>2. ThreadNodes(t, lst, kind2, who)' /\ ThreadPop(t, kind2, who)'
    BY <1>8, <1>9
  <2>3. Apart(t, lst, kind, who, lst, kind2, who) /\ Spared(t, kind, who, kind2, who)
    BY <1>10, <1>11
  <2> QED
    BY <2>1, <2>2, <2>3, MoveStep
<1>13. Effect(stk, stk)
  BY <1>1, <1>7, <1>12, UnseenStep DEF Types
<1> QED
  BY <1>12, <1>13 DEF Result

-----------------------------------------------------------------------------
(* All steps. *)

\* At first every node is free.
LEMMA InitShape ==
  ASSUME Init
  PROVE  Shape(<<>>, <<>>, [t \in Thread |-> <<>>], [n \in Node |-> "free"], [n \in Node |-> Null])
<1> USE DEF Init, StackInit
<1>1. PICK lst, kind, who : /\ lst = [t \in Thread |-> <<>>] /\ kind = [n \in Node |-> "free"]
                            /\ who = [n \in Node |-> Null]
  OBVIOUS
<1>2. Types
  <2>1. Counted = {}
    BY DEF Counted
  <2>2. threads_in_pop = Cardinality(Counted)
    BY <2>1, FS_EmptySet
  <2> QED
    BY <2>2 DEF Types
<1>3. Path(Null, next, Null, <<>>) /\ Elements(<<>>) = {}
  BY PathEmpty
<1>4. Shared(<<>>, <<>>, kind, who)
  BY <1>1, <1>3 DEF Shared
<1>5. ASSUME NEW t \in Thread PROVE ThreadNodes(t, lst, kind, who) /\ ThreadPop(t, kind, who)
  <2>1. pc[t] = "idle" /\ lst[t] = <<>> /\ ~Owns(t)
    BY <1>1 DEF Owns, HoldsOwn
  <2> QED
    BY <1>1, <1>3, <2>1 DEF ThreadNodes, ThreadPop
<1> QED
  BY <1>1, <1>2, <1>4, <1>5 DEF Shape

\* Every step keeps the invariant and does to the stack what AtomicStack may do.
LEMMA Step ==
  ASSUME NEW stk, NEW tbd, NEW lst, NEW kind, NEW who, Shape(stk, tbd, lst, kind, who),
         [Next]_vars
  PROVE  Result(stk)
<1>1. CASE UNCHANGED vars
  <2> USE <1>1 DEF vars, stackVars, nodeVars, threadVars, reclaimVars
  <2>1. Counted' = Counted
    BY DEF Counted
  <2>2. Types'
    BY <2>1 DEF Shape, Types
  <2>3. Shared(stk, tbd, kind, who)'
    BY DEF Shape, Shared
  <2>4. ASSUME NEW t \in Thread
        PROVE  ThreadNodes(t, lst, kind, who)' /\ ThreadPop(t, kind, who)'
    <3>1. Owns(t)' <=> Owns(t)
      BY DEF Owns, HoldsOwn
    <3>2. ThreadNodes(t, lst, kind, who) /\ ThreadPop(t, kind, who)
      BY DEF Shape
    <3>3. ThreadNodes(t, lst, kind, who)'
      BY <3>1, <3>2 DEF ThreadNodes
    <3> QED
      BY <3>2, <3>3 DEF ThreadPop, Kept
  <2>5. Shape(stk, tbd, lst, kind, who)'
    BY <2>2, <2>3, <2>4 DEF Shape
  <2>6. Effect(stk, stk)
    BY DEF Effect, Taken
  <2> QED
    BY <2>5, <2>6 DEF Result
<1>2. CASE Next
  <2>1. PICK t \in Thread : \/ \E v \in Value : PushCall(t, v) /\ UNCHANGED reclaimVars
                            \/ Push(t) \/ PopCall(t) \/ Pop(t) \/ TryReclaim(t)
    BY <1>2 DEF Next
  <2>2. CASE \E v \in Value : PushCall(t, v) /\ UNCHANGED reclaimVars
    BY <2>2, PushCallStep
  <2>3. CASE Push(t)
    <3>1. CASE head = next[ptr[t]]
      BY <2>3, <3>1, PushStep DEF Push
    <3>2. CASE head # next[ptr[t]]
      BY <2>3, <3>2, PushRetryStep DEF Push
    <3> QED
      BY <3>1, <3>2
  <2>4. CASE PopCall(t)
    BY <2>4, PopCallStep
  <2>5. CASE Pop(t)
    <3>1. CASE PopLoad(t) \/ PopMiss(t)
      BY <3>1, SeeHeadStep DEF PopLoad, PopMiss
    <3>2. CASE Unlink(t)
      BY <3>2, UnlinkStep
    <3>3. CASE PopTake(t)
      BY <3>3, PopTakeStep
    <3>4. CASE PopReadNext(t) /\ UNCHANGED reclaimVars
      BY <3>4, PopReadNextStep
    <3> QED
      BY <2>5, <3>1, <3>2, <3>3, <3>4 DEF Pop
  <2>6. CASE TryReclaim(t)
    <3>1. CASE PopCount(t)
      BY <3>1, PopCountStep, PopGiveStep
    <3>2. CASE PopExchange(t)
      BY <3>2, PopExchangeStep
    <3>3. CASE PopAlone(t)
      BY <3>3, PopAloneStep
    <3>4. CASE DeleteNodes(t)
      BY <3>4, DeleteFirstStep, DeletedStep
    <3>5. CASE ChainLoad(t)
      BY <3>5, RelinkStep DEF ChainLoad, Goto
    <3>6. CASE ChainCas(t)
      <4>1. CASE to_be_deleted = next[last[t]]
        BY <3>6, <4>1, ChainStep
      <4>2. CASE to_be_deleted # next[last[t]]
        <5>1. pc[t] = "chain_cas" /\ pc' = pc
          BY <3>6, <4>2 DEF ChainCas
        <5>2. pc' = [pc EXCEPT ![t] = "chain_cas"]
          BY <5>1 DEF Shape, Types
        <5> QED
          BY <3>6, <4>2, <5>1, <5>2, RelinkStep DEF ChainCas, reclaimVars
      <4> QED
        BY <4>1, <4>2
    <3>7. CASE DeleteOwn(t)
      BY <3>7, DeleteOwnStep
    <3>8. CASE PopLeave(t)
      BY <3>8, PopLeaveStep
    <3> QED
      BY <2>6, <3>1, <3>2, <3>3, <3>4, <3>5, <3>6, <3>7, <3>8 DEF TryReclaim
  <2> QED
    BY <2>1, <2>2, <2>3, <2>4, <2>5, <2>6
<1> QED
  BY <1>1, <1>2

\* For any threads, nodes and values, every node is always in one place, and no node
\* that a thread in the loop of pop points to is where it may be deleted.
THEOREM InvCorrect == Spec => []IInv
<1>1. Init => IInv
  BY InitShape DEF IInv
<1>2. IInv /\ [Next]_vars => IInv'
  <2> SUFFICES ASSUME NEW stk, NEW tbd, NEW lst, NEW kind, NEW who,
                      Shape(stk, tbd, lst, kind, who), [Next]_vars
               PROVE  IInv'
    BY DEF IInv
  <2>1. Result(stk)
    BY Step
  <2>2. \E stk2, tbd2, lst2, kind2, who2 : Shape(stk2, tbd2, lst2, kind2, who2)'
    BY <2>1 DEF Result
  <2> QED
    BY <2>2 DEF IInv
<1> QED
  BY <1>1, <1>2, PTL DEF Spec

\* What threads_in_pop is for: whoever is about to read old_head->next reads a node
\* that is allocated.
THEOREM NoUseAfterFreeCorrect == Spec => []NoUseAfterFree
<1>1. IInv => NoUseAfterFree
  <2> SUFFICES ASSUME NEW stk, NEW tbd, NEW lst, NEW kind, NEW who,
                      Shape(stk, tbd, lst, kind, who), NEW t \in Thread, pc[t] = "pop_next"
               PROVE  ptr[t] \in alive
    BY DEF IInv, NoUseAfterFree
  <2>1. ThreadPop(t, kind, who)
    BY DEF Shape
  <2>2. ptr[t] \in Node /\ kind[ptr[t]] # "free"
    BY <2>1 DEF ThreadPop, Kept
  <2> QED
    BY <2>2 DEF Shape, Shared
<1> QED
  BY <1>1, InvCorrect, PTL

\* Types; the threads counted are no more than there are, and no null pointer is followed.
THEOREM TypeCorrect == Spec => []TypeOK
<1>1. IInv => TypeOK
  <2> SUFFICES ASSUME NEW stk, NEW tbd, NEW lst, NEW kind, NEW who,
                      Shape(stk, tbd, lst, kind, who)
               PROVE  TypeOK
    BY DEF IInv
  <2>1. threads_in_pop \in 0..Cardinality(Thread)
    BY CountedFinite DEF Shape, Types
  <2>2. ASSUME NEW t \in Thread, Popping(t) \/ HoldsOwn(t) \/ pc[t] = "push_cas"
        PROVE  ptr[t] # Null
    <3>1. ThreadNodes(t, lst, kind, who) /\ ThreadPop(t, kind, who)
      BY DEF Shape
    <3>2. Popping(t) => ptr[t] \in Node
      BY <3>1 DEF ThreadPop, Popping
    <3>3. Owns(t) => ptr[t] \in {n \in Node : kind[n] = "own" /\ who[n] = t}
      BY <3>1 DEF ThreadNodes
    <3> QED
      BY <2>2, <3>2, <3>3, Finite DEF Owns
  <2>3. alive \subseteq Node
    BY DEF Shape, Shared
  <2> QED
    BY <2>1, <2>2, <2>3 DEF Shape, Types, TypeOK, StackTypeOK, Pointer
<1> QED
  BY <1>1, InvCorrect, PTL

-----------------------------------------------------------------------------
(* Nodes and their places. *)

\* The list that a thread holds is HeldList.
LEMMA HeldIs ==
  ASSUME NEW stk, NEW tbd, NEW lst, NEW kind, NEW who, Shape(stk, tbd, lst, kind, who),
         NEW t \in Thread
  PROVE  HeldList(t) = lst[t]
<1>1. ThreadNodes(t, lst, kind, who) /\ Types
  BY DEF Shape
<1>2. CASE pc[t] \in {"pop_alone", "delete_nodes"}
  <2>1. Chain(first[t]) = lst[t]
    BY <1>1, <1>2, ChainIs DEF ThreadNodes
  <2> QED
    BY <1>2, <2>1 DEF HeldList
<1>3. CASE pc[t] \in {"chain_load", "chain_cas"}
  <2> DEFINE c == Chain(first[t])
             s == lst[t]
             m == Len(s)
             At(j) == c[j] = last[t] /\ \A i \in 1..(j - 1) : c[i] # last[t]
  <2>1. /\ Segment(next, s) /\ s # <<>> /\ s \in Seq(Node)
        /\ first[t] = s[1] /\ last[t] = s[m] /\ DOMAIN next = Node /\ m \in Nat \ {0}
    BY <1>1, <1>3 DEF ThreadNodes, Types
  <2>2. c \in Seq(Node) /\ m <= Len(c) /\ \A i \in 1..m : c[i] = s[i]
    <3>1. s[1] \in Node
      BY <2>1
    <3>2. Links(Null, next, s[1])
      BY <1>1, <3>1 DEF Links, Types
    <3>3. c = Follow(Null, next, s[1], Cardinality(Node))
      BY <2>1 DEF Chain, Follow
    <3> HIDE DEF c, s, m
    <3>4. /\ Follow(Null, next, s[1], Cardinality(DOMAIN next)) \in Seq(DOMAIN next)
          /\ Len(s) <= Len(Follow(Null, next, s[1], Cardinality(DOMAIN next)))
          /\ \A i \in 1..Len(s) : Follow(Null, next, s[1], Cardinality(DOMAIN next))[i] = s[i]
      BY <2>1, <3>2, Finite, FollowBegins
    <3> QED
      BY <2>1, <3>3, <3>4 DEF m
  <2>3. HeldList(t) = SubSeq(c, 1, CHOOSE j \in DOMAIN c : At(j))
    BY <1>3 DEF HeldList
  <2>4. m \in DOMAIN c /\ At(m)
    <3>1. m \in DOMAIN c /\ c[m] = last[t]
      BY <2>1, <2>2
    <3>2. ASSUME NEW i \in 1..(m - 1) PROVE c[i] # last[t]
      <4>1. i \in 1..m /\ m \in 1..m /\ i # m
        BY <2>1
      <4>2. s[i] # s[m]
        BY <2>1, <4>1 DEF Segment
      <4> QED
        BY <2>1, <2>2, <4>1, <4>2
    <3> QED
      BY <3>1, <3>2
  <2>5. ASSUME NEW j \in DOMAIN c, At(j) PROVE j = m
    <3>1. j \in Nat \ {0} /\ m \in Nat \ {0}
      BY <2>1, <2>2
    <3>2. ~(j < m)
      <4> SUFFICES ASSUME j < m PROVE FALSE
        OBVIOUS
      <4>1. j \in 1..(m - 1)
        BY <3>1
      <4> QED
        BY <2>4, <2>5, <4>1
    <3>3. ~(m < j)
      <4> SUFFICES ASSUME m < j PROVE FALSE
        OBVIOUS
      <4>1. m \in 1..(j - 1)
        BY <3>1
      <4> QED
        BY <2>4, <2>5, <4>1
    <3> QED
      BY <3>1, <3>2, <3>3
  <2> HIDE DEF c, At
  <2>6. (CHOOSE j \in DOMAIN c : At(j)) = m
    BY <2>4, <2>5
  <2>7. SubSeq(c, 1, m) = s
    <3>1. SubSeq(c, 1, m) \in Seq(Node) /\ Len(SubSeq(c, 1, m)) = m
      BY <2>1, <2>2
    <3>2. \A i \in 1..m : SubSeq(c, 1, m)[i] = s[i]
      BY <2>1, <2>2
    <3> QED
      BY <2>1, <3>1, <3>2
  <2> QED
    BY <2>3, <2>6, <2>7
<1>4. CASE pc[t] \notin {"pop_alone", "delete_nodes", "chain_load", "chain_cas"}
  BY <1>1, <1>4 DEF HeldList, ThreadNodes
<1> QED
  BY <1>2, <1>3, <1>4

\* A thread's own node and its list, as EachNodeOnce puts them together.
Held(t) == (IF HoldsOwn(t) \/ pc[t] = "push_cas" THEN <<ptr[t]>> ELSE <<>>) \o HeldList(t)

\* They are the nodes that are its own or in its list, each once.
LEMMA HeldNodes ==
  ASSUME NEW stk, NEW tbd, NEW lst, NEW kind, NEW who, Shape(stk, tbd, lst, kind, who),
         NEW t \in Thread
  PROVE  /\ NoRepeats(Held(t))
         /\ Rng(Held(t)) = {n \in Node : kind[n] \in {"own", "list"} /\ who[n] = t}
<1>1. ThreadNodes(t, lst, kind, who) /\ HeldList(t) = lst[t] /\ Types
  BY HeldIs DEF Shape
<1>2. PICK own : own = IF Owns(t) THEN <<ptr[t]>> ELSE <<>>
  OBVIOUS
<1>3. PICK r : r = lst[t]
  OBVIOUS
<1>4. /\ own \in Seq(Node) /\ Elements(own) = {n \in Node : kind[n] = "own" /\ who[n] = t}
      /\ Distinct(own)
  <2>1. CASE Owns(t)
    <3>1. {n \in Node : kind[n] = "own" /\ who[n] = t} = {ptr[t]}
      BY <1>1, <2>1 DEF ThreadNodes
    <3>2. ptr[t] \in Node
      BY <3>1
    <3>3. own = <<ptr[t]>> /\ Len(own) = 1 /\ own[1] = ptr[t] /\ own \in Seq(Node)
      BY <1>2, <2>1, <3>2
    <3> QED
      BY <3>1, <3>3 DEF Elements, Distinct
  <2>2. CASE ~Owns(t)
    <3>1. own = <<>> /\ own \in Seq(Node) /\ Len(own) = 0
      BY <1>2, <2>2
    <3>2. Elements(own) = {}
      BY <3>1, PathEmpty
    <3> QED
      BY <1>1, <2>2, <3>1, <3>2 DEF ThreadNodes, Distinct
  <2> QED
    BY <2>1, <2>2
<1>5. /\ r \in Seq(Node) /\ Elements(r) = {n \in Node : kind[n] = "list" /\ who[n] = t}
      /\ Distinct(r)
  BY <1>1, <1>3 DEF ThreadNodes, Path, Segment, Distinct
<1>6. Elements(own) \cap Elements(r) = {}
  BY <1>4, <1>5
<1>7. PICK c : c = own \o r
  OBVIOUS
<1>8. /\ c \in Seq(Node) /\ Elements(c) = Elements(own) \cup Elements(r)
      /\ Distinct(c)
  BY <1>4, <1>5, <1>6, <1>7, DistinctJoin
<1>9. Held(t) = c
  BY <1>1, <1>2, <1>3, <1>7 DEF Held, Owns
<1>10. DOMAIN c = 1..Len(c)
  BY <1>8
<1>11. Rng(c) = Elements(c) /\ NoRepeats(c)
  BY <1>8, <1>10 DEF Rng, Elements, NoRepeats, Distinct
<1> QED
  BY <1>4, <1>5, <1>8, <1>9, <1>11

\* Every allocated node is once in exactly one place: none leaks, none is deleted
\* twice, none that was deleted comes back.
THEOREM EachNodeOnceCorrect == Spec => []EachNodeOnce
<1>1. IInv => EachNodeOnce
  <2> SUFFICES ASSUME NEW stk, NEW tbd, NEW lst, NEW kind, NEW who,
                      Shape(stk, tbd, lst, kind, who)
               PROVE  EachNodeOnce
    BY DEF IInv
  <2> DEFINE free == Chain(head) \o Chain(to_be_deleted)
             held == [t \in Thread |-> Held(t)]
  <2>1. Types /\ Shared(stk, tbd, kind, who) /\ DOMAIN next = Node
    BY DEF Shape, Types
  <2>2. Chain(head) = stk /\ Chain(to_be_deleted) = tbd
    BY <2>1, ChainIs DEF Shared
  <2>3. /\ Path(Null, next, head, stk) /\ Path(Null, next, to_be_deleted, tbd)
        /\ Elements(stk) \cap Elements(tbd) = {}
    BY <2>1 DEF Shared
  <2>4. stk \in Seq(Node) /\ tbd \in Seq(Node)
    BY <2>1, <2>3, Finite, PathElements
  <2>5. Distinct(stk) /\ Distinct(tbd)
    BY <2>3 DEF Path, Segment, Distinct
  <2>6. PICK c : c = stk \o tbd
    OBVIOUS
  <2>7. /\ c \in Seq(Node) /\ Elements(c) = Elements(stk) \cup Elements(tbd)
        /\ Distinct(c)
    BY <2>3, <2>4, <2>5, <2>6, DistinctJoin
  <2>8. free = c /\ DOMAIN c = 1..Len(c)
    BY <2>2, <2>6, <2>7
  <2> HIDE DEF free, held
  <2>9. Rng(free) = {n \in Node : kind[n] \in {"stack", "pending"}} /\ NoRepeats(free)
    <3>1. Rng(c) = Elements(c) /\ NoRepeats(c)
      BY <2>7, <2>8 DEF Rng, Elements, NoRepeats, Distinct
    <3> QED
      BY <2>1, <2>7, <2>8, <3>1 DEF Shared
  <2>10. \A t \in Thread : /\ NoRepeats(held[t])
                           /\ Rng(held[t]) = {n \in Node : kind[n] \in {"own", "list"} /\ who[n] = t}
    BY HeldNodes DEF held
  <2>11. Rng(free) \cup UNION {Rng(held[t]) : t \in Thread} = alive
    <3>1. \A n \in Node : kind[n] \in {"free", "stack", "pending", "own", "list"}
      BY <2>1 DEF Shared
    <3>2. \A n \in Node : kind[n] \in {"own", "list"} => who[n] \in Thread
      BY <2>1 DEF Shared
    <3>3. alive = {n \in Node : kind[n] # "free"}
      BY <2>1 DEF Shared
    <3>4. \A n \in alive : n \in Rng(free) \/ \E t \in Thread : n \in Rng(held[t])
      BY <2>9, <2>10, <3>1, <3>2, <3>3
    <3>5. \A n \in Rng(free) : n \in alive
      BY <2>9, <3>3
    <3>6. \A t \in Thread : \A n \in Rng(held[t]) : n \in alive
      BY <2>10, <3>3
    <3> QED
      BY <3>4, <3>5, <3>6
  <2>12. EachOnce(free, held)
    BY <2>9, <2>10, <2>11 DEF EachOnce
  <2> QED
    BY <2>12 DEF EachNodeOnce, free, held, Held
<1> QED
  BY <1>1, InvCorrect, PTL

-----------------------------------------------------------------------------
(* The stack as its callers see it. *)

\* The values that the path from the head holds are the contents,
ContentsAre(s) == Contents = DataOf(data, s)

\* whatever path it is.
ContentsKnown == \A stk, tbd, lst, kind, who : Shape(stk, tbd, lst, kind, who) => ContentsAre(stk)

\* By ChainIs.
LEMMA ContentsIs == ContentsKnown
<1> SUFFICES ASSUME NEW stk, NEW tbd, NEW lst, NEW kind, NEW who,
                    Shape(stk, tbd, lst, kind, who)
             PROVE  ContentsAre(stk)
  BY DEF ContentsKnown
<1>1. Types /\ Path(Null, next, head, stk) /\ DOMAIN next = Node
  BY DEF Shape, Shared, Types
<1>2. Chain(head) = stk
  BY <1>1, ChainIs
<1>3. DOMAIN stk = 1..Len(stk)
  BY <1>1, Finite, PathElements
<1> QED
  BY <1>2, <1>3 DEF ContentsAre, Contents, DataOf

\* For any threads, nodes and values, and although freed addresses are handed out again:
\* pushes and pops act in one order, last in first out.
THEOREM StackCorrect == Spec => ImplementsStack
<1>1. Init => Atomic!Init
  <2> SUFFICES ASSUME Init PROVE Atomic!Init
    OBVIOUS
  <2>1. Contents = DataOf(data, <<>>)
    BY InitShape, ContentsIs DEF ContentsKnown, ContentsAre
  <2>2. Contents = <<>>
    BY <2>1 DEF DataOf
  <2> QED
    BY <2>2 DEF Init, StackInit, Atomic!Init
<1>2. IInv /\ [Next]_vars => [Atomic!Next]_(Atomic!vars)
  <2> SUFFICES ASSUME NEW stk, NEW tbd, NEW lst, NEW kind, NEW who,
                      Shape(stk, tbd, lst, kind, who), [Next]_vars
               PROVE  [Atomic!Next]_(Atomic!vars)
    BY DEF IInv
  <2>1. Result(stk)
    BY Step
  <2>2. PICK stk2, tbd2, lst2, kind2, who2 :
          Shape(stk2, tbd2, lst2, kind2, who2)' /\ Effect(stk, stk2)
    BY <2>1 DEF Result
  <2>3. Contents = DataOf(data, stk)
    BY ContentsIs DEF ContentsKnown, ContentsAre
  <2>4. ContentsKnown'
    BY ContentsIs, PTL
  <2>5. Contents' = DataOf(data', stk2)
    BY <2>2, <2>4 DEF ContentsKnown, ContentsAre, DataOf
  <2> QED
    BY <2>2, <2>3, <2>5 DEF Effect, Taken, Atomic!Next, Atomic!vars, Atomic!Push,
       Atomic!PopCall, Atomic!Pop, Atomic!PopEmpty
<1> QED
  BY <1>1, <1>2, InvCorrect, PTL DEF Spec, ImplementsStack, Atomic!Spec
=============================================================================
