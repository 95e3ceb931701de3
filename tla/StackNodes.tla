---------------------------- MODULE StackNodes -----------------------------
(***************************************************************************)
(* What the stacks of concurrent_structures/stack_lockfree.cpp share: the  *)
(* linked nodes, the allocator, push, and the loop of pop that unlinks the *)
(* node at the head.  The modules that extend this one differ in what a    *)
(* popping thread does with the node it has unlinked.                      *)
(*                                                                         *)
(* One step is one access to shared memory.  An address that has been      *)
(* freed may be handed out again by the next allocation, so the head can   *)
(* change and change back between a thread's read and its                  *)
(* compare-exchange.                                                       *)
(***************************************************************************)
EXTENDS Naturals, Sequences, FiniteSets

CONSTANTS
  Thread,
  Node, Null,         \* addresses of nodes; the null pointer
  Value,
  None, Empty         \* results of pop: none yet; the stack was empty

NodeAssumption == IsFiniteSet(Node) /\ Null \notin Node

ValueAssumption == None \notin Value /\ Empty \notin Value /\ None # Empty

VARIABLES
  head,               \* std::atomic<node *> head
  next, data,         \* the fields of each node
  alive,              \* the addresses that are allocated
  pc,
  ptr,                \* per thread: new_head in push, old_head in pop
  nxt,                \* per thread: old_head->next as read for the exchange
  res                 \* per thread: the result of its last pop

nodeVars == <<head, next, data, alive>>
threadVars == <<pc, ptr, nxt, res>>
stackVars == <<nodeVars, threadVars>>

Pointer == Node \cup {Null}

Goto(t, label) == pc' = [pc EXCEPT ![t] = label]

\* The call returns and its local variables go out of scope.
Return(t) == Goto(t, "idle") /\ ptr' = [ptr EXCEPT ![t] = Null]

\* delete n: what the node held is gone.
Delete(n) ==
  /\ alive' = alive \ {n}
  /\ next' = [next EXCEPT ![n] = Null]
  /\ data' = [data EXCEPT ![n] = None]

\* std::atomic's default constructor stores the null pointer.
StackInit ==
  /\ head = Null
  /\ next = [n \in Node |-> Null]
  /\ data = [n \in Node |-> None]
  /\ alive = {}
  /\ pc = [t \in Thread |-> "idle"]
  /\ ptr = [t \in Thread |-> Null]
  /\ nxt = [t \in Thread |-> Null]
  /\ res = [t \in Thread |-> None]

-----------------------------------------------------------------------------
(* void push(T obj) *)

\* new node{obj}, and new_head->next = head.load()
PushCall(t, v) ==
  /\ pc[t] = "idle"
  /\ \E n \in Node \ alive :
       /\ alive' = alive \cup {n}
       /\ data' = [data EXCEPT ![n] = v]
       /\ next' = [next EXCEPT ![n] = head]
       /\ ptr' = [ptr EXCEPT ![t] = n]
  /\ Goto(t, "push_cas")
  /\ UNCHANGED <<head, nxt, res>>

\* Faulty variant: the head is stored without comparing.
PushCasBlind(t) ==
  /\ pc[t] = "push_cas"
  /\ head' = ptr[t]
  /\ Return(t)
  /\ UNCHANGED <<next, data, alive, nxt, res>>

\* Faulty variant: a failed exchange does not load the head again.
PushCasNoReload(t) ==
  /\ pc[t] = "push_cas"
  /\ head = next[ptr[t]]
  /\ head' = ptr[t]
  /\ Return(t)
  /\ UNCHANGED <<next, data, alive, nxt, res>>

\* A failed exchange loads the head into new_head->next; a spurious failure
\* loads what is there already.
PushCas(t) ==
  /\ pc[t] = "push_cas"
  /\ \/ /\ head = next[ptr[t]]
        /\ head' = ptr[t]
        /\ Return(t)
        /\ UNCHANGED next
     \/ /\ head # next[ptr[t]]
        /\ next' = [next EXCEPT ![ptr[t]] = head]
        /\ UNCHANGED <<head, pc, ptr>>
  /\ UNCHANGED <<data, alive, nxt, res>>

-----------------------------------------------------------------------------
(* The loop of pop: old_head = head.load(), then exchange head from        *)
(* old_head to old_head->next until that succeeds.                         *)

\* old_head is now the head: go to `onHead`, or to `onEmpty` if it is null.
SeeHead(t, onHead, onEmpty) ==
  /\ ptr' = [ptr EXCEPT ![t] = head]
  /\ nxt' = [nxt EXCEPT ![t] = Null]
  /\ \/ head # Null /\ Goto(t, onHead) /\ UNCHANGED res
     \/ head = Null /\ Goto(t, onEmpty) /\ res' = [res EXCEPT ![t] = Empty]

PopReadNext(t) ==
  /\ pc[t] = "pop_next"
  /\ nxt' = [nxt EXCEPT ![t] = next[ptr[t]]]
  /\ Goto(t, "pop_cas")
  /\ UNCHANGED <<nodeVars, ptr, res>>

\* Faulty variant: the head is stored without comparing.
PopUnlinkBlind(t, onNode) ==
  /\ pc[t] = "pop_cas"
  /\ head' = nxt[t]
  /\ nxt' = [nxt EXCEPT ![t] = Null]
  /\ Goto(t, onNode)
  /\ UNCHANGED <<next, data, alive, ptr, res>>

PopUnlink(t, onNode) ==
  /\ pc[t] = "pop_cas"
  /\ head = ptr[t]
  /\ head' = nxt[t]
  /\ nxt' = [nxt EXCEPT ![t] = Null]
  /\ Goto(t, onNode)
  /\ UNCHANGED <<next, data, alive, ptr, res>>

-----------------------------------------------------------------------------
(* Vocabulary for the properties. *)

\* The nodes from `first` along next, at most as many as there are.
Chain(first) ==
  LET step[k \in 0..Cardinality(Node)] ==
        IF k = 0 THEN <<>>
        ELSE LET seen == step[k - 1]
                 n == IF seen = <<>> THEN first ELSE next[seen[Len(seen)]]
             IN  IF n = Null THEN seen ELSE Append(seen, n)
  IN  step[Cardinality(Node)]

Rng(s) == {s[i] : i \in DOMAIN s}

NoRepeats(s) == \A i, j \in DOMAIN s : s[i] = s[j] => i = j

Linked == Rng(Chain(head))

\* Every allocated node is in one place: once in `free`, which no thread owns, or
\* once in what one thread holds.
EachOnce(free, held) ==
  /\ Rng(free) \cup UNION {Rng(held[t]) : t \in Thread} = alive
  /\ NoRepeats(free)
  /\ \A t \in Thread : NoRepeats(held[t]) /\ Rng(held[t]) \cap Rng(free) = {}
  /\ \A t, u \in Thread : t # u => Rng(held[t]) \cap Rng(held[u]) = {}

\* The values in the stack, top first.
Contents == LET c == Chain(head) IN [i \in DOMAIN c |-> data[c[i]]]

StackTypeOK ==
  /\ head \in Pointer
  /\ next \in [Node -> Pointer]
  /\ data \in [Node -> Value \cup {None}]
  /\ alive \subseteq Node
  /\ ptr \in [Thread -> Pointer]
  /\ nxt \in [Thread -> Pointer]
  /\ res \in [Thread -> Value \cup {None, Empty}]
=============================================================================
