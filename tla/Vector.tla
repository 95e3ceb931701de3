------------------------------- MODULE Vector -------------------------------
(***************************************************************************)
(* prat::vector of dsa_from_scratch/data_structures/vector.cpp: variables  *)
(* that hold vectors, the blocks that operator new hands them, and in each *)
(* slot of a block the object that is constructed there, if any.           *)
(*                                                                         *)
(* One step is one call.  A call that allocates, copies or moves an        *)
(* element may end in an exception there; what it has done by then stays.  *)
(* Constructing over an object, destroying what is none, or freeing a      *)
(* block with objects in it leaves Broken behind.                          *)
(***************************************************************************)
EXTENDS Naturals, Sequences

CONSTANTS
  Vec,                \* the variables
  Value,
  Null, Dead,
  Raw, Moved, Broken, \* slots: no object; moved from; misused
  MaxSize,            \* bound: no vector grows beyond it
  MaxBlock            \* bound: the blocks there can be at once

VectorAssumption ==
  /\ MaxSize \in Nat /\ MaxBlock \in Nat
  /\ Null \notin 1..MaxBlock
  /\ {Raw, Moved, Broken} \cap Value = {}
  /\ Raw # Moved /\ Raw # Broken /\ Moved # Broken
  /\ Value # {} /\ Dead \notin Seq(Value \cup {Moved})

VARIABLES
  living,             \* the variables that hold a vector
  ptr_, size_, cap_,
  heap,               \* the blocks not freed, a vector's or nobody's: address to slots
  thrown,             \* whether the last call ended in an exception
  move_throws         \* chosen once: T's move constructor may throw; trace's may not

vars == <<living, ptr_, size_, cap_, heap, thrown, move_throws>>

Init ==
  /\ living = {}
  /\ ptr_ = [v \in Vec |-> Null]
  /\ size_ = [v \in Vec |-> 0]
  /\ cap_ = [v \in Vec |-> 0]
  /\ heap = [b \in {} |-> <<>>]
  /\ thrown = FALSE
  /\ move_throws \in BOOLEAN

-----------------------------------------------------------------------------
(* Memory. *)

\* What operator new returns: addresses are not compared, so the least will do.
Fresh ==
  LET free == (1..MaxBlock) \ DOMAIN heap
  IN  {b \in free : \A c \in free : b <= c}

\* A block of c slots with the objects xs in the first of them.
Block(c, xs) == [i \in 1..c |-> IF i <= Len(xs) THEN xs[i] ELSE Raw]

With(b, s) == [a \in DOMAIN heap \cup {b} |-> IF a = b THEN s ELSE heap[a]]

\* Placement new, and the destructor.
Constructed(slot, x) == IF slot = Raw THEN x ELSE Broken

Destroyed(slot) == IF slot \in {Raw, Broken} THEN Broken ELSE Raw

DestroyFirst(s, n) == [i \in DOMAIN s |-> IF i <= n THEN Destroyed(s[i]) ELSE s[i]]

\* Destroy the n objects in block b of h, then operator delete(b).
Free(h, b, n) ==
  IF b = Null THEN h
  ELSE LET s == DestroyFirst(h[b], n)
       IN  IF \A i \in DOMAIN s : s[i] = Raw
             THEN [a \in DOMAIN h \ {b} |-> h[a]]
             ELSE [h EXCEPT ![b] = <<Broken>>]

Contents(v) == IF ptr_[v] = Null THEN <<>> ELSE SubSeq(heap[ptr_[v]], 1, size_[v])

SetFields(v, p, s, c) ==
  /\ ptr_' = [ptr_ EXCEPT ![v] = p]
  /\ size_' = [size_ EXCEPT ![v] = s]
  /\ cap_' = [cap_ EXCEPT ![v] = c]

Returns == thrown' = FALSE

\* operator new throws: no call has changed anything before.
BadAlloc ==
  /\ thrown' = TRUE
  /\ UNCHANGED <<living, ptr_, size_, cap_, heap>>

\* A block with k objects in it that nobody knows any more: which objects, and how many
\* slots behind them, nobody can tell.
Forgotten(k) == [i \in 1..k |-> Moved]

\* The construction of one of `count` elements in the new block b throws.  No destructor
\* is run for the vector under construction: the block stays, with the objects so far.
Leaks(b, count) ==
  /\ \E k \in 0..(count - 1) : heap' = With(b, Forgotten(k))
  /\ thrown' = TRUE
  /\ UNCHANGED <<living, ptr_, size_, cap_>>

-----------------------------------------------------------------------------
(* Constructors, assignments and the destructor. *)

Default(v) ==
  /\ v \notin living
  /\ living' = living \cup {v}
  /\ SetFields(v, Null, 0, 0)
  /\ Returns
  /\ UNCHANGED heap

\* vector(n, val), and vector(n) with the default value of T.
Fill(v, n, x) ==
  /\ v \notin living
  /\ \E b \in Fresh :
       \/ /\ heap' = With(b, Block(n, [i \in 1..n |-> x]))
          /\ SetFields(v, b, n, n)
          /\ living' = living \cup {v}
          /\ Returns
       \/ Leaks(b, n)

CopyConstruct(v, w) ==
  /\ v \notin living /\ w \in living
  /\ \E b \in Fresh :
       \/ /\ heap' = With(b, Block(cap_[w], Contents(w)))
          /\ SetFields(v, b, size_[w], cap_[w])
          /\ living' = living \cup {v}
          /\ Returns
       \/ Leaks(b, size_[w])

\* Copy into tmp, swap, and let tmp's destructor free what v had.
CopyAssign(v, w) ==
  /\ v \in living /\ w \in living \ {v}
  /\ \E b \in Fresh :
       \/ /\ heap' = Free(With(b, Block(cap_[w], Contents(w))), ptr_[v], size_[v])
          /\ SetFields(v, b, size_[w], cap_[w])
          /\ Returns
          /\ UNCHANGED living
       \/ Leaks(b, size_[w])

MoveConstruct(v, w) ==
  /\ v \notin living /\ w \in living
  /\ living' = living \cup {v}
  /\ ptr_' = [ptr_ EXCEPT ![v] = ptr_[w], ![w] = Null]
  /\ size_' = [size_ EXCEPT ![v] = size_[w], ![w] = 0]
  /\ cap_' = [cap_ EXCEPT ![v] = cap_[w], ![w] = 0]
  /\ Returns
  /\ UNCHANGED heap

\* Faulty variant: v takes what w has and forgets its own block.
MoveAssignForgets(v, w) ==
  /\ v \in living /\ w \in living \ {v}
  /\ ptr_' = [ptr_ EXCEPT ![v] = ptr_[w], ![w] = Null]
  /\ size_' = [size_ EXCEPT ![v] = size_[w], ![w] = 0]
  /\ cap_' = [cap_ EXCEPT ![v] = cap_[w], ![w] = 0]
  /\ Returns
  /\ UNCHANGED <<living, heap>>

\* The two swap what they have.
MoveAssign(v, w) ==
  /\ v \in living /\ w \in living \ {v}
  /\ ptr_' = [ptr_ EXCEPT ![v] = ptr_[w], ![w] = ptr_[v]]
  /\ size_' = [size_ EXCEPT ![v] = size_[w], ![w] = size_[v]]
  /\ cap_' = [cap_ EXCEPT ![v] = cap_[w], ![w] = cap_[v]]
  /\ Returns
  /\ UNCHANGED <<living, heap>>

Destroy(v) ==
  /\ v \in living
  /\ heap' = Free(heap, ptr_[v], size_[v])
  /\ living' = living \ {v}
  /\ SetFields(v, Null, 0, 0)
  /\ Returns

-----------------------------------------------------------------------------
(* Growth. *)

new_cap(v) == IF cap_[v] > 0 THEN 2 * cap_[v] ELSE 1

\* Faulty variant: the elements are moved and the old objects not destroyed.
re_alloc_forgets(v) ==
  {[ptr |-> b, cap |-> new_cap(v),
    heap |-> Free(With(b, Block(new_cap(v), Contents(v))), ptr_[v], 0)] : b \in Fresh}

\* re_alloc, when nothing throws: all elements move to a larger block, then the
\* old ones, moved from, are destroyed and their block is freed.
re_alloc(v) ==
  {[ptr |-> b, cap |-> new_cap(v),
    heap |-> Free(With(b, Block(new_cap(v), Contents(v))), ptr_[v], size_[v])] : b \in Fresh}

\* A move in re_alloc throws after k others: the elements moved so far are in a
\* block that nobody knows any more.
ReAllocThrows(v) ==
  /\ move_throws
  /\ v \in living
  /\ size_[v] = cap_[v]
  /\ \E b \in Fresh, k \in 0..(size_[v] - 1) :
       heap' = [With(b, Forgotten(k))
                  EXCEPT ![ptr_[v]] = [i \in DOMAIN @ |-> IF i <= k THEN Moved ELSE @[i]]]
  /\ thrown' = TRUE
  /\ UNCHANGED <<living, ptr_, size_, cap_>>

\* The vector with room for one more.
Room(v) ==
  IF size_[v] = cap_[v]
    THEN re_alloc(v)
    ELSE {[ptr |-> ptr_[v], cap |-> cap_[v], heap |-> heap]}

\* Both versions of push_back, and emplace_back: room first, then the element,
\* whose constructor may throw.
PushBack(v, x) ==
  /\ v \in living
  /\ size_[v] < MaxSize
  /\ \E r \in Room(v) :
       \/ /\ heap' = [r.heap EXCEPT ![r.ptr][size_[v] + 1] = Constructed(@, x)]
          /\ SetFields(v, r.ptr, size_[v] + 1, r.cap)
          /\ Returns
       \/ /\ heap' = r.heap
          /\ SetFields(v, r.ptr, size_[v], r.cap)
          /\ thrown' = TRUE
  /\ UNCHANGED living

-----------------------------------------------------------------------------
\* The caller's duty: there is an element.
PopBack(v) ==
  /\ v \in living
  /\ size_[v] > 0
  /\ heap' = [heap EXCEPT ![ptr_[v]][size_[v]] = Destroyed(@)]
  /\ size_' = [size_ EXCEPT ![v] = @ - 1]
  /\ Returns
  /\ UNCHANGED <<living, ptr_, cap_>>

\* Faulty variant: the size stays.
ClearKeepsSize(v) ==
  /\ v \in living
  /\ heap' = IF ptr_[v] = Null THEN heap
             ELSE [heap EXCEPT ![ptr_[v]] = DestroyFirst(@, size_[v])]
  /\ Returns
  /\ UNCHANGED <<living, ptr_, size_, cap_>>

\* clear keeps the block.
Clear(v) ==
  /\ v \in living
  /\ heap' = IF ptr_[v] = Null THEN heap
             ELSE [heap EXCEPT ![ptr_[v]] = DestroyFirst(@, size_[v])]
  /\ size_' = [size_ EXCEPT ![v] = 0]
  /\ Returns
  /\ UNCHANGED <<living, ptr_, cap_>>

\* v[i] = x, through the reference that operator[] returns.
Assign(v, i, x) ==
  /\ v \in living
  /\ i \in 1..size_[v]
  /\ heap' = [heap EXCEPT ![ptr_[v]][i] = x]
  /\ Returns
  /\ UNCHANGED <<living, ptr_, size_, cap_>>

Next ==
  /\ \/ BadAlloc
     \/ \E v \in Vec :
          \/ Default(v) \/ Destroy(v) \/ PopBack(v) \/ Clear(v) \/ ReAllocThrows(v)
          \/ \E x \in Value :
               \/ PushBack(v, x)
               \/ \E n \in 0..MaxSize : Fill(v, n, x)
               \/ \E i \in 1..MaxSize : Assign(v, i, x)
          \/ \E w \in Vec :
               CopyConstruct(v, w) \/ CopyAssign(v, w) \/ MoveConstruct(v, w) \/ MoveAssign(v, w)
  /\ UNCHANGED move_throws

Spec == Init /\ [][Next]_vars

-----------------------------------------------------------------------------
Owned == {ptr_[v] : v \in living} \ {Null}

\* Blocks that no vector has and nothing will free.
Orphans == DOMAIN heap \ Owned

\* No two vectors have a block in common, in a vector's block the first size_ slots hold
\* objects and the others none, and nowhere has an object been destroyed twice,
\* constructed over or freed alive.
SlotsInOrder ==
  /\ Owned \subseteq DOMAIN heap
  /\ \A v, w \in living : v # w /\ ptr_[v] # Null => ptr_[v] # ptr_[w]
  /\ \A v \in living :
       IF ptr_[v] = Null THEN size_[v] = 0 /\ cap_[v] = 0
       ELSE LET s == heap[ptr_[v]]
            IN  /\ Len(s) = cap_[v] /\ size_[v] <= cap_[v]
                /\ \A i \in 1..cap_[v] : IF i <= size_[v] THEN s[i] \in Value \cup {Moved}
                                                          ELSE s[i] = Raw
  /\ \A b \in DOMAIN heap : \A i \in DOMAIN heap[b] : heap[b][i] # Broken

\* A call that returns leaves no block behind, and one that throws none that a vector
\* had before: what it may leave behind is the block that it has itself allocated.
\* ("ensure no resource leak" would be Orphans = {}, which a constructor that throws and
\* a move that throws in re_alloc do not keep.)
NothingLost ==
  [][/\ ~thrown' => Orphans' \subseteq Orphans
     /\ Orphans' \cap DOMAIN heap \subseteq Orphans]_vars

\* A vector is a sequence: copies are copies, moves leave nothing behind that is
\* shared, and an exception leaves every vector as it was.  Where moves may throw that is
\* not so, and nothing is claimed.
Values == INSTANCE SequenceValues WITH
  contents <- [v \in Vec |-> IF v \in living /\ ~move_throws THEN Contents(v) ELSE Dead]

ImplementsSequences == Values!Spec

\* "ensure strong exception safety": a call that throws has changed no vector.
StrongGuarantee ==
  [][thrown' => \A v \in living : v \in living' /\ Contents(v)' = Contents(v)]_vars
=============================================================================
