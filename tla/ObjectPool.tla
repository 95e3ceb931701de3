----------------------------- MODULE ObjectPool -----------------------------
(***************************************************************************)
(* Pool of c++_features_experiment/mempool.cpp: a block of n chunks.  A    *)
(* chunk is a union: it holds an object, or, while it is free, the link to *)
(* the next free chunk.                                                    *)
(***************************************************************************)
EXTENDS Naturals

CONSTANTS
  n,
  Null, Object        \* the null pointer; a chunk whose bytes are an object

PoolAssumption == n \in Nat \ {0} /\ Null \notin 1..n /\ Object \notin 1..n /\ Null # Object

Chunk == 1..n

VARIABLES
  free_list,
  next,               \* blocks[c].next, or Object
  used,               \* the chunks that the caller has
  lost                \* auxiliary: the chunks whose constructor has thrown

vars == <<free_list, next, used, lost>>

\* blocks[i].next = &blocks[i + 1], and null in the last one
Init ==
  /\ free_list = 1
  /\ next = [c \in Chunk |-> IF c = n THEN Null ELSE c + 1]
  /\ used = {}
  /\ lost = {}

\* Take the first chunk and construct over its link.
Take ==
  /\ free_list # Null
  /\ free_list' = next[free_list]
  /\ next' = [next EXCEPT ![free_list] = Object]

\* With an empty list bad_alloc is thrown and nothing changes.
Allocate ==
  /\ Take
  /\ used' = used \cup {free_list}
  /\ UNCHANGED lost

\* The constructor throws, and nobody puts the chunk back.
AllocateThrows ==
  /\ Take
  /\ lost' = lost \cup {free_list}
  /\ UNCHANGED used

\* Faulty variant: the chunk is not linked to the list.
DeallocateUnlinked(c) ==
  /\ c \in used
  /\ next' = [next EXCEPT ![c] = Null]
  /\ free_list' = c
  /\ used' = used \ {c}
  /\ UNCHANGED lost

\* The caller gives back an object it has.
Deallocate(c) ==
  /\ c \in used
  /\ next' = [next EXCEPT ![c] = free_list]
  /\ free_list' = c
  /\ used' = used \ {c}
  /\ UNCHANGED lost

Next == Allocate \/ AllocateThrows \/ \E c \in Chunk : Deallocate(c)

Spec == Init /\ [][Next]_vars

-----------------------------------------------------------------------------
\* The free list, link by link, and the chunks on it.
Walk[k \in Nat] ==
  IF k = 0 THEN free_list ELSE IF Walk[k - 1] \in Chunk THEN next[Walk[k - 1]] ELSE Null

Free == {Walk[k] : k \in 0..(n - 1)} \ {Null}

\* The free list comes to an end and holds the chunks that are neither with the
\* caller nor lost, and no link of it has been constructed over: no chunk is handed
\* out twice, and bad_alloc comes only when all are gone.
EachChunkOnce ==
  /\ used \cap lost = {}
  /\ Walk[n] = Null
  /\ Free = Chunk \ (used \cup lost)
  /\ \A c \in Chunk : next[c] = Object <=> c \in used \cup lost
=============================================================================
