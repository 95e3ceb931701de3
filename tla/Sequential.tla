----------------------------- MODULE Sequential -----------------------------
(***************************************************************************)
(* The components of the repository that one thread uses: the allocators   *)
(* mempool and Pool, prat::vector, prat::string, and three algorithms.     *)
(* A behaviour is one of a program that uses one of them, chosen once in   *)
(* `component`; the variables of the others keep their initial values.     *)
(***************************************************************************)
EXTENDS Integers, Sequences

CONSTANTS
  base_, max_bytes, Line, Type, Sizeof, Alignof,    \* mempool
  n, Null, Object,                                  \* Pool
  Vec, Value, Dead, Raw, Moved, Broken,             \* vector
  MaxSize, MaxBlock,
  Str, Char, Junk, SSO_LEN, MaxLen, MaxBuffer,      \* string
  NoBlock, Unspecified,
  Top, Number,                                      \* inbubsort
  MaxLength,                                        \* the search
  Size, Byte                                        \* memmove

VARIABLES
  component,
  pool_, left_, blocks,
  free_list, next, used, lost,
  living, v_ptr, v_size, v_cap, heap, thrown, move_throws,
  exists, sbuf_, hbuf_, s_len, s_cap, buffers, meant, overrun,
  b_data, b_i, b_j, given,
  u_n, u_a, u_x, u_i, u_len,
  memory, ptr, dst, count, call

Arena == INSTANCE Arena

Pool == INSTANCE ObjectPool

Vector == INSTANCE Vector WITH ptr_ <- v_ptr, size_ <- v_size, cap_ <- v_cap

String == INSTANCE String WITH len_ <- s_len, cap_ <- s_cap

Bubble == INSTANCE BubbleSort WITH data <- b_data, i <- b_i, j <- b_j

Upper == INSTANCE UpperBound WITH n <- u_n, a <- u_a, x <- u_x, i <- u_i, len <- u_len

Move == INSTANCE Memmove

ASSUME Assumptions ==
  /\ Arena!ArenaAssumption
  /\ Pool!PoolAssumption
  /\ Vector!VectorAssumption
  /\ String!StringAssumption
  /\ Bubble!BubbleAssumption
  /\ Upper!UpperBoundAssumption
  /\ Move!MemmoveAssumption

arenaVars == <<pool_, left_, blocks>>
poolVars == <<free_list, next, used, lost>>
vectorVars == <<living, v_ptr, v_size, v_cap, heap, thrown, move_throws>>
stringVars == <<exists, sbuf_, hbuf_, s_len, s_cap, buffers, meant, overrun>>
bubbleVars == <<b_data, b_i, b_j, given>>
upperVars == <<u_n, u_a, u_x, u_i, u_len>>
moveVars == <<memory, ptr, dst, count, call>>
vars == <<component, arenaVars, poolVars, vectorVars, stringVars, bubbleVars,
          upperVars, moveVars>>

Init ==
  /\ component \in {"mempool", "Pool", "vector", "string", "inbubsort", "search", "memmove"}
  /\ Arena!Init /\ Pool!Init /\ Vector!Init /\ String!Init
  /\ Bubble!Init /\ Upper!Init /\ Move!Init

\* The components other than c rest.
Rest(c) ==
  /\ c # "mempool" => UNCHANGED arenaVars
  /\ c # "Pool" => UNCHANGED poolVars
  /\ c # "vector" => UNCHANGED vectorVars
  /\ c # "string" => UNCHANGED stringVars
  /\ c # "inbubsort" => UNCHANGED bubbleVars
  /\ c # "search" => UNCHANGED upperVars
  /\ c # "memmove" => UNCHANGED moveVars

Next ==
  /\ \/ component = "mempool" /\ Arena!Next
     \/ component = "Pool" /\ Pool!Next
     \/ component = "vector" /\ Vector!Next
     \/ component = "string" /\ String!Next
     \/ component = "inbubsort" /\ Bubble!Next
     \/ component = "search" /\ Upper!Next
     \/ component = "memmove" /\ Move!Next
  /\ Rest(component)
  /\ UNCHANGED component

Spec == Init /\ [][Next]_vars

-----------------------------------------------------------------------------
(***************************************************************************)
(* Properties: those of the components, which say what they mean.          *)
(***************************************************************************)

\* mempool: every object has an aligned place of its own inside the arena.
PlacesOfTheirOwn == Arena!PlacesOfTheirOwn

\* Pool: every chunk is free, with the caller or lost, and only one of these.
EachChunkOnce == Pool!EachChunkOnce

\* vector: no two have a block in common, a vector's block has objects in its first
\* size_ slots only, and nothing is destroyed twice or freed alive, whatever throws.
SlotsInOrder == Vector!SlotsInOrder

\* vector: a call that returns leaves no block behind, and one that throws at most the
\* block that it has itself allocated.
NothingLost == Vector!NothingLost

\* string: on either side of SSO_LEN a string reads back the text it was made from, as
\* long as nothing has been copied past the end of a buffer; strings that were moved
\* from, and those made by moving a short one with too small a length, are exempt.
TextKept == String!TextKept

\* inbubsort: it returns the elements it was given, in order.
Sorts == Bubble!Sorting /\ Bubble!Sorts

\* The branchless search: it ends at the first element that is greater, if any.
Finds == Upper!Bracket /\ Upper!Finds

\* memmove: the destination gets what the source had, and nothing else changes.
Moves == Move!Moves

\* vector: every call acts on a sequence, or throws and has changed none, unless
\* moving an element may throw.
ImplementsSequences == Vector!ImplementsSequences
=============================================================================
