------------------------------- MODULE Arena --------------------------------
(***************************************************************************)
(* mempool of c++_features_experiment/arena_allocator.cpp: a bump          *)
(* allocator.  malloc rounds the pointer up to the alignment of the type,  *)
(* constructs the object there and moves the pointer behind it; free only  *)
(* runs the destructor.                                                    *)
(*                                                                         *)
(* Addresses and sizes are natural numbers: an address never comes near    *)
(* the end of the address space, for operator new has handed it out.       *)
(***************************************************************************)
EXTENDS Naturals

CONSTANTS
  base_,              \* what operator new has returned
  max_bytes,
  Line,               \* the least alignment, 64 in the code
  Type, Sizeof, Alignof

ArenaAssumption ==
  /\ base_ \in Nat /\ max_bytes \in Nat
  /\ Line \in Nat \ {0} /\ base_ % Line = 0
  /\ Sizeof \in [Type -> Nat \ {0}]
  /\ Alignof \in [Type -> Nat \ {0}]

VARIABLES
  pool_, left_,
  blocks              \* what malloc has returned: [type, at, live]

vars == <<pool_, left_, blocks>>

Init ==
  /\ pool_ = base_
  /\ left_ = max_bytes
  /\ blocks = {}

get_alignment(t) == IF Line <= Alignof[t] THEN Alignof[t] ELSE Line

\* What std::align skips to bring the pointer to the next multiple of a.
Padding(a) == (a - (pool_ % a)) % a

Fits(t) == Padding(get_alignment(t)) + Sizeof[t] <= left_

\* Faulty variant: the pointer moves by the size alone.
MallocUnpadded(t) ==
  /\ Fits(t)
  /\ LET pad == Padding(get_alignment(t))
     IN  /\ blocks' = blocks \cup {[type |-> t, at |-> pool_ + pad, live |-> TRUE]}
         /\ pool_' = pool_ + Sizeof[t]
         /\ left_' = left_ - pad - Sizeof[t]

\* Both versions of malloc.  When it does not fit, bad_alloc is thrown and nothing
\* changes.
Malloc(t) ==
  /\ Fits(t)
  /\ LET pad == Padding(get_alignment(t))
     IN  /\ blocks' = blocks \cup {[type |-> t, at |-> pool_ + pad, live |-> TRUE]}
         /\ pool_' = pool_ + pad + Sizeof[t]
         /\ left_' = left_ - pad - Sizeof[t]

\* The constructor throws: std::align has taken the padding off left_ already, but
\* the pointer has not moved.
MallocThrows(t) ==
  /\ Fits(t)
  /\ left_' = left_ - Padding(get_alignment(t))
  /\ UNCHANGED <<pool_, blocks>>

\* "no reclamation / compaction"
Free(b) ==
  /\ b.live
  /\ blocks' = (blocks \ {b}) \cup {[b EXCEPT !.live = FALSE]}
  /\ UNCHANGED <<pool_, left_>>

Next ==
  \/ \E t \in Type : Malloc(t) \/ MallocThrows(t)
  \/ \E b \in blocks : Free(b)

Spec == Init /\ [][Next]_vars

-----------------------------------------------------------------------------
End(b) == b.at + Sizeof[b.type]

\* The types; left_ never promises a byte that is not there; and all blocks, freed
\* ones too, lie in the arena below the pointer.
InBounds ==
  /\ pool_ \in Nat /\ left_ \in Nat
  /\ base_ <= pool_
  /\ pool_ + left_ <= base_ + max_bytes
  /\ \A b \in blocks : /\ b \in [type : Type, at : Nat, live : BOOLEAN]
                       /\ base_ <= b.at
                       /\ End(b) <= pool_

\* No two blocks share a byte.
Apart == \A b, c \in blocks : b # c => End(b) <= c.at \/ End(c) <= b.at

\* Every block is aligned for its type.
Aligned == \A b \in blocks : b.at % get_alignment(b.type) = 0

\* However types are mixed and constructors throw, every object has an aligned
\* place of its own inside the arena.
PlacesOfTheirOwn == InBounds /\ Apart /\ Aligned
=============================================================================
