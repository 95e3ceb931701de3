---------------------------- MODULE Arena_proofs ----------------------------
(***************************************************************************)
(* However the arena's types are sized and aligned, and whichever          *)
(* constructors throw, every object has an aligned place of its own.       *)
(***************************************************************************)
EXTENDS Arena, TLAPS

\* The padding brings any address to a multiple of the alignment.
LEMMA PaddingAligns ==
  ASSUME NEW p \in Nat, NEW a \in Nat, a > 0
  PROVE  /\ (a - (p % a)) % a \in Nat
         /\ (p + ((a - (p % a)) % a)) % a = 0
<1> DEFINE r == p % a  q == p \div a
<1>1. r \in Nat /\ r < a /\ q \in Nat /\ p = a * q + r
  BY Z3
<1>2. CASE r = 0
  <2>1. (a - r) % a = 0
    BY <1>2, Z3
  <2> QED
    BY <1>1, <1>2, <2>1
<1>3. CASE r > 0
  <2>1. (a - r) % a = a - r
    BY <1>1, <1>3, Z3
  <2>2. p + (a - r) = a * (q + 1)
    BY <1>1, Z3
  <2>3. (a * (q + 1)) % a = 0
    BY <1>1, Z3
  <2> QED
    BY <1>1, <2>1, <2>2, <2>3
<1> QED
  BY <1>1, <1>2, <1>3

\* What malloc knows of its padding and of the alignment of the type.
LEMMA PaddingFacts ==
  ASSUME ArenaAssumption, pool_ \in Nat, NEW t \in Type
  PROVE  /\ Sizeof[t] \in Nat \ {0}
         /\ get_alignment(t) \in Nat \ {0}
         /\ Padding(get_alignment(t)) \in Nat
         /\ (pool_ + Padding(get_alignment(t))) % get_alignment(t) = 0
<1>1. Sizeof[t] \in Nat \ {0} /\ get_alignment(t) \in Nat \ {0}
  BY DEF ArenaAssumption, get_alignment
<1> QED
  BY <1>1, PaddingAligns DEF Padding

\* malloc preserves the invariant: the new block begins at or above the pointer, and
\* the pointer moves behind it.
LEMMA MallocStep ==
  ASSUME ArenaAssumption, PlacesOfTheirOwn, NEW t \in Type, Malloc(t)
  PROVE  PlacesOfTheirOwn'
<1> DEFINE pad == Padding(get_alignment(t))
           new == [type |-> t, at |-> pool_ + pad, live |-> TRUE]
<1>1. /\ pool_ \in Nat /\ left_ \in Nat /\ base_ \in Nat /\ max_bytes \in Nat
      /\ Sizeof[t] \in Nat /\ pad \in Nat
      /\ (pool_ + pad) % get_alignment(t) = 0
  BY PaddingFacts DEF PlacesOfTheirOwn, InBounds, ArenaAssumption
<1> HIDE DEF pad
<1>2. /\ pad + Sizeof[t] <= left_
      /\ blocks' = blocks \cup {new}
      /\ pool_' = pool_ + pad + Sizeof[t]
      /\ left_' = left_ - pad - Sizeof[t]
  BY DEF Malloc, Fits, pad
<1>3. /\ new \in [type : Type, at : Nat, live : BOOLEAN]
      /\ new.at = pool_ + pad
      /\ End(new) = pool_'
  BY <1>1, <1>2 DEF End
<1>4. \A b \in blocks : /\ b \in [type : Type, at : Nat, live : BOOLEAN]
                        /\ End(b) \in Nat
                        /\ base_ <= b.at
                        /\ End(b) <= pool_
  BY DEF PlacesOfTheirOwn, InBounds, End, ArenaAssumption
<1>5. InBounds'
  <2>1. pool_' \in Nat /\ left_' \in Nat /\ base_ <= pool_'
    BY <1>1, <1>2 DEF PlacesOfTheirOwn, InBounds
  <2>2. pool_' + left_' <= base_ + max_bytes
    BY <1>1, <1>2 DEF PlacesOfTheirOwn, InBounds
  <2>3. \A b \in blocks' : /\ b \in [type : Type, at : Nat, live : BOOLEAN]
                           /\ base_ <= b.at
                           /\ End(b) <= pool_'
    <3>1. base_ <= new.at /\ End(new) <= pool_'
      BY <1>1, <1>3, <2>1 DEF PlacesOfTheirOwn, InBounds
    <3>2. \A b \in blocks : End(b) <= pool_'
      BY <1>1, <1>2, <1>4
    <3> QED
      BY <1>2, <1>3, <1>4, <3>1, <3>2
  <2> QED
    BY <2>1, <2>2, <2>3 DEF InBounds, End
<1>6. Apart'
  <2>1. \A b \in blocks : End(b) <= new.at
    BY <1>1, <1>3, <1>4
  <2> QED
    BY <1>2, <2>1 DEF Apart, PlacesOfTheirOwn, End
<1>7. Aligned'
  <2>1. new.at % get_alignment(new.type) = 0
    BY <1>1, <1>3
  <2> QED
    BY <1>2, <2>1 DEF Aligned, PlacesOfTheirOwn, get_alignment
<1> QED
  BY <1>5, <1>6, <1>7 DEF PlacesOfTheirOwn

\* A constructor that throws costs its padding and nothing else.
LEMMA MallocThrowsStep ==
  ASSUME ArenaAssumption, PlacesOfTheirOwn, NEW t \in Type, MallocThrows(t)
  PROVE  PlacesOfTheirOwn'
<1> DEFINE pad == Padding(get_alignment(t))
<1>1. pad \in Nat /\ Sizeof[t] \in Nat
  BY PaddingFacts DEF PlacesOfTheirOwn, InBounds
<1>2. pad + Sizeof[t] <= left_ /\ left_' = left_ - pad /\ UNCHANGED <<pool_, blocks>>
  BY DEF MallocThrows, Fits
<1> HIDE DEF pad
<1>3. InBounds'
  BY <1>1, <1>2 DEF PlacesOfTheirOwn, InBounds, End, ArenaAssumption
<1>4. Apart' /\ Aligned'
  BY <1>2 DEF PlacesOfTheirOwn, Apart, Aligned, End, get_alignment
<1> QED
  BY <1>3, <1>4 DEF PlacesOfTheirOwn

\* free leaves every block where it is.
LEMMA FreeStep ==
  ASSUME ArenaAssumption, PlacesOfTheirOwn, NEW b \in blocks, Free(b)
  PROVE  PlacesOfTheirOwn'
<1> DEFINE freed == [b EXCEPT !.live = FALSE]
<1>1. /\ b \in [type : Type, at : Nat, live : BOOLEAN]
      /\ UNCHANGED <<pool_, left_>>
      /\ blocks' = (blocks \ {b}) \cup {freed}
  BY DEF Free, PlacesOfTheirOwn, InBounds
<1>2. /\ freed \in [type : Type, at : Nat, live : BOOLEAN]
      /\ freed.at = b.at /\ freed.type = b.type /\ End(freed) = End(b)
  BY <1>1 DEF End
<1> HIDE DEF freed
<1>3. InBounds'
  BY <1>1, <1>2 DEF PlacesOfTheirOwn, InBounds, End
<1>4. Apart'
  BY <1>1, <1>2 DEF PlacesOfTheirOwn, Apart, End
<1>5. Aligned'
  BY <1>1, <1>2 DEF PlacesOfTheirOwn, Aligned, get_alignment
<1> QED
  BY <1>3, <1>4, <1>5 DEF PlacesOfTheirOwn

\* The empty arena.
LEMMA ArenaInit == ArenaAssumption => (Init => PlacesOfTheirOwn)
BY DEF Init, PlacesOfTheirOwn, InBounds, Apart, Aligned, ArenaAssumption

\* PlacesOfTheirOwn is inductive as it stands.
LEMMA ArenaStep == ArenaAssumption => (PlacesOfTheirOwn /\ [Next]_vars => PlacesOfTheirOwn')
<1> SUFFICES ASSUME ArenaAssumption, PlacesOfTheirOwn, [Next]_vars
             PROVE  PlacesOfTheirOwn'
  OBVIOUS
<1>1. CASE \E t \in Type : Malloc(t)
  BY <1>1, MallocStep
<1>2. CASE \E t \in Type : MallocThrows(t)
  BY <1>2, MallocThrowsStep
<1>3. CASE \E b \in blocks : Free(b)
  BY <1>3, FreeStep
<1>4. CASE UNCHANGED vars
  BY <1>4 DEF vars, PlacesOfTheirOwn, InBounds, Apart, Aligned, End, get_alignment
<1> QED
  BY <1>1, <1>2, <1>3, <1>4 DEF Next

\* malloc of arena_allocator.cpp: every object, live or freed, lies inside the arena,
\* aligned for its type, and shares no byte with another one.
THEOREM ArenaSafe ==
  ASSUME ArenaAssumption
  PROVE  Spec => []PlacesOfTheirOwn
<1>1. Init => PlacesOfTheirOwn
  BY ArenaInit
<1>2. PlacesOfTheirOwn /\ [Next]_vars => PlacesOfTheirOwn'
  BY ArenaStep
<1> QED
  BY <1>1, <1>2, PTL DEF Spec
=============================================================================
