-------------------------------- MODULE Lemmas --------------------------------
(***************************************************************************)
(* What the proofs share: induction over a set of numbers, positions       *)
(* counted upwards in a ring buffer, sequences that are built index by     *)
(* index, as the refinement mappings of the queues are, and the nodes of   *)
(* linked lists.                                                           *)
(***************************************************************************)
EXTENDS Integers, Sequences, FiniteSets, FiniteSetTheorems, TLAPS

(* Induction. *)

\* Induction over a set.  Otherwise counting on from 0 would map the members up to some
\* n, which is none, into themselves one to one and yet miss 0: more pigeons than holes.
LEMMA SetInduction ==
  ASSUME NEW T, 0 \in T, \A n \in Nat : n \in T => n + 1 \in T
  PROVE  \A n \in Nat : n \in T
<1> SUFFICES ASSUME NEW n \in Nat, n \notin T PROVE FALSE
  OBVIOUS
<1> DEFINE A == T \cap (0..n)
           f == [k \in A |-> k + 1]
<1>1. IsFiniteSet(A) /\ IsFiniteSet(A \ {0})
      /\ Cardinality(A \ {0}) = Cardinality(A) - 1 /\ Cardinality(A) \in Nat
  <2>1. IsFiniteSet(A)
    <3>1. IsFiniteSet(0..n)
      BY FS_Interval
    <3>2. A \in SUBSET (0..n)
      OBVIOUS
    <3> HIDE DEF A
    <3> QED
      BY <3>1, <3>2, FS_Subset
  <2>2. 0 \in A
    OBVIOUS
  <2> HIDE DEF A
  <2>3. Cardinality(A) \in Nat
    BY <2>1, FS_CardinalityType
  <2>4. IsFiniteSet(A \ {0}) /\ Cardinality(A \ {0}) = Cardinality(A) - 1
    BY <2>1, <2>2, FS_RemoveElement
  <2> QED
    BY <2>1, <2>3, <2>4
<1>2. \A k \in A : k + 1 \in A \ {0}
  OBVIOUS
<1>3. f \in [A -> A \ {0}]
  BY <1>2
<1>4. PICK x, y \in A : x # y /\ f[x] = f[y]
  <2> HIDE DEF A, f
  <2> QED
    BY <1>1, <1>3, FS_PigeonHole
<1> QED
  BY <1>4
-----------------------------------------------------------------------------
(* Positions: the slot of position p in a ring of N slots is p % N. *)

\* What div and % are, as the provers know it.
LEMMA DivMod ==
  \A N \in Nat, p \in Nat : N > 0 => p \div N \in Int /\ p = N * (p \div N) + (p % N)
OBVIOUS

\* A position is a number of whole rounds and its slot.
LEMMA RingRounds ==
  ASSUME NEW N \in Nat \ {0}, NEW p \in Nat
  PROVE  \E x \in Int, i \in 0..(N - 1) : p = N * x + i /\ p % N = i
<1>1. p \div N \in Int /\ p = N * (p \div N) + (p % N)
  BY DivMod
<1>2. p % N \in 0..(N - 1)
  OBVIOUS
<1> QED
  BY <1>1, <1>2

\* Arithmetic for the provers: a product with a difference,
LEMMA Distribute ==
  ASSUME NEW N \in Nat \ {0}, NEW x \in Int, NEW y \in Int
  PROVE  N * x \in Int /\ N * (y - x) = N * y - N * x
OBVIOUS

\* and: the only multiple nearer to zero than the number itself is zero.
LEMMA SmallMultiple ==
  ASSUME NEW N \in Nat \ {0}, NEW d \in Int, N * d < N, 0 - N < N * d
  PROVE  d = 0
OBVIOUS

\* A slot that lies whole rounds before a position is the slot of the position.
LEMMA RingUnique ==
  ASSUME NEW N \in Nat \ {0}, NEW p \in Nat, NEW i \in 0..(N - 1), NEW x \in Int,
         p = N * x + i
  PROVE  p % N = i
<1>1. PICK y \in Int, j \in 0..(N - 1) : p = N * y + j /\ p % N = j
  BY RingRounds
<1>2. N * (y - x) = i - j
  BY <1>1, Distribute
<1>3. y - x \in Int /\ y - x = 0
  BY <1>2, SmallMultiple
<1>4. N * (y - x) = 0
  BY <1>3
<1> QED
  BY <1>1, <1>2, <1>4

\* A round later comes the same slot.
LEMMA RingPeriod ==
  ASSUME NEW N \in Nat \ {0}, NEW p \in Nat
  PROVE  (p + N) % N = p % N
<1>1. PICK x \in Int, j \in 0..(N - 1) : p = N * x + j /\ p % N = j
  BY RingRounds
<1>2. N * (x + 1) = N * x + N /\ N * x \in Int
  BY Distribute
<1>3. p + N = N * (x + 1) + j /\ p + N \in Nat /\ x + 1 \in Int
  BY <1>1, <1>2
<1>4. (p + N) % N = j
  BY <1>3, RingUnique
<1> QED
  BY <1>1, <1>4

\* Positions less than a round apart have slots of their own.
LEMMA RingInjective ==
  ASSUME NEW N \in Nat \ {0}, NEW p \in Nat, NEW q \in Nat, p < q, q < p + N
  PROVE  p % N # q % N
<1> SUFFICES ASSUME p % N = q % N PROVE FALSE
  OBVIOUS
<1>1. PICK x \in Int, j \in 0..(N - 1) : p = N * x + j /\ p % N = j
  BY RingRounds
<1>2. PICK y \in Int, i \in 0..(N - 1) : q = N * y + i /\ q % N = i
  BY RingRounds
<1>3. i = j /\ N * (y - x) = q - p
  BY <1>1, <1>2, Distribute
<1>4. y - x \in Int /\ y - x = 0
  BY <1>3, SmallMultiple
<1>5. N * (y - x) = 0
  BY <1>4
<1> QED
  BY <1>3, <1>5

\* Every slot is that of one of the next N positions.
LEMMA RingOnto ==
  ASSUME NEW N \in Nat \ {0}, NEW p \in Nat, NEW i \in 0..(N - 1)
  PROVE  \E q \in p..(p + N - 1) : q % N = i
<1>1. PICK x \in Int, j \in 0..(N - 1) : p = N * x + j
  BY RingRounds
<1>2. N * x \in Int /\ N * (x + 1) = N * x + N
  BY Distribute
<1>c. ASSUME NEW q \in Nat, NEW z \in Int, q = N * z + i PROVE q % N = i
  BY <1>c, RingUnique
<1>3. CASE i >= j
  <2>1. p + (i - j) \in p..(p + N - 1) /\ p + (i - j) \in Nat /\ p + (i - j) = N * x + i
    BY <1>1, <1>2, <1>3
  <2>2. (p + (i - j)) % N = i
    BY <2>1, <1>c
  <2> QED
    BY <2>1, <2>2
<1>4. CASE i < j
  <2>1. /\ p + (i - j) + N \in p..(p + N - 1) /\ p + (i - j) + N \in Nat
        /\ p + (i - j) + N = N * (x + 1) + i /\ x + 1 \in Int
    BY <1>1, <1>2, <1>4
  <2>2. (p + (i - j) + N) % N = i
    BY <2>1, <1>c
  <2> QED
    BY <2>1, <2>2
<1> QED
  BY <1>3, <1>4

-----------------------------------------------------------------------------
(* Sequences as functions on 1..n. *)

\* A function on 1..n is a sequence of length n.
LEMMA SeqOfIndices ==
  ASSUME NEW S, NEW n \in Nat, NEW s \in [1..n -> S]
  PROVE  s \in Seq(S) /\ Len(s) = n
OBVIOUS

\* One more index: an element joined the tail.
LEMMA SeqAppend ==
  ASSUME NEW S, NEW n \in Nat, NEW s \in [1..n -> S], NEW v \in S,
         NEW r \in [1..(n + 1) -> S],
         \A k \in 1..n : r[k] = s[k],
         r[n + 1] = v
  PROVE  r = Append(s, v)
<1>1. s \in Seq(S) /\ Len(s) = n /\ r \in Seq(S) /\ Len(r) = n + 1
  BY SeqOfIndices
<1>2. Append(s, v) \in Seq(S) /\ Len(Append(s, v)) = n + 1
  BY <1>1
<1>3. \A k \in 1..(n + 1) : Append(s, v)[k] = r[k]
  BY <1>1
<1> QED
  BY <1>1, <1>2, <1>3

\* All indices one down: the element at the head left.
LEMMA SeqTail ==
  ASSUME NEW S, NEW n \in Nat, NEW s \in [1..(n + 1) -> S], NEW r \in [1..n -> S],
         \A k \in 1..n : r[k] = s[k + 1]
  PROVE  s # <<>> /\ r = Tail(s) /\ Head(s) = s[1]
<1>1. s \in Seq(S) /\ Len(s) = n + 1 /\ r \in Seq(S) /\ Len(r) = n
  BY SeqOfIndices
<1>2. s # <<>> /\ Head(s) = s[1]
  BY <1>1
<1>3. Tail(s) \in Seq(S) /\ Len(Tail(s)) = n
  BY <1>1, <1>2
<1>4. \A k \in 1..n : Tail(s)[k] = r[k]
  BY <1>1, <1>2, <1>3
<1> QED
  BY <1>1, <1>2, <1>3, <1>4

-----------------------------------------------------------------------------
(* Linked nodes: link maps a node to the one behind it, or to the null     *)
(* pointer, which is none.                                                 *)

\* The nodes of a sequence.
Elements(s) == {s[i] : i \in 1..Len(s)}

\* Different nodes, each linked to the one behind it.
Segment(link, s) ==
  /\ s \in Seq(DOMAIN link)
  /\ \A i, j \in 1..Len(s) : s[i] = s[j] => i = j
  /\ \A i \in 1..(Len(s) - 1) : link[s[i]] = s[i + 1]

\* All nodes from `first` to the last one, whose link is null.
Path(null, link, first, s) ==
  /\ Segment(link, s)
  /\ first = IF s = <<>> THEN null ELSE s[1]
  /\ s # <<>> => link[s[Len(s)]] = null

\* A step along the links: what Chain of StackNodes does in each round.
Extend(null, link, first, seen) ==
  LET n == IF seen = <<>> THEN first ELSE link[seen[Len(seen)]]
  IN  IF n = null THEN seen ELSE Append(seen, n)

\* The nodes after as many steps: Chain of StackNodes.
Follow(null, link, first, steps) ==
  LET step[k \in 0..steps] ==
        IF k = 0 THEN <<>>
        ELSE LET seen == step[k - 1]
                 n == IF seen = <<>> THEN first ELSE link[seen[Len(seen)]]
             IN  IF n = null THEN seen ELSE Append(seen, n)
  IN  step[steps]

\* Every link leads to a node or is null, and so is where the steps begin.
Links(null, link, first) ==
  /\ first = null \/ first \in DOMAIN link
  /\ \A n \in DOMAIN link : link[n] = null \/ link[n] \in DOMAIN link

\* What N steps find, one after the other.
Stepping(null, link, first, N, g) ==
  /\ g \in [0..N -> Seq(DOMAIN link)]
  /\ g[0] = <<>>
  /\ \A k \in 0..(N - 1) : g[k + 1] = Extend(null, link, first, g[k])

\* What g lists is what the steps find, at least up to step N.
Lists(null, link, first, N, g) ==
  /\ g[0] = <<>>
  /\ \A k \in Nat : k < N => g[k + 1] = Extend(null, link, first, g[k])

\* So many steps can be taken.
LEMMA StepsExist ==
  ASSUME NEW null, NEW link, NEW first, Links(null, link, first), NEW N \in Nat
  PROVE  \E g : Stepping(null, link, first, N, g)
<1> DEFINE Ext(seen) == Extend(null, link, first, seen)
           Walk(g, k) == /\ g \in [0..k -> Seq(DOMAIN link)] /\ g[0] = <<>>
                         /\ \A j \in 0..(k - 1) : g[j + 1] = Ext(g[j])
           T == {k \in Nat : \E g : Walk(g, k)}
<1>1. \A seen \in Seq(DOMAIN link) : Ext(seen) \in Seq(DOMAIN link)
  <2> SUFFICES ASSUME NEW seen \in Seq(DOMAIN link) PROVE Ext(seen) \in Seq(DOMAIN link)
    OBVIOUS
  <2> DEFINE n == IF seen = <<>> THEN first ELSE link[seen[Len(seen)]]
  <2>1. n = null \/ n \in DOMAIN link
    <3>1. CASE seen = <<>>
      BY <3>1 DEF Links
    <3>2. CASE seen # <<>>
      <4>1. seen[Len(seen)] \in DOMAIN link
        BY <3>2
      <4> QED
        BY <3>2, <4>1 DEF Links
    <3> QED
      BY <3>1, <3>2
  <2>2. Ext(seen) = IF n = null THEN seen ELSE Append(seen, n)
    BY DEF Extend
  <2>3. PICK S : S = DOMAIN link
    OBVIOUS
  <2> HIDE DEF n, Ext
  <2>4. seen \in Seq(S) /\ (n = null \/ n \in S)
    BY <2>1, <2>3
  <2>5. Ext(seen) \in Seq(S)
    BY <2>2, <2>4
  <2> QED
    BY <2>3, <2>5
<1> HIDE DEF Ext
<1>2. 0 \in T
  <2> DEFINE g == [j \in 0..0 |-> <<>>]
  <2>1. g \in [0..0 -> Seq(DOMAIN link)] /\ g[0] = <<>>
    OBVIOUS
  <2> HIDE DEF g
  <2>2. Walk(g, 0)
    BY <2>1
  <2> QED
    BY <2>2
<1>3. \A k \in Nat : k \in T => k + 1 \in T
  <2> SUFFICES ASSUME NEW k \in Nat, k \in T PROVE k + 1 \in T
    OBVIOUS
  <2>1. PICK g : Walk(g, k)
    OBVIOUS
  <2> DEFINE h == [j \in 0..(k + 1) |-> IF j = k + 1 THEN Ext(g[k]) ELSE g[j]]
  <2>2. \A j \in 0..(k + 1) : j = k + 1 \/ j \in 0..k
    OBVIOUS
  <2>3. k \in 0..k /\ g[k] \in Seq(DOMAIN link) /\ \A j \in 0..k : g[j] \in Seq(DOMAIN link)
    BY <2>1
  <2>4. /\ h \in [0..(k + 1) -> Seq(DOMAIN link)]
        /\ h[k + 1] = Ext(g[k]) /\ \A j \in 0..k : h[j] = g[j]
    BY SMTT(20), <1>1, <2>2, <2>3
  <2> HIDE DEF h
  <2>5. \A j \in 0..k : h[j + 1] = Ext(h[j])
    <3> SUFFICES ASSUME NEW j \in 0..k PROVE h[j + 1] = Ext(h[j])
      OBVIOUS
    <3>1. CASE j = k
      BY <2>4, <3>1
    <3>2. CASE j # k
      <4>1. j \in 0..(k - 1) /\ j + 1 \in 0..k
        BY <3>2
      <4> QED
        BY <2>1, <2>4, <4>1
    <3> QED
      BY <3>1, <3>2
  <2>6. Walk(h, k + 1)
    <3>1. (k + 1) - 1 = k
      OBVIOUS
    <3> QED
      BY <2>1, <2>4, <2>5, <3>1
  <2>7. \E f : Walk(f, k + 1)
    BY <2>6
  <2>8. k + 1 \in Nat
    OBVIOUS
  <2> HIDE DEF Walk
  <2> QED
    BY <2>7, <2>8
<1>4. N \in T
  <2> HIDE DEF T
  <2> QED
    BY <1>2, <1>3, SetInduction
<1>5. PICK g : Walk(g, N)
  BY <1>4
<1> QED
  BY <1>5 DEF Ext, Stepping

\* Follow takes them, one by one.
LEMMA FollowSteps ==
  ASSUME NEW null, NEW link, NEW first, Links(null, link, first), NEW N \in Nat
  PROVE  \E g : Lists(null, link, first, N, g) /\ Follow(null, link, first, N) = g[N]
<1>1. PICK h : Stepping(null, link, first, N, h)
  BY StepsExist
<1> DEFINE Ext(seen) == Extend(null, link, first, seen)
           Is(g) == g = [k \in 0..N |-> IF k = 0 THEN <<>> ELSE Ext(g[k - 1])]
           step == CHOOSE g : Is(g)
<1>4. Follow(null, link, first, N) = step[N]
  BY DEF Follow, Extend
<1> HIDE DEF Ext
<1>2. \E g : Is(g)
  <2>1. \A k \in 0..(N - 1) : h[k + 1] = Ext(h[k])
    BY <1>1 DEF Ext, Stepping
  <2>2. \A k \in 0..N : h[k] = IF k = 0 THEN <<>> ELSE Ext(h[k - 1])
    <3> SUFFICES ASSUME NEW k \in 0..N, k # 0 PROVE h[k] = Ext(h[k - 1])
      BY <1>1 DEF Stepping
    <3>1. k - 1 \in 0..(N - 1) /\ (k - 1) + 1 = k
      OBVIOUS
    <3> QED
      BY <2>1, <3>1
  <2>3. Is(h)
    BY <1>1, <2>2 DEF Stepping
  <2> QED
    BY <2>3
<1>3. Is(step)
  BY <1>2
<1> HIDE DEF step
<1>5. step[0] = <<>>
  BY <1>3
<1>6. \A k \in Nat : k < N => step[k + 1] = Ext(step[k])
  <2> SUFFICES ASSUME NEW k \in Nat, k < N PROVE step[k + 1] = Ext(step[k])
    OBVIOUS
  <2>1. k + 1 \in 0..N /\ k + 1 # 0 /\ (k + 1) - 1 = k
    OBVIOUS
  <2> QED
    BY <1>3, <2>1
<1> QED
  BY <1>4, <1>5, <1>6 DEF Ext, Lists

\* No sequence of different nodes is longer than there are nodes.
LEMMA SegmentLength ==
  ASSUME NEW link, IsFiniteSet(DOMAIN link), NEW s, Segment(link, s)
  PROVE  Len(s) \in Nat /\ Len(s) <= Cardinality(DOMAIN link) /\ Cardinality(DOMAIN link) \in Nat
<1>1. s \in [1..Len(s) -> DOMAIN link] /\ Len(s) \in Nat
  BY DEF Segment
<1>2. PICK m \in Nat : m = Len(s)
  BY <1>1
<1>3. IsFiniteSet(1..m) /\ Cardinality(1..m) = m
  BY FS_Interval
<1>4. Cardinality(DOMAIN link) \in Nat
  BY FS_CardinalityType
<1>5. ~(Cardinality(1..m) > Cardinality(DOMAIN link))
  BY <1>1, <1>2, <1>3, FS_PigeonHole DEF Segment
<1> QED
  BY <1>2, <1>3, <1>4, <1>5

\* The beginning of a segment is one.
LEMMA FollowStarts ==
  ASSUME NEW null, NEW link, NEW s, Segment(link, s), s # <<>>, null \notin DOMAIN link,
         NEW N \in Nat, NEW g, Lists(null, link, s[1], N, g)
  PROVE  \A k \in Nat : k <= N /\ k <= Len(s) =>
           g[k] \in Seq(DOMAIN link) /\ Len(g[k]) = k /\ \A i \in 1..k : g[k][i] = s[i]
<1> DEFINE Good(k) == g[k] \in Seq(DOMAIN link) /\ Len(g[k]) = k /\ \A i \in 1..k : g[k][i] = s[i]
           T == {k \in Nat : k <= N /\ k <= Len(s) => Good(k)}
<1>1. 0 \in T
  <2>1. <<>> \in Seq(DOMAIN link) /\ Len(<<>>) = 0 /\ 1..0 = {}
    OBVIOUS
  <2> QED
    BY <2>1 DEF Lists
<1>2. ASSUME NEW k \in Nat, k \in T PROVE k + 1 \in T
  <2> SUFFICES ASSUME k + 1 <= N, k + 1 <= Len(s) PROVE Good(k + 1)
    OBVIOUS
  <2>1. Good(k) /\ k < N /\ k + 1 \in 1..Len(s) /\ s[k + 1] \in DOMAIN link /\ Len(s) \in Nat
    BY <1>2 DEF Segment
  <2>2. g[k + 1] = Extend(null, link, s[1], g[k])
    BY <2>1 DEF Lists
  <2>3. g[k + 1] = Append(g[k], s[k + 1])
    <3>1. CASE k = 0
      BY <2>1, <2>2, <3>1 DEF Extend
    <3>2. CASE k # 0
      <4>1. k \in 1..(Len(s) - 1) /\ k \in 1..k /\ g[k] # <<>>
        BY <2>1, <3>2
      <4>2. link[g[k][k]] = s[k + 1] /\ Len(g[k]) = k
        BY <2>1, <4>1 DEF Segment
      <4>3. s[k + 1] # null
        BY <2>1
      <4> QED
        BY <2>2, <4>1, <4>2, <4>3 DEF Extend
    <3> QED
      BY <3>1, <3>2
  <2> QED
    BY <2>1, <2>3
<1> HIDE DEF T
<1>3. \A k \in Nat : k \in T
  BY <1>1, <1>2, SetInduction
<1> QED
  BY <1>3 DEF T

\* A path, once followed to its end, is what further steps find.
LEMMA FollowIs ==
  ASSUME NEW null, NEW link, NEW first, Links(null, link, first), null \notin DOMAIN link,
         IsFiniteSet(DOMAIN link), NEW s, Path(null, link, first, s)
  PROVE  Follow(null, link, first, Cardinality(DOMAIN link)) = s
<1>1. Segment(link, s) /\ s \in Seq(DOMAIN link)
  BY DEF Path, Segment
<1>2. PICK N \in Nat : N = Cardinality(DOMAIN link) /\ Len(s) <= N
  BY <1>1, SegmentLength
<1>3. PICK g : Lists(null, link, first, N, g) /\ Follow(null, link, first, N) = g[N]
  BY FollowSteps
<1>4. CASE s = <<>>
  <2>1. first = null
    BY <1>4 DEF Path
  <2> DEFINE T == {k \in Nat : k <= N => g[k] = <<>>}
  <2>2. 0 \in T
    BY <1>3 DEF Lists
  <2>3. ASSUME NEW k \in Nat, k \in T PROVE k + 1 \in T
    BY <1>3, <2>1, <2>3 DEF Extend, Lists
  <2> HIDE DEF T
  <2>4. N \in T
    BY <2>2, <2>3, SetInduction
  <2> QED
    BY <1>2, <1>3, <1>4, <2>4 DEF T
<1>5. CASE s # <<>>
  <2>1. first = s[1] /\ link[s[Len(s)]] = null /\ Len(s) \in Nat \ {0}
    BY <1>1, <1>5 DEF Path
  <2>2. \A k \in Nat : k <= N /\ k <= Len(s) =>
           g[k] \in Seq(DOMAIN link) /\ Len(g[k]) = k /\ \A i \in 1..k : g[k][i] = s[i]
    <3>1. Lists(null, link, s[1], N, g)
      BY <1>3, <2>1
    <3> QED
      BY <1>1, <1>3, <1>5, <3>1, FollowStarts
  <2> DEFINE m == Len(s)
             T == {k \in Nat : m + k <= N => g[m + k] = s}
  <2>3. g[m] \in Seq(DOMAIN link) /\ Len(g[m]) = m /\ \A i \in 1..m : g[m][i] = s[i]
    BY <1>2, <2>1, <2>2
  <2>4. g[m] = s
    BY <1>1, <2>3
  <2>5. 0 \in T
    BY <2>1, <2>4
  <2>6. ASSUME NEW k \in Nat, k \in T PROVE k + 1 \in T
    <3> SUFFICES ASSUME m + (k + 1) <= N PROVE g[m + (k + 1)] = s
      OBVIOUS
    <3>1. (m + k) + 1 = m + (k + 1) /\ m + k < N /\ m + k \in Nat
      BY <2>1
    <3>2. g[m + k] = s
      BY <2>6, <3>1
    <3>3. g[m + (k + 1)] = Extend(null, link, first, s)
      BY <1>3, <3>1, <3>2 DEF Lists
    <3> QED
      BY <1>5, <2>1, <3>3 DEF Extend
  <2>7. N - m \in Nat /\ m + (N - m) = N
    BY <1>2, <2>1
  <2> HIDE DEF T
  <2>8. N - m \in T
    BY <2>5, <2>6, <2>7, SetInduction
  <2> QED
    BY <1>2, <1>3, <2>7, <2>8 DEF T
<1> QED
  BY <1>4, <1>5

\* What follows a segment, stale links included, does not change how it begins.
LEMMA FollowBegins ==
  ASSUME NEW null, NEW link, NEW s, Segment(link, s), s # <<>>,
         Links(null, link, s[1]), null \notin DOMAIN link, IsFiniteSet(DOMAIN link)
  PROVE  LET c == Follow(null, link, s[1], Cardinality(DOMAIN link))
         IN  c \in Seq(DOMAIN link) /\ Len(s) <= Len(c) /\ \A i \in 1..Len(s) : c[i] = s[i]
<1>1. PICK N \in Nat : N = Cardinality(DOMAIN link) /\ Len(s) <= N
  BY SegmentLength
<1>2. PICK g : Lists(null, link, s[1], N, g) /\ Follow(null, link, s[1], N) = g[N]
  BY FollowSteps
<1>3. s \in Seq(DOMAIN link) /\ Len(s) \in Nat \ {0} /\ s[1] \in DOMAIN link
  BY DEF Segment
<1> DEFINE m == Len(s)
           Good(c) == c \in Seq(DOMAIN link) /\ m <= Len(c) /\ \A i \in 1..m : c[i] = s[i]
           T == {k \in Nat : m + k <= N => Good(g[m + k])}
<1>4. 0 \in T
  BY <1>1, <1>2, <1>3, FollowStarts
<1>5. ASSUME NEW c, Good(c) PROVE Good(Extend(null, link, s[1], c))
  <2> DEFINE n == link[c[Len(c)]]
  <2>1. c # <<>> /\ c[Len(c)] \in DOMAIN link
    BY <1>3, <1>5
  <2>2. n = null \/ n \in DOMAIN link
    BY <2>1 DEF Links
  <2>3. Extend(null, link, s[1], c) = IF n = null THEN c ELSE Append(c, n)
    BY <2>1 DEF Extend
  <2>4. PICK S : S = DOMAIN link
    OBVIOUS
  <2>5. c \in Seq(S) /\ (n = null \/ n \in S)
    BY <1>5, <2>2, <2>4
  <2> HIDE DEF n
  <2>6. \A x \in S : /\ Append(c, x) \in Seq(S) /\ m <= Len(Append(c, x))
                     /\ \A i \in 1..m : Append(c, x)[i] = s[i]
    BY <1>3, <1>5, <2>5
  <2> QED
    BY <1>5, <2>3, <2>4, <2>5, <2>6
<1>6. ASSUME NEW k \in Nat, k \in T PROVE k + 1 \in T
  <2> SUFFICES ASSUME m + (k + 1) <= N PROVE Good(g[m + (k + 1)])
    OBVIOUS
  <2>1. (m + k) + 1 = m + (k + 1) /\ m + k < N /\ m + k \in Nat
    BY <1>3
  <2>2. Good(g[m + k])
    BY <1>6, <2>1
  <2>3. g[m + (k + 1)] = Extend(null, link, s[1], g[m + k])
    BY <1>2, <2>1 DEF Lists
  <2> HIDE DEF Good
  <2> QED
    BY <1>5, <2>2, <2>3
<1>7. N - m \in Nat /\ m + (N - m) = N
  BY <1>1, <1>3
<1> HIDE DEF T, Good
<1>8. N - m \in T
  BY <1>4, <1>6, <1>7, SetInduction
<1>9. Good(g[N])
  BY <1>7, <1>8 DEF T
<1> QED
  BY <1>1, <1>2, <1>9 DEF Good

\* A path of nothing.
LEMMA PathEmpty ==
  ASSUME NEW null, NEW link
  PROVE  Path(null, link, null, <<>>) /\ Elements(<<>>) = {}
BY DEF Path, Segment, Elements

\* What the elements of a sequence of nodes are.
LEMMA PathElements ==
  ASSUME NEW null, NEW link, NEW first, NEW s, Path(null, link, first, s), null \notin DOMAIN link
  PROVE  /\ s \in Seq(DOMAIN link) /\ Elements(s) \subseteq DOMAIN link
         /\ first = null => s = <<>> /\ Elements(s) = {}
         /\ first # null => s # <<>> /\ first = s[1] /\ first \in Elements(s)
<1>1. s \in Seq(DOMAIN link) /\ first = IF s = <<>> THEN null ELSE s[1]
  BY DEF Path, Segment
<1>2. \A i \in 1..Len(s) : s[i] \in DOMAIN link
  BY <1>1
<1>3. s # <<>> => 1 \in 1..Len(s)
  BY <1>1
<1> QED
  BY <1>1, <1>2, <1>3 DEF Elements

\* Links of other nodes do not matter.
LEMMA PathKept ==
  ASSUME NEW null, NEW link, NEW first, NEW s, Path(null, link, first, s),
         NEW link2, DOMAIN link2 = DOMAIN link, \A n \in Elements(s) : link2[n] = link[n]
  PROVE  Path(null, link2, first, s)
<1>1. \A i \in 1..Len(s) : link2[s[i]] = link[s[i]]
  BY DEF Elements
<1>2. Len(s) \in Nat /\ (s # <<>> => Len(s) \in 1..Len(s))
  BY DEF Path, Segment
<1>3. \A i \in 1..(Len(s) - 1) : i \in 1..Len(s)
  BY <1>2
<1> QED
  BY <1>1, <1>2, <1>3 DEF Path, Segment

\* A node in front.
LEMMA PathCons ==
  ASSUME NEW null, NEW link, NEW first, NEW s, Path(null, link, first, s),
         NEW n \in DOMAIN link, n \notin Elements(s), link[n] = first, null \notin DOMAIN link
  PROVE  Path(null, link, n, <<n>> \o s) /\ Elements(<<n>> \o s) = Elements(s) \cup {n}
<1> DEFINE r == <<n>> \o s
<1>1. PICK S : S = DOMAIN link
  OBVIOUS
<1>2. s \in Seq(S) /\ n \in S /\ Len(s) \in Nat
  BY <1>1 DEF Path, Segment
<1>3. r \in Seq(S) /\ Len(r) = Len(s) + 1 /\ r[1] = n /\ r # <<>>
  BY <1>2
<1>4. \A i \in 2..(Len(s) + 1) : r[i] = s[i - 1] /\ i - 1 \in 1..Len(s)
  BY <1>2
<1>5. \A i \in 1..(Len(s) + 1) : i = 1 \/ i \in 2..(Len(s) + 1)
  BY <1>2
<1>6. \A i \in 1..Len(s) : s[i] # n
  BY DEF Elements
<1> HIDE DEF r
<1>7. \A i, j \in 1..Len(r) : r[i] = r[j] => i = j
  <2> SUFFICES ASSUME NEW i \in 1..Len(r), NEW j \in 1..Len(r), r[i] = r[j], i # j PROVE FALSE
    OBVIOUS
  <2>1. \/ i = 1 /\ j \in 2..(Len(s) + 1)
        \/ j = 1 /\ i \in 2..(Len(s) + 1)
        \/ i \in 2..(Len(s) + 1) /\ j \in 2..(Len(s) + 1)
    BY <1>3, <1>5
  <2>2. CASE i = 1 /\ j \in 2..(Len(s) + 1)
    BY <1>3, <1>4, <1>6, <2>2
  <2>3. CASE j = 1 /\ i \in 2..(Len(s) + 1)
    BY <1>3, <1>4, <1>6, <2>3
  <2>4. CASE i \in 2..(Len(s) + 1) /\ j \in 2..(Len(s) + 1)
    <3>1. s[i - 1] = s[j - 1] /\ i - 1 \in 1..Len(s) /\ j - 1 \in 1..Len(s)
      BY <1>4, <2>4
    <3>2. i - 1 = j - 1
      BY <3>1 DEF Path, Segment
    <3> QED
      BY <1>2, <2>4, <3>2
  <2> QED
    BY <2>1, <2>2, <2>3, <2>4
<1>8. \A i \in 1..(Len(r) - 1) : link[r[i]] = r[i + 1]
  <2> SUFFICES ASSUME NEW i \in 1..(Len(r) - 1) PROVE link[r[i]] = r[i + 1]
    OBVIOUS
  <2>1. i \in Nat /\ i + 1 \in 2..(Len(s) + 1) /\ (i + 1) - 1 = i /\ i \in 1..Len(s)
    BY <1>2, <1>3
  <2>2. r[i + 1] = s[i]
    BY <1>4, <2>1
  <2>3. CASE i = 1
    BY <1>3, <2>1, <2>2, <2>3 DEF Path
  <2>4. CASE i # 1
    <3>1. r[i] = s[i - 1] /\ i - 1 \in 1..(Len(s) - 1) /\ (i - 1) + 1 = i
      BY <1>2, <1>4, <2>1, <2>4
    <3> QED
      BY <2>2, <3>1 DEF Path, Segment
  <2> QED
    BY <2>3, <2>4
<1>9. link[r[Len(r)]] = null
  <2>1. CASE s = <<>>
    BY <1>3, <2>1 DEF Path
  <2>2. CASE s # <<>>
    <3>1. Len(s) \in Nat \ {0} /\ Len(r) \in 2..(Len(s) + 1) /\ Len(r) - 1 = Len(s)
      BY <1>2, <1>3, <2>2
    <3> QED
      BY <1>4, <2>2, <3>1 DEF Path
  <2> QED
    BY <2>1, <2>2
<1>10. Elements(r) = Elements(s) \cup {n}
  <2>1. \A x : x \in Elements(r) => x \in Elements(s) \cup {n}
    BY <1>3, <1>4, <1>5 DEF Elements
  <2>2. n \in Elements(r)
    BY <1>2, <1>3 DEF Elements
  <2>3. ASSUME NEW i \in 1..Len(s) PROVE s[i] \in Elements(r)
    <3>1. i + 1 \in 2..(Len(s) + 1) /\ (i + 1) - 1 = i /\ i + 1 \in 1..Len(r)
      BY <1>2, <1>3
    <3>2. r[i + 1] = s[i]
      BY <1>4, <3>1
    <3> QED
      BY <3>1, <3>2 DEF Elements
  <2>4. \A x : x \in Elements(s) => x \in Elements(r)
    BY <2>3 DEF Elements
  <2> QED
    BY <2>1, <2>2, <2>4
<1>11. Segment(link, r) /\ n = (IF r = <<>> THEN null ELSE r[1])
  BY <1>1, <1>3, <1>7, <1>8 DEF Segment
<1> QED
  BY <1>9, <1>10, <1>11 DEF Path, r

\* The node in front gone.
LEMMA PathTail ==
  ASSUME NEW null, NEW link, NEW first, NEW s, Path(null, link, first, s),
         null \notin DOMAIN link, first # null
  PROVE  /\ first \in DOMAIN link /\ s # <<>> /\ first = s[1] /\ first = Head(s)
         /\ Path(null, link, link[first], Tail(s))
         /\ Elements(Tail(s)) = Elements(s) \ {first} /\ first \in Elements(s)
<1> DEFINE r == Tail(s)
<1>1. PICK S : S = DOMAIN link
  OBVIOUS
<1>2. s \in Seq(S) /\ s # <<>> /\ first = s[1] /\ Len(s) \in Nat \ {0} /\ link[s[Len(s)]] = null
  BY <1>1 DEF Path, Segment
<1>3. r \in Seq(S) /\ Len(r) = Len(s) - 1 /\ Len(r) \in Nat /\ Head(s) = first
  BY <1>2
<1>4. \A i \in 1..Len(r) : r[i] = s[i + 1] /\ i + 1 \in 1..Len(s)
  BY <1>2
<1> HIDE DEF r
<1>5. \A i, j \in 1..Len(r) : r[i] = r[j] => i = j
  <2> SUFFICES ASSUME NEW i \in 1..Len(r), NEW j \in 1..Len(r), r[i] = r[j] PROVE i = j
    OBVIOUS
  <2>1. s[i + 1] = s[j + 1] /\ i + 1 \in 1..Len(s) /\ j + 1 \in 1..Len(s)
    BY <1>4
  <2>2. i + 1 = j + 1
    BY <2>1 DEF Path, Segment
  <2> QED
    BY <1>3, <2>2
<1>6. \A i \in 1..(Len(r) - 1) : link[r[i]] = r[i + 1]
  <2> SUFFICES ASSUME NEW i \in 1..(Len(r) - 1) PROVE link[r[i]] = r[i + 1]
    OBVIOUS
  <2>1. i \in 1..Len(r) /\ i + 1 \in 1..Len(r) /\ i + 1 \in 1..(Len(s) - 1)
    BY <1>3
  <2>2. r[i] = s[i + 1] /\ r[i + 1] = s[(i + 1) + 1]
    BY <1>4, <2>1
  <2> QED
    BY <2>1, <2>2 DEF Path, Segment
<1>7. link[first] = IF r = <<>> THEN null ELSE r[1]
  <2>1. CASE r = <<>>
    <3>1. Len(r) = 0 /\ Len(s) = 1
      BY <1>2, <1>3, <2>1
    <3> QED
      BY <1>2, <2>1, <3>1
  <2>2. CASE r # <<>>
    <3>1. 1 \in 1..Len(r) /\ 1 \in 1..(Len(s) - 1)
      BY <1>3, <2>2
    <3>2. r[1] = s[2] /\ link[s[1]] = s[1 + 1]
      BY <1>4, <3>1 DEF Path, Segment
    <3> QED
      BY <1>2, <2>2, <3>2
  <2> QED
    BY <2>1, <2>2
<1>8. r # <<>> => link[r[Len(r)]] = null
  <2> SUFFICES ASSUME r # <<>> PROVE link[r[Len(r)]] = null
    OBVIOUS
  <2>1. Len(r) \in 1..Len(r) /\ Len(r) + 1 = Len(s)
    BY <1>2, <1>3
  <2> QED
    BY <1>2, <1>4, <2>1
<1>9. Path(null, link, link[first], r)
  BY <1>1, <1>3, <1>5, <1>6, <1>7, <1>8 DEF Path, Segment
<1>10. Elements(r) = Elements(s) \ {first} /\ first \in Elements(s)
  <2>1. ASSUME NEW i \in 1..Len(r) PROVE r[i] \in Elements(s) \ {first}
    <3>1. r[i] = s[i + 1] /\ i + 1 \in 1..Len(s) /\ i + 1 # 1 /\ 1 \in 1..Len(s)
      BY <1>2, <1>3, <1>4
    <3>2. s[i + 1] # s[1]
      BY <3>1 DEF Path, Segment
    <3> QED
      BY <1>2, <3>1, <3>2 DEF Elements
  <2>2. ASSUME NEW i \in 1..Len(s), s[i] # first PROVE s[i] \in Elements(r)
    <3>1. i - 1 \in 1..Len(r) /\ (i - 1) + 1 = i
      BY <1>2, <1>3, <2>2
    <3> QED
      BY <1>4, <3>1 DEF Elements
  <2>3. 1 \in 1..Len(s)
    BY <1>2
  <2> QED
    BY <1>2, <2>1, <2>2, <2>3 DEF Elements
<1> QED
  BY <1>1, <1>2, <1>3, <1>9, <1>10 DEF r

\* A sequence of different elements.
Distinct(s) == \A i, j \in 1..Len(s) : s[i] = s[j] => i = j

\* Two sequences of different elements that have none in common, one behind the other.
LEMMA DistinctJoin ==
  ASSUME NEW S, NEW s \in Seq(S), NEW r \in Seq(S), Elements(s) \cap Elements(r) = {},
         Distinct(s), Distinct(r)
  PROVE  /\ s \o r \in Seq(S) /\ Elements(s \o r) = Elements(s) \cup Elements(r)
         /\ Distinct(s \o r)
<1> USE DEF Distinct
<1> DEFINE c == s \o r
<1>1. c \in Seq(S) /\ Len(c) = Len(s) + Len(r) /\ Len(s) \in Nat /\ Len(r) \in Nat
  OBVIOUS
<1>2. \A i \in 1..Len(s) : c[i] = s[i]
  OBVIOUS
<1>3. \A i \in (Len(s) + 1)..(Len(s) + Len(r)) : c[i] = r[i - Len(s)] /\ i - Len(s) \in 1..Len(r)
  OBVIOUS
<1> HIDE DEF c
<1>4. \A i \in 1..Len(c) : \/ i \in 1..Len(s) /\ c[i] = s[i]
                           \/ /\ i \in (Len(s) + 1)..(Len(s) + Len(r)) /\ c[i] = r[i - Len(s)]
                              /\ i - Len(s) \in 1..Len(r)
  <2> TAKE i \in 1..Len(c)
  <2>1. i \in 1..Len(s) \/ i \in (Len(s) + 1)..(Len(s) + Len(r))
    BY <1>1
  <2> QED
    BY <1>2, <1>3, <2>1
<1>5. \A i \in 1..Len(s), j \in 1..Len(r) : s[i] # r[j]
  BY SMTT(20) DEF Elements
<1>6. \A i, j \in 1..Len(c) : c[i] = c[j] => i = j
  <2> SUFFICES ASSUME NEW i \in 1..Len(c), NEW j \in 1..Len(c), c[i] = c[j] PROVE i = j
    OBVIOUS
  <2>1. CASE i \in 1..Len(s) /\ c[i] = s[i] /\ j \in 1..Len(s) /\ c[j] = s[j]
    BY <2>1
  <2>2. CASE /\ i \in (Len(s) + 1)..(Len(s) + Len(r)) /\ j \in (Len(s) + 1)..(Len(s) + Len(r))
             /\ c[i] = r[i - Len(s)] /\ c[j] = r[j - Len(s)]
    <3>1. i - Len(s) \in 1..Len(r) /\ j - Len(s) \in 1..Len(r)
      BY <1>3, <2>2
    <3>2. i - Len(s) = j - Len(s)
      BY <2>2, <3>1
    <3> QED
      BY <1>1, <2>2, <3>2
  <2> QED
    BY <1>4, <1>5, <2>1, <2>2
<1>7. Elements(c) = Elements(s) \cup Elements(r)
  <2>1. \A i \in 1..Len(c) : c[i] \in Elements(s) \cup Elements(r)
    BY <1>4 DEF Elements
  <2>2. ASSUME NEW i \in 1..Len(s) PROVE s[i] \in Elements(c)
    <3>1. i \in 1..Len(c)
      BY <1>1
    <3> QED
      BY <1>2, <3>1 DEF Elements
  <2>3. ASSUME NEW i \in 1..Len(r) PROVE r[i] \in Elements(c)
    <3>1. /\ Len(s) + i \in (Len(s) + 1)..(Len(s) + Len(r)) /\ (Len(s) + i) - Len(s) = i
          /\ Len(s) + i \in 1..Len(c)
      BY <1>1
    <3>2. c[Len(s) + i] = r[i]
      BY <1>3, <3>1
    <3> QED
      BY <3>1, <3>2 DEF Elements
  <2>4. \A x : x \in Elements(c) => x \in Elements(s) \cup Elements(r)
    <3> SUFFICES ASSUME NEW k \in 1..Len(c) PROVE c[k] \in Elements(s) \cup Elements(r)
      BY DEF Elements
    <3> QED
      BY <2>1
  <2>5. \A x : x \in Elements(s) \/ x \in Elements(r) => x \in Elements(c)
    <3>1. \A x : x \in Elements(s) => x \in Elements(c)
      BY <2>2 DEF Elements
    <3>2. \A x : x \in Elements(r) => x \in Elements(c)
      BY <2>3 DEF Elements
    <3> QED
      BY <3>1, <3>2
  <2> QED
    BY <2>4, <2>5
<1> QED
  BY <1>1, <1>6, <1>7 DEF c

\* Another element in front of different ones.
LEMMA DistinctCons ==
  ASSUME NEW S, NEW s \in Seq(S), NEW n \in S, n \notin Elements(s), Distinct(s)
  PROVE  /\ <<n>> \o s \in Seq(S) /\ Elements(<<n>> \o s) = Elements(s) \cup {n}
         /\ Distinct(<<n>> \o s)
<1>1. PICK r : r = <<n>>
  OBVIOUS
<1>2. r \in Seq(S) /\ Len(r) = 1 /\ r[1] = n
  BY <1>1
<1>3. Elements(r) = {n} /\ Distinct(r)
  BY <1>2 DEF Elements, Distinct
<1>4. /\ r \o s \in Seq(S) /\ Elements(r \o s) = Elements(r) \cup Elements(s)
      /\ Distinct(r \o s)
  BY <1>2, <1>3, DistinctJoin
<1> QED
  BY <1>1, <1>3, <1>4

\* Different elements without the one in front.
LEMMA DistinctTail ==
  ASSUME NEW S, NEW s \in Seq(S), s # <<>>, Distinct(s)
  PROVE  /\ Head(s) \in S /\ Head(s) \in Elements(s)
         /\ Tail(s) \in Seq(S) /\ Elements(Tail(s)) = Elements(s) \ {Head(s)}
         /\ Distinct(Tail(s))
<1> USE DEF Distinct
<1> DEFINE r == Tail(s)
<1>1. Len(s) \in Nat \ {0} /\ Head(s) = s[1] /\ 1 \in 1..Len(s)
  OBVIOUS
<1>2. r \in Seq(S) /\ Len(r) = Len(s) - 1 /\ Len(r) \in Nat
  OBVIOUS
<1>3. \A i \in 1..Len(r) : r[i] = s[i + 1] /\ i + 1 \in 1..Len(s)
  OBVIOUS
<1> HIDE DEF r
<1>4. \A i, j \in 1..Len(r) : r[i] = r[j] => i = j
  <2> SUFFICES ASSUME NEW i \in 1..Len(r), NEW j \in 1..Len(r), r[i] = r[j] PROVE i = j
    OBVIOUS
  <2>1. s[i + 1] = s[j + 1] /\ i + 1 \in 1..Len(s) /\ j + 1 \in 1..Len(s)
    BY <1>3
  <2>2. i + 1 = j + 1
    BY <2>1
  <2> QED
    BY <1>2, <2>2
<1>5. ASSUME NEW i \in 1..Len(r) PROVE r[i] \in Elements(s) \ {Head(s)}
  <2>1. r[i] = s[i + 1] /\ i + 1 \in 1..Len(s) /\ i + 1 # 1
    BY <1>2, <1>3
  <2>2. s[i + 1] # s[1]
    BY <1>1, <2>1
  <2> QED
    BY <1>1, <2>1, <2>2 DEF Elements
<1>6. ASSUME NEW i \in 1..Len(s), s[i] # Head(s) PROVE s[i] \in Elements(r)
  <2>1. i # 1
    BY <1>1, <1>6
  <2>2. i - 1 \in 1..Len(r) /\ (i - 1) + 1 = i
    BY <1>1, <1>2, <2>1
  <2> QED
    BY <1>3, <2>2 DEF Elements
<1>7. Elements(r) = Elements(s) \ {Head(s)}
  <2>1. \A x : x \in Elements(r) => x \in Elements(s) \ {Head(s)}
    BY <1>5 DEF Elements
  <2>2. \A x : x \in Elements(s) \ {Head(s)} => x \in Elements(r)
    BY <1>6 DEF Elements
  <2> QED
    BY <2>1, <2>2
<1>8. Head(s) \in S /\ Head(s) \in Elements(s)
  BY <1>1 DEF Elements
<1> QED
  BY <1>2, <1>4, <1>7, <1>8 DEF r

\* One path behind the last node of a segment that is apart from it.
LEMMA PathJoin ==
  ASSUME NEW null, NEW link, NEW s, Segment(link, s), s # <<>>,
         NEW first, NEW r, Path(null, link, first, r), link[s[Len(s)]] = first,
         Elements(s) \cap Elements(r) = {}, null \notin DOMAIN link
  PROVE  Path(null, link, s[1], s \o r) /\ Elements(s \o r) = Elements(s) \cup Elements(r)
<1> DEFINE c == s \o r
<1>1. PICK S : S = DOMAIN link
  OBVIOUS
<1>2. /\ s \in Seq(S) /\ r \in Seq(S) /\ Len(s) \in Nat \ {0} /\ Len(r) \in Nat
      /\ first = IF r = <<>> THEN null ELSE r[1]
  BY <1>1 DEF Path, Segment
<1>3. c \in Seq(S) /\ Len(c) = Len(s) + Len(r)
  BY <1>2
<1>4. \A i \in 1..Len(s) : c[i] = s[i]
  BY <1>2
<1>5. \A i \in (Len(s) + 1)..(Len(s) + Len(r)) : c[i] = r[i - Len(s)] /\ i - Len(s) \in 1..Len(r)
  BY <1>2
<1> HIDE DEF c
<1>8. /\ \A i, j \in 1..Len(c) : c[i] = c[j] => i = j
      /\ Elements(c) = Elements(s) \cup Elements(r)
  BY <1>2, DistinctJoin DEF Path, Segment, Distinct, c
<1>9. \A i \in 1..(Len(c) - 1) : link[c[i]] = c[i + 1]
  <2> SUFFICES ASSUME NEW i \in 1..(Len(c) - 1) PROVE link[c[i]] = c[i + 1]
    OBVIOUS
  <2>1. \/ i \in 1..(Len(s) - 1)
        \/ i = Len(s)
        \/ i \in (Len(s) + 1)..(Len(s) + Len(r) - 1)
    BY <1>2, <1>3
  <2>2. CASE i \in 1..(Len(s) - 1)
    <3>1. i \in 1..Len(s) /\ i + 1 \in 1..Len(s)
      BY <1>2, <2>2
    <3> QED
      BY <1>4, <2>2, <3>1 DEF Segment
  <2>3. CASE i = Len(s)
    <3>1. i \in 1..Len(s) /\ i + 1 \in (Len(s) + 1)..(Len(s) + Len(r)) /\ (i + 1) - Len(s) = 1
          /\ r # <<>>
      BY <1>2, <1>3, <2>3
    <3>2. c[i + 1] = r[1] /\ c[i] = s[Len(s)]
      BY <1>4, <1>5, <2>3, <3>1
    <3> QED
      BY <1>2, <3>1, <3>2
  <2>4. CASE i \in (Len(s) + 1)..(Len(s) + Len(r) - 1)
    <3>1. /\ i \in (Len(s) + 1)..(Len(s) + Len(r)) /\ i + 1 \in (Len(s) + 1)..(Len(s) + Len(r))
          /\ (i + 1) - Len(s) = (i - Len(s)) + 1 /\ i - Len(s) \in 1..(Len(r) - 1)
      BY <1>2, <2>4
    <3>2. c[i] = r[i - Len(s)] /\ c[i + 1] = r[(i - Len(s)) + 1]
      BY <1>5, <3>1
    <3> QED
      BY <3>1, <3>2 DEF Path, Segment
  <2> QED
    BY <2>1, <2>2, <2>3, <2>4
<1>10. c # <<>> /\ c[1] = s[1] /\ link[c[Len(c)]] = null
  <2>1. c # <<>> /\ 1 \in 1..Len(s)
    BY <1>2, <1>3
  <2>2. CASE r = <<>>
    <3>1. Len(c) = Len(s) /\ Len(s) \in 1..Len(s)
      BY <1>2, <1>3, <2>2
    <3> QED
      BY <1>2, <1>4, <2>1, <2>2, <3>1
  <2>3. CASE r # <<>>
    <3>1. Len(c) \in (Len(s) + 1)..(Len(s) + Len(r)) /\ Len(c) - Len(s) = Len(r)
      BY <1>2, <1>3, <2>3
    <3>2. c[Len(c)] = r[Len(r)]
      BY <1>5, <3>1
    <3> QED
      BY <1>4, <2>1, <2>3, <3>2 DEF Path
  <2> QED
    BY <2>2, <2>3
<1>11. Path(null, link, s[1], c)
  BY <1>1, <1>3, <1>8, <1>9, <1>10 DEF Path, Segment
<1> QED
  BY <1>8, <1>11 DEF c

\* The link of its last node is not part of a segment.
LEMMA SegmentKept ==
  ASSUME NEW link, NEW s, Segment(link, s), NEW link2, DOMAIN link2 = DOMAIN link,
         \A n \in Elements(s) : n = s[Len(s)] \/ link2[n] = link[n]
  PROVE  Segment(link2, s)
<1>1. Len(s) \in Nat /\ \A i, j \in 1..Len(s) : s[i] = s[j] => i = j
  BY DEF Segment
<1>2. ASSUME NEW i \in 1..(Len(s) - 1) PROVE link2[s[i]] = s[i + 1]
  <2>1. i \in 1..Len(s) /\ Len(s) \in 1..Len(s) /\ i # Len(s)
    BY <1>1
  <2>2. s[i] \in Elements(s) /\ s[i] # s[Len(s)]
    BY <1>1, <2>1 DEF Elements
  <2> QED
    BY <2>2 DEF Segment
<1> QED
  BY <1>2 DEF Segment

\* One node is a segment; and so is a path.
LEMMA SegmentOne ==
  ASSUME NEW link, NEW n \in DOMAIN link
  PROVE  Segment(link, <<n>>) /\ Elements(<<n>>) = {n} /\ Len(<<n>>) = 1 /\ <<n>>[1] = n
BY DEF Segment, Elements

\* What the nodes of a sequence hold.
DataOf(data, s) == [i \in 1..Len(s) |-> data[s[i]]]

\* DataOf depends on these nodes only.
LEMMA DataKept ==
  ASSUME NEW data, NEW other, NEW s, \A n \in Elements(s) : other[n] = data[n]
  PROVE  DataOf(other, s) = DataOf(data, s)
BY DEF DataOf, Elements

\* A node in front holds the value in front.
LEMMA DataCons ==
  ASSUME NEW data, NEW s \in Seq(DOMAIN data), NEW n \in DOMAIN data
  PROVE  DataOf(data, <<n>> \o s) = <<data[n]>> \o DataOf(data, s)
<1> DEFINE V == {data[m] : m \in DOMAIN data}
           h == DataOf(data, s)
           r == <<n>> \o s
           c == <<data[n]>> \o h
<1>1. PICK S : S = DOMAIN data
  OBVIOUS
<1>2. s \in Seq(S) /\ n \in S /\ Len(s) \in Nat /\ \A i \in 1..Len(s) : s[i] \in S
  BY <1>1
<1>3. \A m \in S : data[m] \in V
  BY <1>1
<1> HIDE DEF V
<1>4. h \in Seq(V) /\ Len(h) = Len(s) /\ \A i \in 1..Len(s) : h[i] = data[s[i]]
  BY <1>2, <1>3 DEF DataOf
<1> HIDE DEF h
<1>5. Len(r) = Len(s) + 1 /\ r[1] = n /\ \A i \in 2..(Len(s) + 1) : r[i] = s[i - 1]
  BY <1>2
<1>6. /\ c \in Seq(V) /\ Len(c) = Len(s) + 1 /\ c[1] = data[n]
      /\ \A i \in 2..(Len(s) + 1) : c[i] = h[i - 1]
  BY <1>2, <1>3, <1>4
<1> HIDE DEF r, c
<1>7. \A i \in 1..(Len(s) + 1) : data[r[i]] = c[i]
  <2> TAKE i \in 1..(Len(s) + 1)
  <2>1. i = 1 \/ (i \in 2..(Len(s) + 1) /\ i - 1 \in 1..Len(s))
    BY <1>2
  <2> QED
    BY <1>4, <1>5, <1>6, <2>1
<1>8. DataOf(data, r) = [i \in 1..(Len(s) + 1) |-> c[i]]
  BY <1>5, <1>7 DEF DataOf
<1>9. c = [i \in 1..(Len(s) + 1) |-> c[i]]
  BY <1>6
<1> QED
  BY <1>8, <1>9 DEF r, c, h

\* The node in front gone, so is the value in front.
LEMMA DataTail ==
  ASSUME NEW data, NEW s \in Seq(DOMAIN data), s # <<>>
  PROVE  /\ DataOf(data, s) # <<>> /\ Head(DataOf(data, s)) = data[s[1]]
         /\ DataOf(data, Tail(s)) = Tail(DataOf(data, s))
<1> DEFINE V == {data[m] : m \in DOMAIN data}
           h == DataOf(data, s)
           r == Tail(s)
           c == Tail(h)
<1>1. PICK S : S = DOMAIN data
  OBVIOUS
<1>2. s \in Seq(S) /\ Len(s) \in Nat \ {0} /\ \A i \in 1..Len(s) : s[i] \in S
  BY <1>1
<1>3. \A m \in S : data[m] \in V
  BY <1>1
<1> HIDE DEF V
<1>4. h \in Seq(V) /\ Len(h) = Len(s) /\ \A i \in 1..Len(s) : h[i] = data[s[i]]
  BY <1>2, <1>3 DEF DataOf
<1> HIDE DEF h
<1>5. h # <<>> /\ Head(h) = data[s[1]]
  BY <1>2, <1>4
<1>6. Len(r) = Len(s) - 1 /\ \A i \in 1..(Len(s) - 1) : r[i] = s[i + 1]
  BY <1>2
<1>7. c \in Seq(V) /\ Len(c) = Len(s) - 1 /\ \A i \in 1..(Len(s) - 1) : c[i] = h[i + 1]
  BY <1>2, <1>4, <1>5
<1> HIDE DEF r, c
<1>8. \A i \in 1..(Len(s) - 1) : i + 1 \in 1..Len(s)
  BY <1>2
<1>9. DataOf(data, r) = [i \in 1..(Len(s) - 1) |-> c[i]]
  BY <1>4, <1>6, <1>7, <1>8 DEF DataOf
<1>10. c = [i \in 1..(Len(s) - 1) |-> c[i]]
  BY <1>7
<1> QED
  BY <1>5, <1>9, <1>10 DEF r, c, h
=============================================================================
