-------------------------- MODULE Sequential_proofs --------------------------
(***************************************************************************)
(* Proofs about the components of Sequential.  They share no variable and  *)
(* a step is one of one component, so each has an inductive invariant of   *)
(* its own.                                                                *)
(***************************************************************************)
EXTENDS Sequential, Lemmas, TLAPS

-----------------------------------------------------------------------------
(* The branchless search. *)

\* The array, sorted as the caller owes it, and the rounds so far.
UpperInv ==
  /\ u_n \in Nat \ {0} /\ u_x \in Number
  /\ u_a \in [0..(u_n - 1) -> Number]
  /\ \A p, q \in 0..(u_n - 1) : p < q => u_a[p] <= u_a[q]
  /\ Upper!Bracket

\* What is known of the numbers.
LEMMA UpperNumbers == Number \subseteq Int /\ Number # {} /\ MaxLength \in Nat \ {0}
BY Assumptions DEF Upper!UpperBoundAssumption

\* The first array has one element.
LEMMA UpperInit == Upper!Init => UpperInv
<1> SUFFICES ASSUME Upper!Init PROVE UpperInv
  OBVIOUS
<1>1. u_n = 1 /\ u_x \in Number /\ u_a = [p \in {0} |-> u_x] /\ u_i = 0 /\ u_len = 1
  BY UpperNumbers DEF Upper!Init
<1>2. 0..(u_n - 1) = {0}
  BY <1>1
<1> QED
  BY <1>1, <1>2, UpperNumbers DEF UpperInv, Upper!Bracket

\* A round leaves behind only elements that are not greater, and cuts off behind only
\* elements that are.
LEMMA UpperStep == UpperInv /\ [Upper!Next]_(Upper!vars) => UpperInv'
<1> SUFFICES ASSUME UpperInv, [Upper!Next]_(Upper!vars) PROVE UpperInv'
  OBVIOUS
<1> USE UpperNumbers
<1>1. ASSUME NEW m \in 1..MaxLength, NEW array \in Upper!Sorted(m), NEW number \in Number,
             Upper!Call(m, array, number)
      PROVE  UpperInv'
  BY <1>1 DEF Upper!Call, Upper!Sorted, UpperInv, Upper!Bracket
<1>2. CASE Upper!Round
  <2> DEFINE mid == u_len \div 2
  <2>1. /\ u_len > 1 /\ u_n' = u_n /\ u_a' = u_a /\ u_x' = u_x
        /\ u_i' = IF u_a[u_i + mid - 1] <= u_x THEN u_i + mid ELSE u_i
        /\ u_len' = u_len - mid
    BY <1>2 DEF Upper!Round
  <2>2. /\ u_i \in Nat /\ u_len \in Nat /\ u_i + u_len <= u_n /\ u_n \in Nat /\ u_x \in Int
        /\ \A p \in 0..(u_n - 1) : u_a[p] \in Int
        /\ \A p, q \in 0..(u_n - 1) : p < q => u_a[p] <= u_a[q]
        /\ \A p \in 0..(u_i - 1) : u_a[p] <= u_x
        /\ \A p \in (u_i + u_len)..(u_n - 1) : u_a[p] > u_x
        /\ u_i + u_len < u_n => u_a[u_i + u_len - 1] > u_x
    BY DEF UpperInv, Upper!Bracket
  <2>3. mid \in Nat /\ 1 <= mid /\ mid <= u_len - mid
    BY <2>1, <2>2
  <2> HIDE DEF mid
  <2>4. u_i + mid - 1 \in 0..(u_n - 1)
    BY <2>2, <2>3
  <2>5. CASE u_a[u_i + mid - 1] <= u_x
    <3>1. \A p \in 0..(u_i + mid - 1) : u_a[p] <= u_x
      <4> SUFFICES ASSUME NEW p \in 0..(u_i + mid - 1) PROVE u_a[p] <= u_x
        OBVIOUS
      <4>1. p \in 0..(u_n - 1) /\ (p < u_i + mid - 1 \/ p = u_i + mid - 1)
        BY <2>2, <2>3, <2>4
      <4>2. u_a[p] <= u_a[u_i + mid - 1]
        BY <2>2, <2>4, <4>1
      <4> QED
        BY <2>2, <2>4, <2>5, <4>1, <4>2
    <3>2. u_i' = u_i + mid /\ u_i' + u_len' = u_i + u_len
      BY <2>1, <2>2, <2>3, <2>5
    <3>3. Upper!Bracket'
      BY <2>1, <2>2, <2>3, <3>1, <3>2 DEF Upper!Bracket
    <3> QED
      BY <2>1, <3>3 DEF UpperInv
  <2>6. CASE u_a[u_i + mid - 1] > u_x
    <3>1. \A p \in (u_i + mid - 1)..(u_n - 1) : u_a[p] > u_x
      <4> SUFFICES ASSUME NEW p \in (u_i + mid - 1)..(u_n - 1) PROVE u_a[p] > u_x
        OBVIOUS
      <4>1. p \in 0..(u_n - 1) /\ (u_i + mid - 1 < p \/ p = u_i + mid - 1)
        BY <2>2, <2>3, <2>4
      <4>2. u_a[u_i + mid - 1] <= u_a[p]
        BY <2>2, <2>4, <4>1
      <4> QED
        BY <2>2, <2>4, <2>6, <4>1, <4>2
    <3>2. u_i' = u_i /\ u_len' = u_len - mid
      BY <2>1, <2>2, <2>4, <2>6
    <3>3. /\ (u_i + u_len - mid)..(u_n - 1) \subseteq (u_i + mid - 1)..(u_n - 1)
          /\ u_i + u_len - mid - 1 \in (u_i + mid - 1)..(u_n - 1)
      BY <2>2, <2>3
    <3>4. Upper!Bracket'
      BY <2>1, <2>2, <2>3, <3>1, <3>2, <3>3 DEF Upper!Bracket
    <3> QED
      BY <2>1, <3>4 DEF UpperInv
  <2> QED
    BY <2>2, <2>4, <2>5, <2>6
<1>3. CASE UNCHANGED Upper!vars
  BY <1>3 DEF Upper!vars, UpperInv, Upper!Bracket
<1> QED
  BY <1>1, <1>2, <1>3 DEF Upper!Next

\* When one element is left it is the one looked for.
LEMMA UpperFinds == UpperInv => Finds
<1> SUFFICES ASSUME UpperInv PROVE Upper!Finds /\ Upper!Bracket
  BY DEF Finds
<1> QED
  BY UpperNumbers DEF UpperInv, Upper!Bracket, Upper!Finds, Upper!Done

-----------------------------------------------------------------------------
(* inbubsort. *)

\* The template arguments of the instance, and what the passes have done.
BubbleInv ==
  /\ b_i \in 0..Top /\ b_j \in 0..b_i
  /\ b_data \in [Bubble!Index -> Number]
  /\ Bubble!Sorting /\ Bubble!SameElements

\* What is known of the numbers.
LEMMA BubbleNumbers == Top \in Nat /\ Number \subseteq Int /\ Number # {}
BY Assumptions DEF Bubble!BubbleAssumption

\* An array has its own elements.
LEMMA BubbleSame ==
  ASSUME NEW d, NEW g, d = g
  PROVE  \E f \in Bubble!Permutations : \A p \in Bubble!Index : d[p] = g[f[p]]
<1> DEFINE id == [p \in Bubble!Index |-> p]
<1>1. id \in Bubble!Permutations /\ \A p \in Bubble!Index : d[p] = g[id[p]]
  BY DEF Bubble!Permutations
<1> QED
  BY <1>1

\* Before the first call all numbers are the same.
LEMMA BubbleInit == Bubble!Init => BubbleInv
<1> SUFFICES ASSUME Bubble!Init PROVE BubbleInv
  OBVIOUS
<1>1. Bubble!SameElements
  <2>1. b_data = given
    BY DEF Bubble!Init
  <2> QED
    BY <2>1, BubbleSame DEF Bubble!SameElements
<1>2. PICK x \in Number : b_data = [p \in 0..Top |-> x]
  BY BubbleNumbers DEF Bubble!Init, Bubble!Index
<1>3. x \in Int /\ b_i = 0 /\ b_j = 0 /\ Top \in Nat
  BY BubbleNumbers DEF Bubble!Init
<1>4. b_data \in [0..Top -> Number] /\ \A p \in 0..Top : b_data[p] = x
  BY <1>2
<1>5. Bubble!Sorting
  BY <1>3, <1>4 DEF Bubble!Sorting, Bubble!Index
<1> QED
  BY <1>1, <1>3, <1>4, <1>5 DEF BubbleInv, Bubble!Index

\* The instance <i, j> leaves the largest of the first j + 2 elements behind, and
\* exchanges elements only.
LEMMA BubbleStep == BubbleInv /\ [Bubble!Next]_(Bubble!vars) => BubbleInv'
<1> SUFFICES ASSUME BubbleInv, [Bubble!Next]_(Bubble!vars) PROVE BubbleInv'
  OBVIOUS
<1> USE BubbleNumbers DEF Bubble!Index
<1>1. ASSUME NEW array \in [Bubble!Index -> Number], Bubble!Call(array) PROVE BubbleInv'
  <2>1. /\ b_data' = array /\ given' = array /\ b_i' = Top /\ b_j' = 0
    BY <1>1 DEF Bubble!Call
  <2>2. Bubble!SameElements'
    BY <2>1, BubbleSame DEF Bubble!SameElements
  <2>3. b_data'[0] \in Int
    <3>1. 0 \in 0..Top
      OBVIOUS
    <3>2. array[0] \in Number
      BY <1>1, <3>1
    <3> QED
      BY <2>1, <3>2
  <2>4. Bubble!Sorting'
    BY <2>1, <2>3 DEF Bubble!Sorting
  <2> QED
    BY <1>1, <2>1, <2>2, <2>4 DEF BubbleInv
<1>2. CASE Bubble!Step
  <2>1. /\ b_j < b_i /\ b_i' = b_i /\ b_j' = b_j + 1 /\ given' = given
        /\ b_j \in 0..Top /\ b_j + 1 \in 0..Top /\ b_i \in 0..Top
        /\ b_data \in [0..Top -> Number] /\ \A p \in 0..Top : b_data[p] \in Int
        /\ \A p, q \in 0..Top : p < q /\ b_i < q => b_data[p] <= b_data[q]
        /\ \A p \in 0..b_j : b_data[p] <= b_data[b_j]
    <3>1. b_j < b_i /\ b_i' = b_i /\ b_j' = b_j + 1 /\ given' = given
      BY <1>2 DEF Bubble!Step
    <3>2. b_i \in 0..Top /\ b_j \in 0..b_i /\ b_data \in [0..Top -> Number]
      BY DEF BubbleInv
    <3>3. b_j \in 0..Top /\ b_j + 1 \in 0..Top
      BY <3>1, <3>2
    <3>4. \A p \in 0..Top : b_data[p] \in Int
      BY <3>2
    <3>5. /\ \A p, q \in 0..Top : p < q /\ b_i < q => b_data[p] <= b_data[q]
          /\ \A p \in 0..b_j : b_data[p] <= b_data[b_j]
      BY DEF BubbleInv, Bubble!Sorting
    <3> QED
      BY <3>1, <3>2, <3>3, <3>4, <3>5
  <2>2. CASE b_data[b_j] <= b_data[b_j + 1]
    <3>1. b_data' = b_data
      BY <1>2, <2>1, <2>2 DEF Bubble!Step
    <3>2. Bubble!Sorting'
      <4>1. \A p \in 0..(b_j + 1) : b_data[p] <= b_data[b_j + 1]
        <5> SUFFICES ASSUME NEW p \in 0..(b_j + 1) PROVE b_data[p] <= b_data[b_j + 1]
          OBVIOUS
        <5>1. p \in 0..Top /\ (p \in 0..b_j \/ p = b_j + 1)
          BY <2>1
        <5> QED
          BY <2>1, <2>2, <5>1
      <4> QED
        BY <2>1, <3>1, <4>1 DEF Bubble!Sorting
    <3>3. Bubble!SameElements'
      BY <2>1, <3>1 DEF BubbleInv, Bubble!SameElements
    <3> QED
      BY <2>1, <3>1, <3>2, <3>3 DEF BubbleInv
  <2>3. CASE b_data[b_j] > b_data[b_j + 1]
    <3>1. /\ b_data' \in [0..Top -> Number]
          /\ b_data'[b_j] = b_data[b_j + 1] /\ b_data'[b_j + 1] = b_data[b_j]
          /\ \A p \in 0..Top : p # b_j /\ p # b_j + 1 => b_data'[p] = b_data[p]
      BY <1>2, <2>1, <2>3 DEF Bubble!Step
    <3>2. Bubble!Sorting'
      <4>1. \A p \in 0..(b_j + 1) : b_data'[p] <= b_data'[b_j + 1]
        <5> SUFFICES ASSUME NEW p \in 0..(b_j + 1) PROVE b_data'[p] <= b_data'[b_j + 1]
          OBVIOUS
        <5>1. p \in 0..Top /\ (p \in 0..(b_j - 1) \/ p = b_j \/ p = b_j + 1)
          BY <2>1
        <5> QED
          BY <2>1, <2>3, <3>1, <5>1
      <4>2. ASSUME NEW p \in 0..Top, NEW q \in 0..Top, p < q, b_i < q
            PROVE  b_data'[p] <= b_data'[q]
        <5>1. q # b_j /\ q # b_j + 1 /\ b_data'[q] = b_data[q]
          BY <2>1, <3>1, <4>2
        <5>2. PICK r \in 0..Top : r < q /\ b_data'[p] = b_data[r]
          BY <2>1, <3>1, <4>2
        <5> QED
          BY <2>1, <4>2, <5>1, <5>2
      <4> QED
        BY <2>1, <4>1, <4>2 DEF Bubble!Sorting
    <3>3. Bubble!SameElements'
      <4>1. PICK f \in Bubble!Permutations : \A p \in 0..Top : b_data[p] = given[f[p]]
        BY DEF BubbleInv, Bubble!SameElements
      <4> DEFINE g == [f EXCEPT ![b_j] = f[b_j + 1], ![b_j + 1] = f[b_j]]
      <4>2. f \in [0..Top -> 0..Top] /\ \A p, q \in 0..Top : f[p] = f[q] => p = q
        BY DEF Bubble!Permutations
      <4>3. /\ g \in [0..Top -> 0..Top]
            /\ g[b_j] = f[b_j + 1] /\ g[b_j + 1] = f[b_j]
            /\ \A p \in 0..Top : p # b_j /\ p # b_j + 1 => g[p] = f[p]
        BY <2>1, <4>2
      <4> HIDE DEF g
      <4>4. \A p, q \in 0..Top : g[p] = g[q] => p = q
        BY <2>1, <4>2, <4>3
      <4>5. \A p \in 0..Top : b_data'[p] = given[g[p]]
        BY <2>1, <3>1, <4>1, <4>3
      <4> QED
        BY ZenonT(30), <2>1, <4>3, <4>4, <4>5 DEF Bubble!SameElements, Bubble!Permutations
    <3> QED
      BY <2>1, <3>1, <3>2, <3>3 DEF BubbleInv
  <2> QED
    BY <2>1, <2>2, <2>3
<1>3. CASE Bubble!NextPass
  <2>1. /\ b_j = b_i /\ b_i > 0 /\ b_i' = b_i - 1 /\ b_j' = 0
        /\ b_data' = b_data /\ given' = given
        /\ b_i \in 0..Top /\ \A p \in 0..Top : b_data[p] \in Int
        /\ \A p, q \in 0..Top : p < q /\ b_i < q => b_data[p] <= b_data[q]
        /\ \A p \in 0..b_i : b_data[p] <= b_data[b_i]
    BY <1>3 DEF Bubble!NextPass, BubbleInv, Bubble!Sorting
  <2>2. Bubble!Sorting'
    <3>1. ASSUME NEW p \in 0..Top, NEW q \in 0..Top, p < q, b_i - 1 < q
          PROVE  b_data[p] <= b_data[q]
      <4>1. b_i < q \/ (q = b_i /\ p \in 0..b_i)
        BY <2>1, <3>1
      <4> QED
        BY <2>1, <3>1, <4>1
    <3> QED
      BY <2>1, <3>1 DEF Bubble!Sorting
  <2>3. Bubble!SameElements'
    BY <2>1 DEF BubbleInv, Bubble!SameElements
  <2> QED
    BY <2>1, <2>2, <2>3 DEF BubbleInv
<1>4. CASE UNCHANGED Bubble!vars
  BY <1>4 DEF Bubble!vars, BubbleInv, Bubble!Sorting, Bubble!SameElements
<1> QED
  BY <1>1, <1>2, <1>3, <1>4 DEF Bubble!Next

\* After the last pass all is sorted.
LEMMA BubbleSorts == BubbleInv => Sorts
BY BubbleNumbers DEF BubbleInv, Sorts, Bubble!Sorting, Bubble!Sorts, Bubble!Done, Bubble!Index

-----------------------------------------------------------------------------
(* memmove. *)

\* The part of the destination that the loop has written.
Written ==
  IF call.dest > call.src THEN dst..(call.dest + call.count - 1) ELSE call.dest..(dst - 1)

\* Where the loop stands, what it has written, and that it has touched nothing else: the
\* bytes of the source that are still to be read are as they were.
MoveInv ==
  /\ memory \in [Move!Address -> Byte]
  /\ call \in [dest : Nat, src : Nat, count : Nat, memory : [Move!Address -> Byte]]
  /\ call.dest + call.count <= Size /\ call.src + call.count <= Size
  /\ count \in 0..call.count
  /\ count > 0 /\ call.dest > call.src => ptr = call.src + count /\ dst = call.dest + count
  /\ count > 0 /\ call.dest <= call.src =>
       /\ call.dest < call.src
       /\ ptr = call.src + (call.count - count) /\ dst = call.dest + (call.count - count)
  /\ count > 0 =>
       \A b \in Move!Address : memory[b] = IF b \in Written THEN Move!Due(b) ELSE call.memory[b]
  /\ Moves

\* What is known of the region.
LEMMA MoveNumbers == Size \in Nat /\ Byte # {}
BY Assumptions DEF Move!MemmoveAssumption

\* The region before the first call.
LEMMA MoveInit == Move!Init => MoveInv
<1> SUFFICES ASSUME Move!Init PROVE MoveInv
  OBVIOUS
<1>1. memory \in [Move!Address -> Byte]
  BY MoveNumbers DEF Move!Init
<1>2. call = [dest |-> 0, src |-> 0, count |-> 0, memory |-> memory] /\ count = 0
  BY DEF Move!Init
<1>3. \A b \in Move!Address : memory[b] = Move!Due(b)
  BY <1>2 DEF Move!Due
<1> QED
  BY <1>1, <1>2, <1>3, MoveNumbers DEF MoveInv, Moves, Move!Moves

\* Every round writes one byte more of what is due, and none that is still to be read.
LEMMA MoveStep == MoveInv /\ [Move!Next]_(Move!vars) => MoveInv'
<1> SUFFICES ASSUME MoveInv, [Move!Next]_(Move!vars) PROVE MoveInv'
  OBVIOUS
<1> USE MoveNumbers
<1> DEFINE Calls == [dest : Nat, src : Nat, count : Nat, memory : [Move!Address -> Byte]]
<1>a. /\ memory \in [Move!Address -> Byte] /\ call \in Calls
      /\ call.dest \in Nat /\ call.src \in Nat /\ call.count \in Nat
      /\ call.dest + call.count <= Size /\ call.src + call.count <= Size
      /\ count \in 0..call.count
  BY DEF MoveInv
<1>b. /\ call.dest \in Nat /\ call.src \in Nat /\ call.count \in Nat /\ count \in Nat
      /\ call.dest + call.count <= Size /\ call.src + call.count <= Size
      /\ count <= call.count
  BY <1>a
<1>1. ASSUME NEW dest \in Move!Address, NEW src \in Move!Address, NEW k \in 1..Size,
             Move!Call(dest, src, k)
      PROVE  MoveInv'
  <2>1. /\ memory' = memory /\ dest \in Nat /\ src \in Nat /\ k \in Nat /\ k > 0
        /\ dest + k <= Size /\ src + k <= Size
        /\ call' = [dest |-> dest, src |-> src, count |-> k, memory |-> memory]
        /\ count' = IF dest = src THEN 0 ELSE k
        /\ ptr' = IF dest > src THEN src + k ELSE src
        /\ dst' = IF dest > src THEN dest + k ELSE dest
    BY <1>1 DEF Move!Call, Move!backwards, Move!Address
  <2>2. call' \in Calls
    BY <1>a, <2>1
  <2>3. /\ call'.dest = dest /\ call'.src = src /\ call'.count = k /\ call'.memory = memory
    BY <2>1
  <2>4. dest # src => Written' = {}
    BY <2>1, <2>3 DEF Written
  <2>5. Moves'
    BY <2>1, <2>3 DEF Moves, Move!Moves, Move!Due
  <2>6. count' > 0 =>
       \A b \in Move!Address : memory'[b] = IF b \in Written' THEN Move!Due(b)' ELSE call'.memory[b]
    BY <2>1, <2>3, <2>4
  <2> QED
    BY <1>a, <2>1, <2>2, <2>3, <2>5, <2>6 DEF MoveInv
<1>2. CASE Move!Forward
  <2>1. /\ count > 0 /\ call.dest < call.src
        /\ ptr = call.src + (call.count - count) /\ dst = call.dest + (call.count - count)
        /\ memory' = [memory EXCEPT ![dst] = memory[ptr]]
        /\ ptr' = ptr + 1 /\ dst' = dst + 1 /\ count' = count - 1 /\ call' = call
        /\ \A b \in Move!Address :
             memory[b] = IF b \in Written THEN Move!Due(b) ELSE call.memory[b]
    BY <1>a, <1>2 DEF Move!Forward, Move!backwards, MoveInv
  <2>2. /\ dst \in Move!Address /\ ptr \in Move!Address
        /\ Written = call.dest..(dst - 1) /\ Written' = call.dest..dst
        /\ ptr \notin Written /\ dst \in call.dest..(call.dest + call.count - 1)
        /\ call.src + (dst - call.dest) = ptr
    <3>1. /\ count > 0 /\ call.dest < call.src
          /\ ptr = call.src + (call.count - count) /\ dst = call.dest + (call.count - count)
          /\ dst' = dst + 1 /\ call' = call
      BY <2>1
    <3>2. dst \in Nat /\ ptr \in Nat /\ dst' - 1 = dst
      BY <1>b, <3>1
    <3>3. dst \in 0..(Size - 1) /\ ptr \in 0..(Size - 1)
      BY <1>b, <3>1, <3>2
    <3>4. Written = call.dest..(dst - 1) /\ Written' = call.dest..dst
      <4>1. ~(call.dest > call.src) /\ ~(call'.dest > call'.src)
        BY <1>b, <3>1
      <4> QED
        BY <3>1, <3>2, <4>1 DEF Written
    <3>5. ptr \notin call.dest..(dst - 1) /\ dst \in call.dest..(call.dest + call.count - 1)
      BY <1>b, <3>1, <3>2
    <3>6. call.src + (dst - call.dest) = ptr
      BY <1>b, <3>1, <3>2
    <3> QED
      BY <3>3, <3>4, <3>5, <3>6 DEF Move!Address
  <2>3. memory[ptr] = Move!Due(dst)
    BY <2>1, <2>2 DEF Move!Due
  <2>4. /\ memory' \in [Move!Address -> Byte]
        /\ memory'[dst] = Move!Due(dst)
        /\ \A b \in Move!Address : b # dst => memory'[b] = memory[b]
    BY <1>a, <2>1, <2>2, <2>3
  <2>5. \A b \in Move!Address : b \in Written' <=> b \in Written \/ b = dst
    <3> SUFFICES ASSUME NEW b \in Move!Address PROVE b \in Written' <=> b \in Written \/ b = dst
      OBVIOUS
    <3>1. b \in Int /\ dst \in Int /\ call.dest <= dst /\ dst <= call.dest + call.count
      BY <1>b, <2>1 DEF Move!Address
    <3> QED
      BY <1>b, <2>2, <3>1
  <2>6. \A b \in Move!Address :
          memory'[b] = IF b \in Written' THEN Move!Due(b) ELSE call.memory[b]
    BY <2>1, <2>4, <2>5
  <2>7. \A b \in Move!Address : Move!Due(b)' = Move!Due(b)
    BY <2>1 DEF Move!Due
  <2>8. Moves'
    <3> SUFFICES ASSUME count' = 0, NEW b \in Move!Address PROVE memory'[b] = Move!Due(b)'
      BY DEF Moves, Move!Moves
    <3>1. Written' = call.dest..(call.dest + call.count - 1)
      BY <1>a, <2>1, <2>2
    <3>2. b \notin Written' => Move!Due(b) = call.memory[b]
      BY <3>1 DEF Move!Due
    <3> QED
      BY <2>6, <2>7, <3>2
  <2> QED
    BY <1>a, <2>1, <2>4, <2>6, <2>7, <2>8 DEF MoveInv
<1>3. CASE Move!Backward
  <2>1. /\ count > 0 /\ call.dest > call.src
        /\ ptr = call.src + count /\ dst = call.dest + count
        /\ memory' = [memory EXCEPT ![dst - 1] = memory[ptr - 1]]
        /\ ptr' = ptr - 1 /\ dst' = dst - 1 /\ count' = count - 1 /\ call' = call
        /\ \A b \in Move!Address :
             memory[b] = IF b \in Written THEN Move!Due(b) ELSE call.memory[b]
    BY <1>a, <1>3 DEF Move!Backward, Move!backwards, MoveInv
  <2>2. /\ dst - 1 \in Move!Address /\ ptr - 1 \in Move!Address
        /\ Written = dst..(call.dest + call.count - 1)
        /\ Written' = (dst - 1)..(call.dest + call.count - 1)
        /\ ptr - 1 \notin Written /\ dst - 1 \in call.dest..(call.dest + call.count - 1)
        /\ call.src + ((dst - 1) - call.dest) = ptr - 1
    <3>1. /\ count \in Nat \ {0} /\ call.dest \in Nat /\ call.src \in Nat /\ call.count \in Nat
          /\ count <= call.count /\ call.dest + call.count <= Size
          /\ call.src + call.count <= Size /\ Size \in Nat
      BY <1>a, <1>b, <2>1, MoveNumbers
    <3>2. dst - 1 \in Move!Address /\ ptr - 1 \in Move!Address
      BY <2>1, <3>1 DEF Move!Address
    <3>3. Written = dst..(call.dest + call.count - 1)
      BY <2>1 DEF Written
    <3>4. Written' = (dst - 1)..(call.dest + call.count - 1)
      BY <2>1 DEF Written
    <3>5. ptr - 1 \notin dst..(call.dest + call.count - 1)
      BY <2>1, <3>1
    <3>6. dst - 1 \in call.dest..(call.dest + call.count - 1)
      BY <2>1, <3>1
    <3>7. call.src + ((dst - 1) - call.dest) = ptr - 1
      BY <2>1, <3>1
    <3> QED
      BY <3>2, <3>3, <3>4, <3>5, <3>6, <3>7
  <2>3. memory[ptr - 1] = Move!Due(dst - 1)
    BY <2>1, <2>2 DEF Move!Due
  <2>4. /\ memory' \in [Move!Address -> Byte]
        /\ memory'[dst - 1] = Move!Due(dst - 1)
        /\ \A b \in Move!Address : b # dst - 1 => memory'[b] = memory[b]
    BY <1>a, <2>1, <2>2, <2>3
  <2>5. \A b \in Move!Address : b \in Written' <=> b \in Written \/ b = dst - 1
    <3> SUFFICES ASSUME NEW b \in Move!Address PROVE b \in Written' <=> b \in Written \/ b = dst - 1
      OBVIOUS
    <3>1. b \in Int /\ dst \in Int /\ call.dest <= dst /\ dst <= call.dest + call.count
      BY <1>b, <2>1 DEF Move!Address
    <3> QED
      BY <1>b, <2>2, <3>1
  <2>6. \A b \in Move!Address :
          memory'[b] = IF b \in Written' THEN Move!Due(b) ELSE call.memory[b]
    BY <2>1, <2>4, <2>5
  <2>7. \A b \in Move!Address : Move!Due(b)' = Move!Due(b)
    BY <2>1 DEF Move!Due
  <2>8. Moves'
    <3> SUFFICES ASSUME count' = 0, NEW b \in Move!Address PROVE memory'[b] = Move!Due(b)'
      BY DEF Moves, Move!Moves
    <3>1. Written' = call.dest..(call.dest + call.count - 1)
      BY <1>a, <2>1, <2>2
    <3>2. b \notin Written' => Move!Due(b) = call.memory[b]
      BY <3>1 DEF Move!Due
    <3> QED
      BY <2>6, <2>7, <3>2
  <2> QED
    BY <1>a, <2>1, <2>4, <2>6, <2>7, <2>8 DEF MoveInv
<1>4. ASSUME NEW b \in Move!Address, NEW x \in Byte, Move!Write(b, x) PROVE MoveInv'
  <2>1. /\ memory' = [memory EXCEPT ![b] = x] /\ count' = 0
        /\ call' = [dest |-> 0, src |-> 0, count |-> 0, memory |-> memory']
    BY <1>4 DEF Move!Write
  <2>2. memory' \in [Move!Address -> Byte]
    BY <1>a, <1>4, <2>1
  <2>3. call' \in Calls
    BY <2>1, <2>2
  <2>4. call'.dest = 0 /\ call'.src = 0 /\ call'.count = 0 /\ call'.memory = memory'
    BY <2>1
  <2>5. \A c \in Move!Address : memory'[c] = Move!Due(c)'
    BY <2>4 DEF Move!Due
  <2> QED
    BY <2>1, <2>2, <2>3, <2>4, <2>5 DEF MoveInv, Moves, Move!Moves
<1>5. CASE UNCHANGED Move!vars
  BY <1>5 DEF Move!vars, MoveInv, Moves, Move!Moves, Move!Due, Written
<1> QED
  BY <1>1, <1>2, <1>3, <1>4, <1>5 DEF Move!Next
-----------------------------------------------------------------------------
(* mempool: what Arena_proofs shows holds of this instance. *)

ArenaProofs == INSTANCE Arena_proofs

\* Both instances of Arena are the same allocator.
LEMMA ArenaSame ==
  /\ ArenaProofs!ArenaAssumption
  /\ Arena!Init = ArenaProofs!Init
  /\ [Arena!Next]_(Arena!vars) = [ArenaProofs!Next]_(ArenaProofs!vars)
  /\ Arena!PlacesOfTheirOwn = ArenaProofs!PlacesOfTheirOwn
  /\ Arena!PlacesOfTheirOwn' = ArenaProofs!PlacesOfTheirOwn'
<1> USE DEF Arena!get_alignment, ArenaProofs!get_alignment, Arena!End, ArenaProofs!End
<1>1. ArenaProofs!ArenaAssumption
  BY Assumptions DEF Arena!ArenaAssumption, ArenaProofs!ArenaAssumption
<1>2. Arena!Init = ArenaProofs!Init
  BY DEF Arena!Init, ArenaProofs!Init
<1>3. Arena!Next = ArenaProofs!Next /\ Arena!vars = ArenaProofs!vars /\ Arena!vars' = ArenaProofs!vars'
  BY DEF Arena!Next, ArenaProofs!Next, Arena!vars, ArenaProofs!vars, Arena!Malloc,
    ArenaProofs!Malloc, Arena!MallocThrows, ArenaProofs!MallocThrows, Arena!Free,
    ArenaProofs!Free, Arena!Fits, ArenaProofs!Fits, Arena!Padding, ArenaProofs!Padding
<1>4. /\ Arena!PlacesOfTheirOwn = ArenaProofs!PlacesOfTheirOwn
      /\ Arena!PlacesOfTheirOwn' = ArenaProofs!PlacesOfTheirOwn'
  BY DEF Arena!PlacesOfTheirOwn, ArenaProofs!PlacesOfTheirOwn, Arena!InBounds,
    ArenaProofs!InBounds, Arena!Apart, ArenaProofs!Apart, Arena!Aligned, ArenaProofs!Aligned
<1> QED
  BY <1>1, <1>2, <1>3, <1>4

\* An empty arena has its objects in their places,
LEMMA PlacesInit == Arena!Init => PlacesOfTheirOwn
BY ArenaSame, ArenaProofs!ArenaInit DEF PlacesOfTheirOwn

\* and malloc and free leave them there.
LEMMA PlacesStep == PlacesOfTheirOwn /\ [Arena!Next]_(Arena!vars) => PlacesOfTheirOwn'
BY ArenaSame, ArenaProofs!ArenaStep DEF PlacesOfTheirOwn
-----------------------------------------------------------------------------
(* string. *)

\* What the buffers hold, type by type.
StringTypes ==
  /\ exists \subseteq Str
  /\ sbuf_ \in [Str -> [1..SSO_LEN -> Char \cup {Junk}]]
  /\ hbuf_ \in [Str -> Nat \cup {NoBlock}]
  /\ s_len \in [Str -> Nat] /\ s_cap \in [Str -> Nat]
  /\ buffers \in Seq(Seq(Char)) /\ Len(buffers) <= MaxBuffer
  /\ meant \in [Str -> Seq(Char) \cup {Unspecified}]

\* The text of a short string is in its sbuf_.
ShortKept(s) ==
  /\ meant[s] \in Seq(Char) /\ s_len[s] = Len(meant[s]) /\ s_len[s] <= SSO_LEN
  /\ \A k \in 1..s_len[s] : sbuf_[s][k] = meant[s][k]

\* The text of a long string is all that is in its block.
LongKept(s) ==
  /\ meant[s] \in Seq(Char) /\ s_len[s] = Len(meant[s]) /\ s_cap[s] = s_len[s]
  /\ hbuf_[s] \in 1..Len(buffers) /\ buffers[hbuf_[s]] = meant[s]

\* Every string keeps its text, and the long ones do so in blocks of their own.
StringInv ==
  /\ StringTypes
  /\ \A s \in exists : /\ s_cap[s] <= SSO_LEN /\ meant[s] # Unspecified => ShortKept(s)
                       /\ s_cap[s] > SSO_LEN => LongKept(s)
  /\ \A s, t \in exists :
       s # t /\ s_cap[s] > SSO_LEN /\ s_cap[t] > SSO_LEN => hbuf_[s] # hbuf_[t]

\* What is known of the lengths.
LEMMA StringNumbers ==
  /\ SSO_LEN \in Nat /\ MaxLen \in Nat /\ MaxBuffer \in Nat
  /\ NoBlock \notin 1..MaxBuffer
BY Assumptions DEF String!StringAssumption

\* No string yet.
LEMMA StringInit == String!Init => StringInv
<1> SUFFICES ASSUME String!Init PROVE StringInv
  OBVIOUS
<1>1. StringTypes
  BY StringNumbers DEF String!Init, String!NoText, StringTypes
<1> QED
  BY <1>1 DEF String!Init, StringInv

\* A string that a constructor does not touch keeps its text, whatever block is added.
LEMMA OthersKept ==
  ASSUME StringTypes, NEW s \in exists,
         s_cap'[s] = s_cap[s], s_len'[s] = s_len[s], sbuf_'[s] = sbuf_[s],
         hbuf_'[s] = hbuf_[s], meant'[s] = meant[s],
         \/ buffers' = buffers
         \/ \E text \in Seq(Char) : buffers' = Append(buffers, text)
  PROVE  /\ ShortKept(s) => ShortKept(s)'
         /\ LongKept(s) => LongKept(s)'
<1>1. ShortKept(s) => ShortKept(s)'
  BY DEF ShortKept
<1>2. ASSUME LongKept(s) PROVE LongKept(s)'
  <2>1. hbuf_[s] \in 1..Len(buffers) => hbuf_[s] \in 1..Len(buffers') /\ buffers'[hbuf_[s]] = buffers[hbuf_[s]]
    <3>1. CASE buffers' = buffers
      BY <3>1
    <3>2. ASSUME NEW text \in Seq(Char), buffers' = Append(buffers, text)
          PROVE  hbuf_[s] \in 1..Len(buffers) =>
                   hbuf_[s] \in 1..Len(buffers') /\ buffers'[hbuf_[s]] = buffers[hbuf_[s]]
      BY <3>2, SeqAppend DEF StringTypes
    <3> QED
      BY <3>1, <3>2
  <2> QED
    BY <1>2, <2>1 DEF LongKept
<1> QED
  BY <1>1, <1>2

\* The first m bytes are the text x, if x is one.
Spells(bytes, m, x) ==
  x # Unspecified => /\ x \in Seq(Char) /\ m = Len(x) /\ m <= SSO_LEN
                     /\ \A k \in 1..m : bytes[k] = x[k]

\* A constructor that leaves a short string behind.
LEMMA ShortStep ==
  ASSUME StringInv, NEW s \in Str, s \notin exists, exists' = exists \cup {s},
         NEW bytes \in [1..SSO_LEN -> Char \cup {Junk}], NEW m \in Nat,
         NEW c \in Nat, c <= SSO_LEN,
         NEW x \in Seq(Char) \cup {Unspecified}, meant' = [meant EXCEPT ![s] = x],
         String!Short(s, bytes, m, c), Spells(bytes, m, x)
  PROVE  StringInv'
<1>1. /\ sbuf_' = [sbuf_ EXCEPT ![s] = bytes]
      /\ hbuf_' = [hbuf_ EXCEPT ![s] = NoBlock]
      /\ s_len' = [s_len EXCEPT ![s] = m]
      /\ s_cap' = [s_cap EXCEPT ![s] = c]
      /\ buffers' = buffers
  BY DEF String!Short
<1>2. StringTypes
  BY DEF StringInv
<1>3. StringTypes'
  BY <1>1, <1>2 DEF StringTypes
<1>4. /\ s_cap'[s] = c /\ s_len'[s] = m /\ sbuf_'[s] = bytes /\ meant'[s] = x
      /\ \A u \in exists : /\ u # s /\ s_cap'[u] = s_cap[u] /\ s_len'[u] = s_len[u]
                           /\ sbuf_'[u] = sbuf_[u] /\ hbuf_'[u] = hbuf_[u] /\ meant'[u] = meant[u]
  BY <1>1, <1>2 DEF StringTypes
<1>5. x # Unspecified => ShortKept(s)'
  BY <1>4 DEF ShortKept, Spells
<1>6. \A u \in exists : /\ ShortKept(u) => ShortKept(u)'
                        /\ LongKept(u) => LongKept(u)'
  BY <1>1, <1>2, <1>4, OthersKept
<1>7. \A u \in exists' : u = s \/ u \in exists
  OBVIOUS
<1>8. ~(c > SSO_LEN)
  BY StringNumbers
<1> QED
  BY <1>3, <1>4, <1>5, <1>6, <1>7, <1>8 DEF StringInv

\* A constructor that leaves a long string behind, in the block it has made last.
LEMMA LongStep ==
  ASSUME StringInv, NEW s \in Str, s \notin exists, exists' = exists \cup {s},
         NEW text \in Seq(Char), SSO_LEN < Len(text),
         meant' = [meant EXCEPT ![s] = text], String!Long(s, text)
  PROVE  StringInv'
<1>1. /\ buffers' = Append(buffers, text)
      /\ hbuf_' = [hbuf_ EXCEPT ![s] = Len(buffers')]
      /\ sbuf_' = [sbuf_ EXCEPT ![s] = String!NoText]
      /\ s_len' = [s_len EXCEPT ![s] = Len(text)]
      /\ s_cap' = [s_cap EXCEPT ![s] = Len(text)]
  BY DEF String!Long
<1>2. StringTypes
  BY DEF StringInv
<1>3. /\ buffers' \in Seq(Seq(Char)) /\ Len(buffers') = Len(buffers) + 1
      /\ buffers'[Len(buffers) + 1] = text /\ Len(buffers) \in Nat /\ Len(text) \in Nat
      /\ Len(buffers) < MaxBuffer
  BY <1>1, <1>2, SeqAppend DEF StringTypes, String!Long
<1>4. StringTypes'
  BY <1>1, <1>2, <1>3, StringNumbers DEF StringTypes, String!NoText
<1>5. /\ s_cap'[s] = Len(text) /\ s_len'[s] = Len(text) /\ meant'[s] = text
      /\ hbuf_'[s] = Len(buffers) + 1
      /\ \A u \in exists : /\ u # s /\ s_cap'[u] = s_cap[u] /\ s_len'[u] = s_len[u]
                           /\ sbuf_'[u] = sbuf_[u] /\ hbuf_'[u] = hbuf_[u] /\ meant'[u] = meant[u]
  BY <1>1, <1>2, <1>3 DEF StringTypes
<1>6. LongKept(s)'
  BY <1>3, <1>5 DEF LongKept
<1>7. \A u \in exists : /\ ShortKept(u) => ShortKept(u)'
                        /\ LongKept(u) => LongKept(u)'
  BY <1>1, <1>2, <1>5, OthersKept
<1>8. \A u \in exists' : u = s \/ u \in exists
  OBVIOUS
<1>9. ~(Len(text) <= SSO_LEN)
  BY <1>3, StringNumbers
<1>10. \A u \in exists : LongKept(u) => hbuf_[u] # Len(buffers) + 1
  BY <1>3 DEF LongKept
<1> QED
  BY <1>4, <1>5, <1>6, <1>7, <1>8, <1>9, <1>10 DEF StringInv

\* Nothing else puts a text elsewhere: a move hands the block on and leaves an empty,
\* unspecified string behind, and with a copy that overruns a buffer the model ends.
LEMMA StringStep == StringInv /\ [String!Next]_(String!vars) => StringInv'
<1> SUFFICES ASSUME StringInv, [String!Next]_(String!vars) PROVE StringInv'
  OBVIOUS
<1> USE StringNumbers
<1>1. StringTypes
  BY DEF StringInv
<1>2. ASSUME NEW s \in Str, String!Default(s) PROVE StringInv'
  <2>1. /\ s \notin exists /\ exists' = exists \cup {s}
        /\ meant' = [meant EXCEPT ![s] = <<>>] /\ String!Short(s, String!NoText, 0, 0)
    BY <1>2 DEF String!Default, String!New
  <2>2. /\ String!NoText \in [1..SSO_LEN -> Char \cup {Junk}]
        /\ <<>> \in Seq(Char) \cup {Unspecified} /\ 0 \in Nat /\ 0 <= SSO_LEN
        /\ Spells(String!NoText, 0, <<>>)
    BY DEF String!NoText, Spells
  <2> QED
    BY <2>1, <2>2, ShortStep
<1>3. ASSUME NEW s \in Str, NEW text \in String!BoundedSeq(Char, MaxLen), String!FromText(s, text)
      PROVE  StringInv'
  <2>1. /\ s \notin exists /\ exists' = exists \cup {s}
        /\ meant' = [meant EXCEPT ![s] = text]
    BY <1>3 DEF String!FromText, String!New
  <2>2. text \in Seq(Char) /\ Len(text) \in Nat
    BY <1>3 DEF String!BoundedSeq, String!SeqOf
  <2>3. CASE Len(text) <= SSO_LEN
    <3>1. String!Short(s, String!Bytes(text, Len(text)), Len(text), SSO_LEN)
      BY <1>3, <2>3 DEF String!FromText
    <3>2. /\ String!Bytes(text, Len(text)) \in [1..SSO_LEN -> Char \cup {Junk}]
          /\ Spells(String!Bytes(text, Len(text)), Len(text), text)
      BY <2>2, <2>3 DEF String!Bytes, Spells
    <3>3. SSO_LEN <= SSO_LEN
      OBVIOUS
    <3> DEFINE bytes == String!Bytes(text, Len(text))
    <3> HIDE DEF bytes
    <3> QED
      BY <2>1, <2>2, <3>1, <3>2, <3>3, ShortStep DEF bytes
  <2>4. CASE SSO_LEN < Len(text)
    <3>1. String!Long(s, text)
      BY <1>3, <2>2, <2>4 DEF String!FromText
    <3> QED
      BY <2>1, <2>2, <2>4, <3>1, LongStep
  <2> QED
    BY <2>2, <2>3, <2>4
<1>4. ASSUME NEW s \in Str, NEW t \in Str, String!Copy(s, t), ~String!Overruns PROVE StringInv'
  <2>1. /\ s \notin exists /\ exists' = exists \cup {s} /\ t \in exists
        /\ meant' = [meant EXCEPT ![s] = meant[t]]
        /\ IF String!is_sso(t)
             THEN String!Short(s, String!Bytes(sbuf_[t], s_len[t]), s_len[t], SSO_LEN)
             ELSE String!Long(s, SubSeq(buffers[hbuf_[t]], 1, s_len[t]))
    BY <1>4 DEF String!Copy, String!New
  <2>2. CASE s_cap[t] <= SSO_LEN
    <3> DEFINE bytes == String!Bytes(sbuf_[t], s_len[t])
    <3>1. String!Short(s, bytes, s_len[t], SSO_LEN)
      BY <2>1, <2>2 DEF String!is_sso
    <3>2. sbuf_[t] \in [1..SSO_LEN -> Char \cup {Junk}] /\ s_len[t] \in Nat
          /\ meant[t] \in Seq(Char) \cup {Unspecified}
      BY <1>1, <2>1 DEF StringTypes
    <3>3. bytes \in [1..SSO_LEN -> Char \cup {Junk}]
      BY <3>2 DEF String!Bytes
    <3>4. Spells(bytes, s_len[t], meant[t])
      <4> SUFFICES ASSUME meant[t] # Unspecified
                   PROVE  /\ meant[t] \in Seq(Char) /\ s_len[t] = Len(meant[t])
                          /\ s_len[t] <= SSO_LEN
                          /\ \A k \in 1..s_len[t] : bytes[k] = meant[t][k]
        BY DEF Spells
      <4>1. ShortKept(t)
        BY <2>1, <2>2 DEF StringInv
      <4>2. \A k \in 1..s_len[t] : k \in 1..SSO_LEN /\ bytes[k] = sbuf_[t][k]
        BY <3>2, <4>1 DEF String!Bytes, ShortKept
      <4> QED
        BY <4>1, <4>2 DEF ShortKept
    <3>5. SSO_LEN <= SSO_LEN
      OBVIOUS
    <3> HIDE DEF bytes
    <3> QED
      BY <2>1, <3>1, <3>2, <3>3, <3>4, <3>5, ShortStep
  <2>3. CASE s_cap[t] > SSO_LEN
    <3>1. LongKept(t)
      BY <2>1, <2>3 DEF StringInv
    <3>2. SubSeq(buffers[hbuf_[t]], 1, s_len[t]) = meant[t]
      BY <3>1 DEF LongKept
    <3>3. s_cap[t] \in Nat
      BY <1>1, <2>1 DEF StringTypes
    <3>4. String!Long(s, meant[t])
      <4>1. ~String!is_sso(t)
        BY <2>3, <3>3 DEF String!is_sso
      <4>2. String!Long(s, SubSeq(buffers[hbuf_[t]], 1, s_len[t]))
        BY <2>1, <4>1
      <4> QED
        BY <3>2, <4>2
    <3>5. meant[t] \in Seq(Char) /\ SSO_LEN < Len(meant[t])
      BY <2>3, <3>1, <3>3 DEF LongKept
    <3> QED
      BY <2>1, <3>4, <3>5, LongStep
  <2>4. s_cap[t] \in Nat
    BY <1>1, <2>1 DEF StringTypes
  <2> QED
    BY <2>2, <2>3, <2>4
<1>5. ASSUME NEW s \in Str, NEW t \in Str, String!MoveShort(s, t), ~String!Overruns
      PROVE  StringInv'
  <2>1. s \notin exists /\ exists' = exists \cup {s} /\ t \in exists /\ s_cap[t] <= SSO_LEN
    BY <1>5 DEF String!MoveShort, String!New, String!is_sso
  <2>2. PICK k \in 0..SSO_LEN :
          /\ String!Short(s, String!Bytes(sbuf_[t], k), s_len[t], SSO_LEN)
          /\ meant' = [meant EXCEPT ![s] = IF k >= s_len[t] THEN meant[t] ELSE Unspecified]
    BY <1>5 DEF String!MoveShort
  <2> DEFINE bytes == String!Bytes(sbuf_[t], k)
             x == IF k >= s_len[t] THEN meant[t] ELSE Unspecified
  <2>3. /\ s_len[t] \in Nat /\ sbuf_[t] \in [1..SSO_LEN -> Char \cup {Junk}]
        /\ x \in Seq(Char) \cup {Unspecified}
    BY <1>1, <2>1 DEF StringTypes
  <2>4. bytes \in [1..SSO_LEN -> Char \cup {Junk}]
    BY <2>3 DEF String!Bytes
  <2>5. Spells(bytes, s_len[t], x)
    <3> SUFFICES ASSUME k >= s_len[t], meant[t] # Unspecified
                 PROVE  /\ meant[t] \in Seq(Char) /\ s_len[t] = Len(meant[t])
                        /\ s_len[t] <= SSO_LEN
                        /\ \A j \in 1..s_len[t] : bytes[j] = meant[t][j]
      BY DEF Spells
    <3>1. ShortKept(t)
      BY <2>1 DEF StringInv
    <3>2. \A j \in 1..s_len[t] : j \in 1..SSO_LEN /\ bytes[j] = sbuf_[t][j]
      BY <2>3, <3>1 DEF String!Bytes, ShortKept
    <3> QED
      BY <3>1, <3>2 DEF ShortKept
  <2>6. meant' = [meant EXCEPT ![s] = x] /\ String!Short(s, bytes, s_len[t], SSO_LEN)
    BY <2>2
  <2>7. SSO_LEN <= SSO_LEN
    OBVIOUS
  <2> HIDE DEF bytes, x
  <2> QED
    BY <2>1, <2>3, <2>4, <2>5, <2>6, <2>7, ShortStep
<1>6. ASSUME NEW s \in Str, NEW t \in Str, String!MoveLong(s, t) PROVE StringInv'
  <2>1. /\ s \notin exists /\ exists' = exists \cup {s} /\ t \in exists /\ s # t
        /\ ~(s_cap[t] <= SSO_LEN)
        /\ hbuf_' = [hbuf_ EXCEPT ![s] = hbuf_[t], ![t] = NoBlock]
        /\ sbuf_' = [sbuf_ EXCEPT ![s] = String!NoText, ![t] = String!NoText]
        /\ s_len' = [s_len EXCEPT ![s] = s_len[t]]
        /\ s_cap' = [s_cap EXCEPT ![s] = s_cap[t], ![t] = 0]
        /\ meant' = [meant EXCEPT ![s] = meant[t], ![t] = Unspecified]
        /\ buffers' = buffers
    BY <1>6 DEF String!MoveLong, String!New, String!is_sso
  <2>2. StringTypes'
    <3>1. String!NoText \in [1..SSO_LEN -> Char \cup {Junk}]
      BY DEF String!NoText
    <3> QED
      BY <1>1, <2>1, <3>1 DEF StringTypes
  <2>3. LongKept(t) /\ s_cap[t] > SSO_LEN
    <3>1. s_cap[t] \in Nat
      BY <1>1 DEF StringTypes
    <3> QED
      BY <2>1, <3>1 DEF StringInv
  <2>4. /\ s_cap'[s] = s_cap[t] /\ s_len'[s] = s_len[t] /\ hbuf_'[s] = hbuf_[t]
        /\ meant'[s] = meant[t] /\ s_cap'[t] = 0 /\ meant'[t] = Unspecified
    BY <1>1, <2>1 DEF StringTypes
  <2>5. \A u \in exists : u # t =>
          /\ s_cap'[u] = s_cap[u] /\ s_len'[u] = s_len[u] /\ sbuf_'[u] = sbuf_[u]
          /\ hbuf_'[u] = hbuf_[u] /\ meant'[u] = meant[u]
    BY <1>1, <2>1 DEF StringTypes
  <2>6. LongKept(s)'
    BY <2>1, <2>3, <2>4 DEF LongKept
  <2>7. \A u \in exists : u # t => /\ ShortKept(u) => ShortKept(u)'
                                   /\ LongKept(u) => LongKept(u)'
    BY <1>1, <2>1, <2>5, OthersKept
  <2>8. \A u \in exists' : u = s \/ u = t \/ (u \in exists /\ u # t)
    BY <2>1
  <2>9. ASSUME NEW u \in exists'
        PROVE  /\ s_cap'[u] <= SSO_LEN /\ meant'[u] # Unspecified => ShortKept(u)'
               /\ s_cap'[u] > SSO_LEN => LongKept(u)'
    <3>1. CASE u = s
      BY <2>1, <2>4, <2>6, <3>1
    <3>2. CASE u = t
      BY <2>4, <3>2
    <3>3. CASE u \in exists /\ u # t
      BY <2>5, <2>7, <3>3 DEF StringInv
    <3> QED
      BY <2>8, <3>1, <3>2, <3>3
  <2>10. ASSUME NEW u \in exists', NEW w \in exists', u # w,
                s_cap'[u] > SSO_LEN, s_cap'[w] > SSO_LEN
         PROVE  hbuf_'[u] # hbuf_'[w]
    <3>1. u # t /\ w # t
      BY <2>4, <2>10
    <3>2. u = s \/ (u \in exists /\ u # t)
      BY <2>8, <3>1
    <3>3. w = s \/ (w \in exists /\ w # t)
      BY <2>8, <3>1
    <3>4. CASE u = s
      <4>1. w \in exists /\ w # t /\ s_cap[w] > SSO_LEN /\ hbuf_'[w] = hbuf_[w]
        BY <2>5, <2>10, <3>3, <3>4
      <4> QED
        BY <2>1, <2>3, <2>4, <3>4, <4>1 DEF StringInv
    <3>5. CASE w = s
      <4>1. u \in exists /\ u # t /\ s_cap[u] > SSO_LEN /\ hbuf_'[u] = hbuf_[u]
        BY <2>5, <2>10, <3>2, <3>5
      <4> QED
        BY <2>1, <2>3, <2>4, <3>5, <4>1 DEF StringInv
    <3>6. CASE u \in exists /\ u # t /\ w \in exists /\ w # t
      BY <2>5, <2>10, <3>6 DEF StringInv
    <3> QED
      BY <3>2, <3>3, <3>4, <3>5, <3>6
  <2> QED
    BY <2>2, <2>9, <2>10 DEF StringInv
<1>7. ASSUME NEW s \in Str, String!Leave(s) PROVE StringInv'
  <2>1. /\ exists' = exists \ {s} /\ buffers' = buffers
        /\ sbuf_' = [sbuf_ EXCEPT ![s] = String!NoText]
        /\ hbuf_' = [hbuf_ EXCEPT ![s] = NoBlock]
        /\ s_len' = [s_len EXCEPT ![s] = 0]
        /\ s_cap' = [s_cap EXCEPT ![s] = 0]
        /\ meant' = [meant EXCEPT ![s] = Unspecified]
    BY <1>7 DEF String!Leave
  <2>2. StringTypes'
    <3>1. String!NoText \in [1..SSO_LEN -> Char \cup {Junk}]
      BY DEF String!NoText
    <3> QED
      BY <1>1, <2>1, <3>1 DEF StringTypes
  <2>3. \A u \in exists' :
          /\ u \in exists /\ s_cap'[u] = s_cap[u] /\ s_len'[u] = s_len[u]
          /\ sbuf_'[u] = sbuf_[u] /\ hbuf_'[u] = hbuf_[u] /\ meant'[u] = meant[u]
    BY <1>1, <2>1 DEF StringTypes
  <2>4. \A u \in exists' : /\ ShortKept(u) => ShortKept(u)'
                           /\ LongKept(u) => LongKept(u)'
    BY <1>1, <2>1, <2>3, OthersKept
  <2> QED
    BY <2>2, <2>3, <2>4 DEF StringInv
<1>8. CASE UNCHANGED String!vars
  BY <1>8 DEF String!vars, StringInv, StringTypes, ShortKept, LongKept
<1>9. CASE String!Overruns
  BY <1>9 DEF String!Overruns, StringInv, StringTypes, ShortKept, LongKept
<1> QED
  BY <1>2, <1>3, <1>4, <1>5, <1>6, <1>7, <1>8, <1>9 DEF String!Next

\* What is kept is what Text reads back.
LEMMA StringReads == StringInv => TextKept
<1> SUFFICES ASSUME StringInv PROVE String!TextKept
  BY DEF TextKept
<1>1. ASSUME NEW s \in exists, meant[s] # Unspecified
      PROVE  String!Fits(s) /\ String!Text(s) = meant[s]
  <2>1. s \in Str /\ s_cap[s] \in Nat /\ sbuf_[s] \in [1..SSO_LEN -> Char \cup {Junk}]
    BY DEF StringInv, StringTypes
  <2>2. CASE s_cap[s] <= SSO_LEN
    <3>1. ShortKept(s)
      BY <1>1, <2>2 DEF StringInv
    <3>2. sbuf_[s] \in Seq(Char \cup {Junk}) /\ Len(sbuf_[s]) = SSO_LEN
      BY <2>1, StringNumbers
    <3>3. SubSeq(sbuf_[s], 1, s_len[s]) = meant[s]
      BY <3>1, <3>2, StringNumbers DEF ShortKept
    <3> QED
      BY <2>2, <3>1, <3>3 DEF String!Fits, String!Text, String!is_sso, ShortKept
  <2>3. CASE s_cap[s] > SSO_LEN
    <3>1. LongKept(s) /\ ~(s_cap[s] <= SSO_LEN)
      BY <1>1, <2>1, <2>3, StringNumbers DEF StringInv
    <3>2. SubSeq(buffers[hbuf_[s]], 1, s_len[s]) = meant[s]
      BY <3>1 DEF LongKept
    <3>3. hbuf_[s] # NoBlock /\ s_len[s] <= Len(buffers[hbuf_[s]])
      BY <3>1, StringNumbers DEF LongKept, StringInv, StringTypes
    <3> QED
      BY <3>1, <3>2, <3>3 DEF String!Fits, String!Text, String!is_sso, LongKept
  <2> QED
    BY <2>1, <2>2, <2>3, StringNumbers
<1>2. \A s \in exists : ~String!is_sso(s) => s_cap[s] > SSO_LEN
  BY StringNumbers DEF StringInv, StringTypes, String!is_sso
<1> QED
  BY <1>1, <1>2 DEF StringInv, String!TextKept
-----------------------------------------------------------------------------
(* vector. *)

\* What a slot holds, as long as nothing goes wrong.
Slot == Value \cup {Moved, Raw}

\* s is a block of c slots with objects in the first m of them.
InOrder(s, c, m) ==
  /\ s \in Seq(Slot) /\ Len(s) = c /\ m <= c
  /\ \A k \in 1..c : IF k <= m THEN s[k] \in Value \cup {Moved} ELSE s[k] = Raw

\* The addresses in use.
Blocks == DOMAIN heap

\* The blocks that v does not own: the other vectors' and those that nobody owns.
Others(v) == IF v \in living THEN Blocks \ {v_ptr[v]} ELSE Blocks

\* SlotsInOrder, with the types: a Slot is never Broken.
VectorInv ==
  /\ living \subseteq Vec
  /\ v_ptr \in [Vec -> Nat \cup {Null}] /\ v_size \in [Vec -> Nat] /\ v_cap \in [Vec -> Nat]
  /\ heap \in [Blocks -> Seq(Slot)] /\ Null \notin Blocks
  /\ \A v \in living : v_ptr[v] # Null => v_ptr[v] \in Blocks
  /\ \A v, w \in living : v # w /\ v_ptr[v] # Null => v_ptr[v] # v_ptr[w]
  /\ \A v \in living :
       IF v_ptr[v] = Null THEN v_size[v] = 0 /\ v_cap[v] = 0
       ELSE InOrder(heap[v_ptr[v]], v_cap[v], v_size[v])

\* What NothingLost says of one step.
Lossless ==
  /\ ~thrown' => Vector!Orphans' \subseteq Vector!Orphans
  /\ Vector!Orphans' \cap Blocks \subseteq Vector!Orphans

\* What is known of the constants.
LEMMA VectorFacts ==
  /\ MaxSize \in Nat /\ MaxBlock \in Nat /\ Null \notin 1..MaxBlock
  /\ Raw \notin Value /\ Moved \notin Value /\ Broken \notin Value
  /\ Raw # Moved /\ Raw # Broken /\ Moved # Broken
BY Assumptions DEF Vector!VectorAssumption

\* No vector yet.
LEMMA VectorInit == Vector!Init => VectorInv
BY DEF Vector!Init, VectorInv, Blocks

\* The destructor runs over objects only, and leaves none.
LEMMA AllDestroyed ==
  ASSUME NEW s, NEW c \in Nat, NEW m \in Nat, InOrder(s, c, m)
  PROVE  /\ DOMAIN s = 1..c
         /\ Vector!DestroyFirst(s, m) \in Seq(Slot) /\ Len(Vector!DestroyFirst(s, m)) = c
         /\ DOMAIN Vector!DestroyFirst(s, m) = 1..c
         /\ \A k \in 1..c : Vector!DestroyFirst(s, m)[k] = Raw
<1> DEFINE d == Vector!DestroyFirst(s, m)
<1>1. DOMAIN s = 1..c
  BY DEF InOrder
<1>2. d = [k \in 1..c |-> IF k <= m THEN Vector!Destroyed(s[k]) ELSE s[k]]
  BY <1>1 DEF Vector!DestroyFirst
<1>3. \A k \in 1..c : d[k] = Raw
  <2> SUFFICES ASSUME NEW k \in 1..c PROVE d[k] = Raw
    OBVIOUS
  <2>1. CASE k <= m
    <3>1. s[k] \notin {Raw, Broken}
      BY <2>1, VectorFacts DEF InOrder
    <3> QED
      BY <1>2, <2>1, <3>1 DEF Vector!Destroyed
  <2>2. CASE ~(k <= m)
    BY <1>2, <2>2 DEF InOrder
  <2> QED
    BY <2>1, <2>2
<1>4. DOMAIN d = 1..c
  BY <1>2
<1>5. d \in [1..c -> Slot]
  <2>1. d = [k \in 1..c |-> d[k]]
    BY <1>2
  <2> QED
    BY <1>3, <2>1 DEF Slot
<1>6. d \in Seq(Slot) /\ Len(d) = c
  BY <1>5, <1>4
<1> QED
  BY <1>1, <1>3, <1>4, <1>6

\* A block whose objects are those that the vector counts is freed, and no other.
LEMMA Freed ==
  ASSUME NEW h, NEW b \in DOMAIN h, NEW c \in Nat, NEW m \in Nat, b # Null, InOrder(h[b], c, m)
  PROVE  Vector!Free(h, b, m) = [a \in DOMAIN h \ {b} |-> h[a]]
<1>1. PICK s : s = h[b]
  OBVIOUS
<1>2. InOrder(s, c, m)
  BY <1>1
<1>3. \A k \in DOMAIN Vector!DestroyFirst(s, m) : Vector!DestroyFirst(s, m)[k] = Raw
  BY <1>2, AllDestroyed
<1> QED
  BY <1>1, <1>3 DEF Vector!Free

\* What operator new returns is in nobody's hands.
LEMMA FreshBlock ==
  ASSUME VectorInv, NEW b \in Vector!Fresh
  PROVE  b \in Nat /\ b # Null /\ b \notin Blocks
BY VectorFacts DEF Vector!Fresh, VectorInv

\* A new block is in order.
LEMMA BlockInOrder ==
  ASSUME NEW c \in Nat, NEW xs \in Seq(Value \cup {Moved}), Len(xs) <= c
  PROVE  InOrder(Vector!Block(c, xs), c, Len(xs))
<1> DEFINE s == Vector!Block(c, xs)
<1>1. s = [k \in 1..c |-> IF k <= Len(xs) THEN xs[k] ELSE Raw]
  BY DEF Vector!Block
<1>2. \A k \in 1..c : IF k <= Len(xs) THEN s[k] \in Value \cup {Moved} ELSE s[k] = Raw
  BY <1>1
<1>3. s \in [1..c -> Slot]
  BY <1>1 DEF Slot
<1>4. s \in Seq(Slot) /\ Len(s) = c
  BY <1>1, <1>3
<1> QED
  BY <1>2, <1>4 DEF InOrder

\* The elements of a living vector.
LEMMA ContentsAre ==
  ASSUME VectorInv, NEW w \in living
  PROVE  /\ Vector!Contents(w) \in Seq(Value \cup {Moved})
         /\ Len(Vector!Contents(w)) = v_size[w] /\ v_size[w] <= v_cap[w]
<1>1. v_size[w] \in Nat /\ v_cap[w] \in Nat
  BY DEF VectorInv
<1>2. CASE v_ptr[w] = Null
  BY <1>1, <1>2 DEF VectorInv, Vector!Contents
<1>3. CASE v_ptr[w] # Null
  <2> DEFINE s == heap[v_ptr[w]]  xs == SubSeq(s, 1, v_size[w])
  <2>1. InOrder(s, v_cap[w], v_size[w])
    BY <1>3 DEF VectorInv
  <2>2. xs = [k \in 1..v_size[w] |-> s[k]]
    BY <1>1, <2>1 DEF InOrder
  <2>3. \A k \in 1..v_size[w] : s[k] \in Value \cup {Moved}
    BY <1>1, <2>1 DEF InOrder
  <2>4. xs \in [1..v_size[w] -> Value \cup {Moved}]
    BY <2>2, <2>3
  <2>5. xs \in Seq(Value \cup {Moved}) /\ Len(xs) = v_size[w]
    <3>1. DOMAIN xs = 1..v_size[w]
      BY <2>2
    <3> HIDE DEF xs
    <3> QED
      BY <1>1, <2>4, <3>1
  <2> QED
    BY <1>1, <1>3, <2>1, <2>5 DEF InOrder, Vector!Contents
<1> QED
  BY <1>2, <1>3

\* The blocks in use are v's own and the others.
LEMMA OthersAre ==
  ASSUME VectorInv, NEW v \in Vec
  PROVE  /\ Others(v) \subseteq Blocks /\ Null \notin Others(v)
         /\ v \notin living \/ v_ptr[v] = Null => Others(v) = Blocks
         /\ v \in living /\ v_ptr[v] # Null =>
              /\ v_ptr[v] \in Blocks
              /\ Others(v) = Blocks \ {v_ptr[v]}
         /\ \A w \in living \ {v} : v_ptr[w] # Null => v_ptr[w] \in Others(v)
BY DEF VectorInv, Others

\* The vectors other than v keep what they have; it is enough to look at v, and at the
\* blocks `more` that a call which throws leaves behind.
LEMMA VectorChange ==
  ASSUME VectorInv, NEW v \in Vec, living' = living \cup {v},
         NEW p \in Nat \cup {Null}, NEW m \in Nat, NEW c \in Nat, Vector!SetFields(v, p, m, c),
         p = Null => m = 0 /\ c = 0,
         p # Null => InOrder(heap'[p], c, m),
         p \notin Others(v),
         NEW more, more \cap Blocks = {}, Null \notin more, thrown' \/ more = {},
         heap' \in [Others(v) \cup ({p} \ {Null}) \cup more -> Seq(Slot)],
         \A a \in Others(v) : heap'[a] = heap[a]
  PROVE  VectorInv' /\ Lossless
<1>1. /\ v_ptr' = [v_ptr EXCEPT ![v] = p]
      /\ v_size' = [v_size EXCEPT ![v] = m]
      /\ v_cap' = [v_cap EXCEPT ![v] = c]
  BY DEF Vector!SetFields
<1>2. /\ living \subseteq Vec
      /\ v_ptr \in [Vec -> Nat \cup {Null}] /\ v_size \in [Vec -> Nat] /\ v_cap \in [Vec -> Nat]
  BY DEF VectorInv
<1>3. /\ living' \subseteq Vec
      /\ v_ptr' \in [Vec -> Nat \cup {Null}] /\ v_size' \in [Vec -> Nat] /\ v_cap' \in [Vec -> Nat]
  BY <1>1, <1>2
<1>4. /\ v_ptr'[v] = p /\ v_size'[v] = m /\ v_cap'[v] = c
      /\ \A w \in living \ {v} :
           /\ v_ptr'[w] = v_ptr[w] /\ v_size'[w] = v_size[w] /\ v_cap'[w] = v_cap[w]
           /\ v_ptr[w] # Null => v_ptr[w] \in Others(v)
  BY <1>1, <1>2, OthersAre
<1>5. /\ Blocks' = Others(v) \cup ({p} \ {Null}) \cup more
      /\ heap' \in [Blocks' -> Seq(Slot)] /\ Null \notin Blocks'
  BY OthersAre DEF Blocks
<1>6. \A u, w \in living' : u # w /\ v_ptr'[u] # Null => v_ptr'[u] # v_ptr'[w]
  BY <1>4 DEF VectorInv
<1>7. ASSUME NEW w \in living'
      PROVE  IF v_ptr'[w] = Null THEN v_size'[w] = 0 /\ v_cap'[w] = 0
             ELSE InOrder(heap'[v_ptr'[w]], v_cap'[w], v_size'[w])
  <2>1. CASE w = v
    BY <1>4, <2>1
  <2>2. CASE w \in living \ {v}
    BY ZenonT(30), <1>4, <2>2 DEF VectorInv
  <2> QED
    BY <2>1, <2>2
<1>8. \A w \in living' :
        IF v_ptr'[w] = Null THEN v_size'[w] = 0 /\ v_cap'[w] = 0
        ELSE InOrder(heap[v_ptr[w]], v_cap[w], v_size[w])'
  BY <1>7 DEF InOrder
<1>9. \A w \in living' : v_ptr'[w] # Null => v_ptr'[w] \in Blocks'
  BY <1>4, <1>5
<1>10. VectorInv'
  BY <1>3, <1>5, <1>6, <1>8, <1>9 DEF VectorInv
<1>11. \A a \in Vector!Orphans' : a \in Vector!Orphans \/ a \in more
  <2> SUFFICES ASSUME NEW a \in Blocks', a \notin more,
                      \A w \in living' : v_ptr'[w] # a
               PROVE  a \in Blocks /\ \A w \in living : v_ptr[w] # a
    <3>1. ASSUME NEW a \in Vector!Orphans'
          PROVE  a \in Blocks' /\ \A w \in living' : v_ptr'[w] # a
      BY <1>5 DEF Vector!Orphans, Vector!Owned, Blocks
    <3>2. ASSUME NEW a \in Blocks, \A w \in living : v_ptr[w] # a PROVE a \in Vector!Orphans
      BY <3>2 DEF Vector!Orphans, Vector!Owned, Blocks
    <3> QED
      BY <3>1, <3>2
  <2>1. a \in Others(v)
    BY <1>4, <1>5
  <2>2. a \in Blocks /\ (v \in living => v_ptr[v] # a)
    BY <2>1 DEF Others
  <2>3. \A w \in living \ {v} : v_ptr[w] # a
    BY <1>4
  <2> QED
    BY <2>2, <2>3
<1> QED
  BY <1>10, <1>11 DEF Lossless

\* The same of a call that leaves nothing behind.
LEMMA VectorUpdate ==
  ASSUME VectorInv, NEW v \in Vec, living' = living \cup {v},
         NEW p \in Nat \cup {Null}, NEW m \in Nat, NEW c \in Nat, Vector!SetFields(v, p, m, c),
         p = Null => m = 0 /\ c = 0,
         p # Null => InOrder(heap'[p], c, m),
         p \notin Others(v),
         heap' \in [Others(v) \cup ({p} \ {Null}) -> Seq(Slot)],
         \A a \in Others(v) : heap'[a] = heap[a]
  PROVE  VectorInv' /\ Lossless
<1> DEFINE more == {}
<1>1. /\ more \cap Blocks = {} /\ Null \notin more /\ (thrown' \/ more = {})
      /\ heap' \in [Others(v) \cup ({p} \ {Null}) \cup more -> Seq(Slot)]
  BY Zenon
<1> HIDE DEF more
<1> QED
  BY <1>1, VectorChange

\* A constructor that puts its elements into a new block.
LEMMA Allocated ==
  ASSUME VectorInv, NEW v \in Vec, v \notin living, living' = living \cup {v},
         NEW b \in Vector!Fresh, NEW c \in Nat, NEW xs \in Seq(Value \cup {Moved}), Len(xs) <= c,
         heap' = Vector!With(b, Vector!Block(c, xs)), Vector!SetFields(v, b, Len(xs), c)
  PROVE  VectorInv' /\ Lossless
<1>1. b \in Nat \cup {Null} /\ b # Null /\ b \notin Blocks
  BY FreshBlock
<1>2. Others(v) = Blocks
  BY OthersAre
<1>3. PICK s : s = Vector!Block(c, xs)
  OBVIOUS
<1>4. InOrder(s, c, Len(xs)) /\ s \in Seq(Slot)
  BY <1>3, BlockInOrder DEF InOrder
<1>5. DOMAIN heap = Blocks /\ \A a \in Blocks : heap[a] \in Seq(Slot)
  BY DEF VectorInv
<1>6. heap' = [a \in Blocks \cup {b} |-> IF a = b THEN s ELSE heap[a]]
  BY <1>3, <1>5 DEF Vector!With
<1>7. /\ heap' \in [Others(v) \cup ({b} \ {Null}) -> Seq(Slot)]
      /\ heap'[b] = s /\ \A a \in Others(v) : heap'[a] = heap[a]
  BY <1>1, <1>2, <1>4, <1>5, <1>6
<1>8. Len(xs) \in Nat
  OBVIOUS
<1> QED
  BY <1>1, <1>2, <1>4, <1>7, <1>8, VectorUpdate

\* The new block takes the place of the old one.
LEMMA Reallocated ==
  ASSUME VectorInv, NEW v \in living, NEW b \in Vector!Fresh, NEW s \in Seq(Slot)
  PROVE  Vector!Free(Vector!With(b, s), v_ptr[v], v_size[v])
           = [a \in Others(v) \cup {b} |-> IF a = b THEN s ELSE heap[a]]
<1>1. b \in Nat /\ b # Null /\ b \notin Blocks
  BY FreshBlock
<1>2. v \in Vec /\ DOMAIN heap = Blocks /\ v_size[v] \in Nat /\ v_cap[v] \in Nat
  BY DEF VectorInv
<1>3. PICK h : h = Vector!With(b, s)
  OBVIOUS
<1>4. h = [a \in Blocks \cup {b} |-> IF a = b THEN s ELSE heap[a]]
  BY <1>2, <1>3 DEF Vector!With
<1>5. CASE v_ptr[v] = Null
  BY <1>2, <1>3, <1>4, <1>5, OthersAre DEF Vector!Free
<1>6. CASE v_ptr[v] # Null
  <2>1. v_ptr[v] \in Blocks /\ Others(v) = Blocks \ {v_ptr[v]}
    BY <1>2, <1>6, OthersAre
  <2>2. h[v_ptr[v]] = heap[v_ptr[v]] /\ v_ptr[v] \in DOMAIN h
    BY <1>1, <1>4, <2>1
  <2>3. InOrder(h[v_ptr[v]], v_cap[v], v_size[v])
    BY <1>6, <2>2 DEF VectorInv
  <2>4. Vector!Free(h, v_ptr[v], v_size[v]) = [a \in DOMAIN h \ {v_ptr[v]} |-> h[a]]
    <3> DEFINE q == v_ptr[v]  m == v_size[v]  c == v_cap[v]
    <3>1. m \in Nat /\ c \in Nat
      BY <1>2
    <3>2. q \in DOMAIN h /\ q # Null /\ InOrder(h[q], c, m)
      BY <1>6, <2>2, <2>3
    <3> HIDE DEF q, m, c
    <3>3. Vector!Free(h, q, m) = [a \in DOMAIN h \ {q} |-> h[a]]
      BY ZenonT(30), <3>1, <3>2, Freed
    <3> QED
      BY <3>3 DEF q, m
  <2>5. DOMAIN h \ {v_ptr[v]} = Others(v) \cup {b}
    BY <1>1, <1>4, <2>1
  <2>6. [a \in DOMAIN h \ {v_ptr[v]} |-> h[a]]
          = [a \in Others(v) \cup {b} |-> IF a = b THEN s ELSE heap[a]]
    BY <1>4, <2>1, <2>5
  <2> QED
    BY <1>3, <2>4, <2>6
<1> QED
  BY <1>5, <1>6

\* Room for one more: the elements are in order in a block that has a slot left, and
\* the other blocks are as they were.
LEMMA RoomFor ==
  ASSUME VectorInv, NEW v \in living, NEW r \in Vector!Room(v)
  PROVE  /\ r.ptr \in Nat \cup {Null} /\ r.ptr # Null /\ r.ptr \notin Others(v)
         /\ r.cap \in Nat /\ v_size[v] < r.cap
         /\ r.heap \in [Others(v) \cup {r.ptr} -> Seq(Slot)]
         /\ InOrder(r.heap[r.ptr], r.cap, v_size[v])
         /\ \A a \in Others(v) : r.heap[a] = heap[a]
<1>1. /\ v \in Vec /\ v_size[v] \in Nat /\ v_cap[v] \in Nat /\ v_ptr[v] \in Nat \cup {Null}
      /\ DOMAIN heap = Blocks /\ \A a \in Blocks : heap[a] \in Seq(Slot)
      /\ Others(v) \subseteq Blocks
  BY OthersAre DEF VectorInv
<1>2. CASE v_size[v] = v_cap[v]
  <2>1. PICK b \in Vector!Fresh :
          r = [ptr |-> b, cap |-> Vector!new_cap(v),
               heap |-> Vector!Free(Vector!With(b, Vector!Block(Vector!new_cap(v), Vector!Contents(v))),
                                    v_ptr[v], v_size[v])]
    BY <1>2 DEF Vector!Room, Vector!re_alloc
  <2>2. Vector!new_cap(v) \in Nat /\ v_size[v] < Vector!new_cap(v)
    BY <1>1, <1>2 DEF Vector!new_cap
  <2>3. PICK s : s = Vector!Block(Vector!new_cap(v), Vector!Contents(v))
    OBVIOUS
  <2>4. InOrder(s, Vector!new_cap(v), v_size[v]) /\ s \in Seq(Slot)
    <3>1. /\ Vector!Contents(v) \in Seq(Value \cup {Moved})
          /\ Len(Vector!Contents(v)) = v_size[v]
      BY ContentsAre
    <3>2. Len(Vector!Contents(v)) <= Vector!new_cap(v)
      BY <1>1, <2>2, <3>1
    <3>3. InOrder(s, Vector!new_cap(v), Len(Vector!Contents(v)))
      BY <2>2, <2>3, <3>1, <3>2, BlockInOrder
    <3> QED
      BY <3>1, <3>3 DEF InOrder
  <2>5. r.heap = [a \in Others(v) \cup {b} |-> IF a = b THEN s ELSE heap[a]]
    BY <2>1, <2>3, <2>4, Reallocated
  <2>6. b \in Nat /\ b # Null /\ b \notin Blocks /\ r.ptr = b /\ r.cap = Vector!new_cap(v)
    BY <2>1, FreshBlock
  <2> QED
    BY <1>1, <2>2, <2>4, <2>5, <2>6
<1>3. CASE v_size[v] # v_cap[v]
  <2>1. r = [ptr |-> v_ptr[v], cap |-> v_cap[v], heap |-> heap]
    BY <1>3 DEF Vector!Room
  <2>2. v_ptr[v] # Null /\ InOrder(heap[v_ptr[v]], v_cap[v], v_size[v])
    BY <1>3 DEF VectorInv
  <2>3. v_ptr[v] \notin Others(v) /\ Others(v) \cup {v_ptr[v]} = Blocks
    BY <1>1, <2>2, OthersAre
  <2>4. heap \in [Blocks -> Seq(Slot)] /\ v_size[v] < v_cap[v]
    BY <1>1, <1>3, <2>2 DEF VectorInv, InOrder
  <2> QED
    BY <1>1, <2>1, <2>2, <2>3, <2>4
<1> QED
  BY <1>2, <1>3

\* Nothing but thrown changes.
LEMMA Untouched ==
  ASSUME VectorInv, UNCHANGED <<living, v_ptr, v_size, v_cap, heap>>
  PROVE  VectorInv' /\ Lossless
<1>1. Blocks' = Blocks /\ Vector!Orphans' = Vector!Orphans
  BY DEF Blocks, Vector!Orphans, Vector!Owned
<1>2. \A u \in living : InOrder(heap[v_ptr[u]], v_cap[u], v_size[u])'
                           <=> InOrder(heap[v_ptr[u]], v_cap[u], v_size[u])
  BY DEF InOrder
<1> QED
  BY <1>1, <1>2 DEF VectorInv, Lossless

\* A block that nobody knows holds objects only.
LEMMA ForgottenHolds == \A k \in Nat : Vector!Forgotten(k) \in Seq(Slot)
<1> SUFFICES ASSUME NEW k \in Nat PROVE Vector!Forgotten(k) \in Seq(Slot)
  OBVIOUS
<1>1. Vector!Forgotten(k) \in [1..k -> Slot]
  BY DEF Vector!Forgotten, Slot
<1> QED
  BY <1>1

\* A call that throws among its constructions leaves the new block behind, and the
\* vectors and their blocks as they are.
LEMMA Leaked ==
  ASSUME VectorInv, NEW b \in Vector!Fresh, NEW m \in Nat, Vector!Leaks(b, m)
  PROVE  /\ VectorInv' /\ Lossless
         /\ UNCHANGED <<living, v_ptr, v_size, v_cap>> /\ \A a \in Blocks : heap'[a] = heap[a]
<1>1. PICK k \in 0..(m - 1) : heap' = Vector!With(b, Vector!Forgotten(k))
  BY DEF Vector!Leaks
<1>2. UNCHANGED <<living, v_ptr, v_size, v_cap>> /\ thrown'
  BY DEF Vector!Leaks
<1>3. PICK s : s = Vector!Forgotten(k)
  OBVIOUS
<1>4. s \in Seq(Slot)
  BY <1>1, <1>3, ForgottenHolds
<1>5. b # Null /\ b \notin Blocks /\ Null \notin Blocks /\ heap \in [Blocks -> Seq(Slot)]
  BY FreshBlock DEF VectorInv
<1>6. heap' = [a \in Blocks \cup {b} |-> IF a = b THEN s ELSE heap[a]]
  BY <1>1, <1>3 DEF Vector!With, Blocks
<1>7. /\ Blocks' = Blocks \cup {b} /\ heap' \in [Blocks' -> Seq(Slot)] /\ Null \notin Blocks'
      /\ \A a \in Blocks : heap'[a] = heap[a]
  <2>1. DOMAIN heap' = Blocks \cup {b}
    BY <1>6
  <2>2. Blocks' = Blocks \cup {b}
    BY <2>1 DEF Blocks
  <2> QED
    BY <1>4, <1>5, <1>6, <2>2
<1>8. \A u \in living : v_ptr[u] # Null =>
        (InOrder(heap[v_ptr[u]], v_cap[u], v_size[u])'
           <=> InOrder(heap[v_ptr[u]], v_cap[u], v_size[u]))
  BY <1>2, <1>7 DEF InOrder, VectorInv
<1>9. VectorInv'
  BY <1>2, <1>7, <1>8 DEF VectorInv
<1>10. Vector!Orphans' \cap Blocks \subseteq Vector!Orphans
  BY <1>2 DEF Vector!Orphans, Vector!Owned, Blocks
<1> QED
  BY <1>2, <1>7, <1>9, <1>10 DEF Lossless

\* A vector that keeps its block, and has m objects in it after the call.
LEMMA InPlace ==
  ASSUME VectorInv, NEW v \in living, v_ptr[v] # Null, living' = living,
         NEW m \in Nat, NEW s, InOrder(s, v_cap[v], m),
         heap' = [heap EXCEPT ![v_ptr[v]] = s],
         v_ptr' = v_ptr, v_cap' = v_cap, v_size' = [v_size EXCEPT ![v] = m]
  PROVE  VectorInv' /\ Lossless
<1>1. /\ v \in Vec /\ v_cap[v] \in Nat /\ v_ptr[v] \in Nat \cup {Null}
      /\ v_ptr \in [Vec -> Nat \cup {Null}] /\ v_cap \in [Vec -> Nat]
      /\ heap \in [Blocks -> Seq(Slot)]
  BY DEF VectorInv
<1>2. living' = living \cup {v} /\ Vector!SetFields(v, v_ptr[v], m, v_cap[v])
  <2>1. v_ptr' = [v_ptr EXCEPT ![v] = v_ptr[v]] /\ v_cap' = [v_cap EXCEPT ![v] = v_cap[v]]
    BY <1>1
  <2> QED
    BY <2>1 DEF Vector!SetFields
<1>3. /\ v_ptr[v] \in Blocks /\ v_ptr[v] \notin Others(v)
      /\ Others(v) \subseteq Blocks
      /\ Others(v) \cup ({v_ptr[v]} \ {Null}) = Blocks
  BY <1>1, OthersAre
<1>4. s \in Seq(Slot)
  BY DEF InOrder
<1>5. /\ heap' \in [Blocks -> Seq(Slot)] /\ heap'[v_ptr[v]] = s
      /\ \A a \in Others(v) : heap'[a] = heap[a]
  BY <1>1, <1>3, <1>4
<1>6. heap' \in [Others(v) \cup ({v_ptr[v]} \ {Null}) -> Seq(Slot)]
  BY <1>3, <1>5
<1> DEFINE p == v_ptr[v]  c == v_cap[v]
<1>7. p \in Nat \cup {Null} /\ c \in Nat /\ p # Null /\ InOrder(heap'[p], c, m) /\ p \notin Others(v)
  BY <1>1, <1>3, <1>5
<1>8. /\ Vector!SetFields(v, p, m, c) /\ heap' \in [Others(v) \cup ({p} \ {Null}) -> Seq(Slot)]
  BY <1>2, <1>6
<1> HIDE DEF p, c
<1> QED
  BY <1>1, <1>2, <1>5, <1>7, <1>8, VectorUpdate

\* An object is constructed behind the others, assigned to one of them, or destroyed at
\* the end; or the first are moved from.
LEMMA OnePut ==
  ASSUME NEW s, NEW c \in Nat, NEW m \in Nat, InOrder(s, c, m)
  PROVE  /\ \A x \in Value :
              m < c => InOrder([s EXCEPT ![m + 1] = Vector!Constructed(@, x)], c, m + 1)
         /\ \A x \in Value, k \in 1..m : InOrder([s EXCEPT ![k] = x], c, m)
         /\ m > 0 => InOrder([s EXCEPT ![m] = Vector!Destroyed(@)], c, m - 1)
         /\ \A k \in 0..(m - 1) :
              InOrder([i \in DOMAIN s |-> IF i <= k THEN Moved ELSE s[i]], c, m)
<1>1. s \in [1..c -> Slot] /\ m <= c
  BY DEF InOrder
<1>2. \A t \in [1..c -> Slot] : t \in Seq(Slot) /\ Len(t) = c
  OBVIOUS
<1>3. \A k \in 1..c : IF k <= m THEN s[k] \in Value \cup {Moved} ELSE s[k] = Raw
  BY DEF InOrder
<1>4. ASSUME NEW x \in Value, m < c
      PROVE  InOrder([s EXCEPT ![m + 1] = Vector!Constructed(@, x)], c, m + 1)
  <2> DEFINE t == [s EXCEPT ![m + 1] = Vector!Constructed(@, x)]
  <2>1. m + 1 \in 1..c /\ s[m + 1] = Raw
    BY <1>3, <1>4
  <2>2. t = [s EXCEPT ![m + 1] = x]
    BY <2>1 DEF Vector!Constructed
  <2>3. /\ t \in [1..c -> Slot] /\ t[m + 1] = x
        /\ \A k \in 1..c : k # m + 1 => t[k] = s[k]
    BY <1>1, <2>1, <2>2 DEF Slot
  <2> HIDE DEF t
  <2>4. \A k \in 1..c : IF k <= m + 1 THEN t[k] \in Value \cup {Moved} ELSE t[k] = Raw
    BY <1>3, <2>1, <2>3
  <2>5. InOrder(t, c, m + 1)
    BY <1>2, <1>4, <2>3, <2>4 DEF InOrder
  <2> QED
    BY <2>5 DEF t
<1>5. ASSUME NEW x \in Value, NEW k \in 1..m PROVE InOrder([s EXCEPT ![k] = x], c, m)
  <2> DEFINE t == [s EXCEPT ![k] = x]
  <2>1. /\ t \in [1..c -> Slot] /\ t[k] = x
        /\ \A i \in 1..c : i # k => t[i] = s[i]
    BY <1>1 DEF Slot
  <2> HIDE DEF t
  <2>2. \A i \in 1..c : IF i <= m THEN t[i] \in Value \cup {Moved} ELSE t[i] = Raw
    BY <1>3, <2>1
  <2>3. InOrder(t, c, m)
    BY <1>1, <1>2, <2>1, <2>2 DEF InOrder
  <2> QED
    BY <2>3 DEF t
<1>6. ASSUME m > 0 PROVE InOrder([s EXCEPT ![m] = Vector!Destroyed(@)], c, m - 1)
  <2> DEFINE t == [s EXCEPT ![m] = Vector!Destroyed(@)]
  <2>1. m \in 1..c /\ s[m] \notin {Raw, Broken}
    BY <1>1, <1>3, <1>6, VectorFacts
  <2>2. t = [s EXCEPT ![m] = Raw]
    BY <2>1 DEF Vector!Destroyed
  <2>3. /\ t \in [1..c -> Slot] /\ t[m] = Raw
        /\ \A k \in 1..c : k # m => t[k] = s[k]
    BY <1>1, <2>1, <2>2 DEF Slot
  <2> HIDE DEF t
  <2>4. \A k \in 1..c : IF k <= m - 1 THEN t[k] \in Value \cup {Moved} ELSE t[k] = Raw
    BY <1>3, <2>1, <2>3
  <2>5. InOrder(t, c, m - 1)
    BY <1>1, <1>2, <1>6, <2>3, <2>4 DEF InOrder
  <2> QED
    BY <2>5 DEF t
<1>7. ASSUME NEW k \in 0..(m - 1)
      PROVE  InOrder([i \in DOMAIN s |-> IF i <= k THEN Moved ELSE s[i]], c, m)
  <2> DEFINE t == [i \in DOMAIN s |-> IF i <= k THEN Moved ELSE s[i]]
  <2>1. /\ t \in [1..c -> Slot]
        /\ \A i \in 1..c : t[i] = IF i <= k THEN Moved ELSE s[i]
    BY <1>1 DEF Slot
  <2> HIDE DEF t
  <2>2. \A i \in 1..c : IF i <= m THEN t[i] \in Value \cup {Moved} ELSE t[i] = Raw
    BY <1>3, <2>1
  <2>3. InOrder(t, c, m)
    BY <1>1, <1>2, <2>1, <2>2 DEF InOrder
  <2> QED
    BY <2>3 DEF t
<1> QED
  BY <1>4, <1>5, <1>6, <1>7

\* The constructors: a vector without a block, or with a new one.
LEMMA VectorConstructs ==
  ASSUME VectorInv, NEW v \in Vec,
         \/ Vector!Default(v)
         \/ \E m \in 0..MaxSize, x \in Value : Vector!Fill(v, m, x)
         \/ \E w \in Vec : Vector!CopyConstruct(v, w)
  PROVE  VectorInv' /\ Lossless
<1>0. MaxSize \in Nat /\ \A w \in living : v_size[w] \in Nat
  BY VectorFacts DEF VectorInv
<1>1. CASE Vector!Default(v)
  <2>1. /\ v \notin living /\ living' = living \cup {v} /\ heap' = heap
        /\ Vector!SetFields(v, Null, 0, 0)
    BY <1>1 DEF Vector!Default
  <2>2. Others(v) = Blocks /\ Null \notin Others(v)
    BY <2>1, OthersAre
  <2>3. /\ heap' \in [Others(v) \cup ({Null} \ {Null}) -> Seq(Slot)]
        /\ \A a \in Others(v) : heap'[a] = heap[a]
    BY <2>1, <2>2 DEF VectorInv
  <2> DEFINE p == Null
  <2>4. p \in Nat \cup {Null} /\ p = Null /\ 0 \in Nat
    OBVIOUS
  <2> HIDE DEF p
  <2> QED
    BY <2>1, <2>2, <2>3, <2>4, VectorUpdate
<1>2. ASSUME NEW m \in 0..MaxSize, NEW x \in Value, Vector!Fill(v, m, x) PROVE VectorInv' /\ Lossless
  <2>1. v \notin living
    BY <1>2 DEF Vector!Fill
  <2>2. PICK b \in Vector!Fresh :
          \/ /\ heap' = Vector!With(b, Vector!Block(m, [k \in 1..m |-> x]))
             /\ Vector!SetFields(v, b, m, m)
             /\ living' = living \cup {v}
          \/ Vector!Leaks(b, m)
    BY <1>2 DEF Vector!Fill
  <2>3. CASE Vector!Leaks(b, m)
    BY <1>0, <2>1, <2>3, Leaked
  <2>4. CASE /\ heap' = Vector!With(b, Vector!Block(m, [k \in 1..m |-> x]))
             /\ Vector!SetFields(v, b, m, m)
             /\ living' = living \cup {v}
    <3>1. PICK xs : xs = [k \in 1..m |-> x]
      OBVIOUS
    <3>2. xs \in [1..m -> Value \cup {Moved}] /\ m \in Nat
      BY <3>1, VectorFacts
    <3>3. xs \in Seq(Value \cup {Moved}) /\ Len(xs) = m /\ Len(xs) <= m
      BY <3>2
    <3>4. heap' = Vector!With(b, Vector!Block(m, xs)) /\ Vector!SetFields(v, b, Len(xs), m)
      BY <2>4, <3>1, <3>3
    <3> QED
      BY <2>1, <2>4, <3>2, <3>3, <3>4, Allocated
  <2> QED
    BY <2>2, <2>3, <2>4
<1>3. ASSUME NEW w \in Vec, Vector!CopyConstruct(v, w) PROVE VectorInv' /\ Lossless
  <2>1. v \notin living /\ w \in living
    BY <1>3 DEF Vector!CopyConstruct
  <2>2. PICK b \in Vector!Fresh :
          \/ /\ heap' = Vector!With(b, Vector!Block(v_cap[w], Vector!Contents(w)))
             /\ Vector!SetFields(v, b, v_size[w], v_cap[w])
             /\ living' = living \cup {v}
          \/ Vector!Leaks(b, v_size[w])
    BY <1>3 DEF Vector!CopyConstruct
  <2>3. CASE Vector!Leaks(b, v_size[w])
    BY <1>0, <2>1, <2>3, Leaked
  <2>4. CASE /\ heap' = Vector!With(b, Vector!Block(v_cap[w], Vector!Contents(w)))
             /\ Vector!SetFields(v, b, v_size[w], v_cap[w])
             /\ living' = living \cup {v}
    <3> DEFINE c == v_cap[w]  xs == Vector!Contents(w)
    <3>1. xs \in Seq(Value \cup {Moved}) /\ Len(xs) <= c /\ c \in Nat /\ Len(xs) = v_size[w]
      BY <2>1, ContentsAre DEF VectorInv
    <3>2. heap' = Vector!With(b, Vector!Block(c, xs)) /\ Vector!SetFields(v, b, Len(xs), c)
      BY <2>4, <3>1
    <3> HIDE DEF c, xs
    <3> QED
      BY <2>1, <2>4, <3>1, <3>2, Allocated
  <2> QED
    BY <2>2, <2>3, <2>4
<1> QED
  BY <1>1, <1>2, <1>3

\* The blocks stay what they are, and every vector is in order in the one it has now.
LEMMA HandedOn ==
  ASSUME VectorInv, living' \subseteq Vec,
         v_ptr' \in [Vec -> Nat \cup {Null}], v_size' \in [Vec -> Nat], v_cap' \in [Vec -> Nat],
         heap' = heap, Vector!Owned' = Vector!Owned,
         \A u, t \in living' : u # t /\ v_ptr'[u] # Null => v_ptr'[u] # v_ptr'[t],
         \A u \in living' : IF v_ptr'[u] = Null THEN v_size'[u] = 0 /\ v_cap'[u] = 0
                            ELSE InOrder(heap[v_ptr'[u]], v_cap'[u], v_size'[u])
  PROVE  VectorInv' /\ Lossless
<1>1. /\ Blocks' = Blocks /\ heap' \in [Blocks' -> Seq(Slot)] /\ Null \notin Blocks'
      /\ Vector!Orphans' = Vector!Orphans
  BY DEF VectorInv, Blocks, Vector!Orphans
<1>2. \A u \in living' :
        IF v_ptr'[u] = Null THEN v_size'[u] = 0 /\ v_cap'[u] = 0
        ELSE InOrder(heap[v_ptr[u]], v_cap[u], v_size[u])'
  BY DEF InOrder
<1>3. \A u \in living' : v_ptr'[u] # Null => v_ptr'[u] \in Blocks
  <2>1. \A u \in living' : v_ptr'[u] # Null => v_ptr'[u] \in Vector!Owned
    BY DEF Vector!Owned
  <2>2. Vector!Owned \subseteq Blocks
    BY DEF Vector!Owned, VectorInv
  <2> QED
    BY <2>1, <2>2
<1> QED
  BY <1>1, <1>2, <1>3 DEF VectorInv, Lossless

\* The assignments and the move constructor hand blocks on; none is shared.
LEMMA VectorAssigns ==
  ASSUME VectorInv, NEW v \in Vec, NEW w \in Vec,
         \/ Vector!CopyAssign(v, w)
         \/ Vector!MoveConstruct(v, w)
         \/ Vector!MoveAssign(v, w)
  PROVE  VectorInv' /\ Lossless
<1>0. /\ living \subseteq Vec
      /\ v_ptr \in [Vec -> Nat \cup {Null}] /\ v_size \in [Vec -> Nat] /\ v_cap \in [Vec -> Nat]
      /\ heap \in [Blocks -> Seq(Slot)]
  BY DEF VectorInv
<1>1. CASE Vector!CopyAssign(v, w)
  <2>1. v \in living /\ w \in living
    BY <1>1 DEF Vector!CopyAssign
  <2>2. PICK b \in Vector!Fresh :
          \/ /\ heap' = Vector!Free(Vector!With(b, Vector!Block(v_cap[w], Vector!Contents(w))),
                                    v_ptr[v], v_size[v])
             /\ Vector!SetFields(v, b, v_size[w], v_cap[w])
             /\ living' = living
          \/ Vector!Leaks(b, v_size[w])
    BY <1>1 DEF Vector!CopyAssign
  <2>3. CASE Vector!Leaks(b, v_size[w])
    BY <1>0, <2>1, <2>3, Leaked
  <2>4. CASE /\ heap' = Vector!Free(Vector!With(b, Vector!Block(v_cap[w], Vector!Contents(w))),
                                    v_ptr[v], v_size[v])
             /\ Vector!SetFields(v, b, v_size[w], v_cap[w])
             /\ living' = living
    <3> DEFINE c == v_cap[w]  m == v_size[w]  xs == Vector!Contents(w)
    <3>1. xs \in Seq(Value \cup {Moved}) /\ Len(xs) <= c /\ c \in Nat /\ m \in Nat /\ Len(xs) = m
      BY <1>0, <2>1, ContentsAre
    <3>2. /\ heap' = Vector!Free(Vector!With(b, Vector!Block(c, xs)), v_ptr[v], v_size[v])
          /\ Vector!SetFields(v, b, m, c)
      BY <2>4
    <3> HIDE DEF c, m, xs
    <3>3. PICK s : s = Vector!Block(c, xs)
      OBVIOUS
    <3>4. InOrder(s, c, m)
      BY <3>1, <3>3, BlockInOrder
    <3>5. s \in Seq(Slot)
      BY <3>4 DEF InOrder
    <3>6. heap' = [a \in Others(v) \cup {b} |-> IF a = b THEN s ELSE heap[a]]
      BY <2>1, <3>2, <3>3, <3>5, Reallocated
    <3>7. b \in Nat \cup {Null} /\ b # Null /\ b \notin Blocks
      BY FreshBlock
    <3>8. Others(v) \subseteq Blocks
      BY OthersAre
    <3>9. /\ heap' \in [Others(v) \cup ({b} \ {Null}) -> Seq(Slot)]
          /\ heap'[b] = s /\ \A a \in Others(v) : heap'[a] = heap[a]
      BY <1>0, <3>5, <3>6, <3>7, <3>8
    <3>10. living' = living \cup {v} /\ b \notin Others(v)
      BY <2>1, <2>4, <3>7, <3>8
    <3> QED
      BY <3>1, <3>2, <3>4, <3>7, <3>9, <3>10, VectorUpdate
  <2> QED
    BY <2>2, <2>3, <2>4
<1>2. CASE Vector!MoveConstruct(v, w)
  <2>1. /\ v \notin living /\ w \in living /\ living' = living \cup {v} /\ heap' = heap
        /\ v_ptr' = [v_ptr EXCEPT ![v] = v_ptr[w], ![w] = Null]
        /\ v_size' = [v_size EXCEPT ![v] = v_size[w], ![w] = 0]
        /\ v_cap' = [v_cap EXCEPT ![v] = v_cap[w], ![w] = 0]
    BY <1>2 DEF Vector!MoveConstruct
  <2>2. /\ v_ptr' \in [Vec -> Nat \cup {Null}] /\ v_size' \in [Vec -> Nat] /\ v_cap' \in [Vec -> Nat]
    BY <1>0, <2>1
  <2>3. /\ v # w
        /\ v_ptr'[v] = v_ptr[w] /\ v_size'[v] = v_size[w] /\ v_cap'[v] = v_cap[w]
        /\ v_ptr'[w] = Null /\ v_size'[w] = 0 /\ v_cap'[w] = 0
        /\ \A u \in living \ {w} : /\ u # v /\ v_ptr'[u] = v_ptr[u]
                                   /\ v_size'[u] = v_size[u] /\ v_cap'[u] = v_cap[u]
    BY <1>0, <2>1
  <2>4. living' \subseteq Vec /\ \A u \in living' : u = v \/ u = w \/ u \in living \ {w}
    BY <1>0, <2>1
  <2>5. Vector!Owned' = Vector!Owned
    <3>1. \A u \in living' : v_ptr'[u] = Null \/ \E t \in living : v_ptr[t] = v_ptr'[u]
      BY <2>1, <2>3, <2>4
    <3>2. \A u \in living : v_ptr[u] = Null \/ \E t \in living' : v_ptr'[t] = v_ptr[u]
      <4> SUFFICES ASSUME NEW u \in living PROVE \E t \in living' : v_ptr'[t] = v_ptr[u]
        OBVIOUS
      <4>1. CASE u = w
        BY <2>1, <2>3, <4>1
      <4>2. CASE u # w
        BY <2>1, <2>3, <4>2
      <4> QED
        BY <4>1, <4>2
    <3> QED
      BY <3>1, <3>2 DEF Vector!Owned
  <2>6. ASSUME NEW u \in living', NEW t \in living', u # t, v_ptr'[u] # Null
        PROVE  v_ptr'[u] # v_ptr'[t]
    <3>1. u # w
      BY <2>3, <2>6
    <3>2. CASE t = w
      BY <2>3, <2>6, <3>2
    <3>3. CASE t # w
      BY <2>1, <2>3, <2>4, <2>6, <3>1, <3>3 DEF VectorInv
    <3> QED
      BY <3>2, <3>3
  <2>7. \A u \in living' :
          IF v_ptr'[u] = Null THEN v_size'[u] = 0 /\ v_cap'[u] = 0
          ELSE InOrder(heap[v_ptr'[u]], v_cap'[u], v_size'[u])
    BY <2>1, <2>3, <2>4 DEF VectorInv
  <2> QED
    BY <1>0, <2>1, <2>2, <2>5, <2>6, <2>7, HandedOn
<1>3. CASE Vector!MoveAssign(v, w)
  <2>1. /\ v \in living /\ w \in living /\ v # w /\ living' = living /\ heap' = heap
        /\ v_ptr' = [v_ptr EXCEPT ![v] = v_ptr[w], ![w] = v_ptr[v]]
        /\ v_size' = [v_size EXCEPT ![v] = v_size[w], ![w] = v_size[v]]
        /\ v_cap' = [v_cap EXCEPT ![v] = v_cap[w], ![w] = v_cap[v]]
    BY <1>3 DEF Vector!MoveAssign
  <2>2. /\ v_ptr' \in [Vec -> Nat \cup {Null}] /\ v_size' \in [Vec -> Nat] /\ v_cap' \in [Vec -> Nat]
    BY <1>0, <2>1
  <2>3. /\ v_ptr'[v] = v_ptr[w] /\ v_size'[v] = v_size[w] /\ v_cap'[v] = v_cap[w]
        /\ v_ptr'[w] = v_ptr[v] /\ v_size'[w] = v_size[v] /\ v_cap'[w] = v_cap[v]
        /\ \A u \in living \ {v, w} : /\ v_ptr'[u] = v_ptr[u]
                                      /\ v_size'[u] = v_size[u] /\ v_cap'[u] = v_cap[u]
    BY <1>0, <2>1
  <2>4. living' \subseteq Vec /\ \A u \in living' : u = v \/ u = w \/ u \in living \ {v, w}
    BY <1>0, <2>1
  <2>5. Vector!Owned' = Vector!Owned
    <3>1. \A u \in living' : \E t \in living : v_ptr[t] = v_ptr'[u]
      BY <2>1, <2>3, <2>4
    <3>2. \A u \in living : \E t \in living' : v_ptr'[t] = v_ptr[u]
      <4> SUFFICES ASSUME NEW u \in living PROVE \E t \in living' : v_ptr'[t] = v_ptr[u]
        OBVIOUS
      <4>1. CASE u = v
        BY <2>1, <2>3, <4>1
      <4>2. CASE u = w
        BY <2>1, <2>3, <4>2
      <4>3. CASE u \in living \ {v, w}
        BY <2>1, <2>3, <4>3
      <4> QED
        BY <4>1, <4>2, <4>3
    <3> QED
      BY <3>1, <3>2 DEF Vector!Owned
  <2>6. ASSUME NEW u \in living', NEW t \in living', u # t, v_ptr'[u] # Null
        PROVE  v_ptr'[u] # v_ptr'[t]
    <3> DEFINE swap(y) == IF y = v THEN w ELSE IF y = w THEN v ELSE y
    <3>1. /\ swap(u) \in living /\ v_ptr'[u] = v_ptr[swap(u)]
          /\ swap(t) \in living /\ v_ptr'[t] = v_ptr[swap(t)]
      BY <2>1, <2>3, <2>4
    <3>2. swap(u) # swap(t)
      BY <2>6
    <3> HIDE DEF swap
    <3> QED
      BY <2>6, <3>1, <3>2 DEF VectorInv
  <2>7. \A u \in living' :
          IF v_ptr'[u] = Null THEN v_size'[u] = 0 /\ v_cap'[u] = 0
          ELSE InOrder(heap[v_ptr'[u]], v_cap'[u], v_size'[u])
    BY <2>1, <2>3, <2>4 DEF VectorInv
  <2> QED
    BY <1>0, <2>1, <2>2, <2>5, <2>6, <2>7, HandedOn
<1> QED
  BY <1>1, <1>2, <1>3

\* Growth, and what acts on the elements of one vector.
LEMMA VectorMutates ==
  ASSUME VectorInv, NEW v \in Vec,
         \/ Vector!Destroy(v) \/ Vector!PopBack(v) \/ Vector!Clear(v) \/ Vector!ReAllocThrows(v)
         \/ \E x \in Value : \/ Vector!PushBack(v, x)
                             \/ \E k \in 1..MaxSize : Vector!Assign(v, k, x)
  PROVE  VectorInv' /\ Lossless
<1> DEFINE p == v_ptr[v]  c == v_cap[v]  m == v_size[v]  s == heap[p]
<1>0. /\ v \in living /\ p \in Nat \cup {Null} /\ c \in Nat /\ m \in Nat
      /\ v_size \in [Vec -> Nat] /\ heap \in [Blocks -> Seq(Slot)]
      /\ p # Null => InOrder(s, c, m) /\ p \in Blocks
      /\ p = Null => m = 0
  BY OthersAre
     DEF VectorInv, Vector!Destroy, Vector!PopBack, Vector!Clear, Vector!ReAllocThrows,
         Vector!PushBack, Vector!Assign
<1>1. CASE Vector!Destroy(v)
  <2>1. /\ heap' = Vector!Free(heap, p, m) /\ living' = living \ {v}
        /\ Vector!SetFields(v, Null, 0, 0)
    BY <1>1 DEF Vector!Destroy
  <2>2. heap' \in [Others(v) -> Seq(Slot)] /\ \A a \in Others(v) : heap'[a] = heap[a]
    <3>1. CASE p = Null
      BY <1>0, <2>1, <3>1, OthersAre DEF Vector!Free
    <3>2. CASE p # Null
      <4>1. p \in DOMAIN heap /\ InOrder(heap[p], c, m) /\ Others(v) = Blocks \ {p}
        BY <1>0, <3>2, OthersAre
      <4> HIDE DEF p, c, m
      <4>2. Vector!Free(heap, p, m) = [a \in DOMAIN heap \ {p} |-> heap[a]]
        BY <1>0, <3>2, <4>1, Freed
      <4> QED
        BY <1>0, <2>1, <4>1, <4>2
    <3> QED
      BY <3>1, <3>2
  <2>3. /\ v_ptr' \in [Vec -> Nat \cup {Null}] /\ v_size' \in [Vec -> Nat] /\ v_cap' \in [Vec -> Nat]
    BY <2>1 DEF VectorInv, Vector!SetFields
  <2>4. \A u \in living' : /\ u \in living \ {v} /\ v_ptr'[u] = v_ptr[u]
                           /\ v_size'[u] = v_size[u] /\ v_cap'[u] = v_cap[u]
                           /\ v_ptr[u] # Null => v_ptr[u] \in Others(v)
    BY <2>1, OthersAre DEF VectorInv, Vector!SetFields
  <2>5. Blocks' = Others(v) /\ heap' \in [Blocks' -> Seq(Slot)] /\ Null \notin Blocks'
    BY <2>2, OthersAre DEF Blocks
  <2>6. \A u, t \in living' : u # t /\ v_ptr'[u] # Null => v_ptr'[u] # v_ptr'[t]
    BY <2>4 DEF VectorInv
  <2>7. \A u \in living' :
          IF v_ptr'[u] = Null THEN v_size'[u] = 0 /\ v_cap'[u] = 0
          ELSE InOrder(heap'[v_ptr'[u]], v_cap'[u], v_size'[u])
    BY <2>2, <2>4 DEF VectorInv
  <2>8. living' \subseteq Vec /\ \A u \in living' : v_ptr'[u] # Null => v_ptr'[u] \in Blocks'
    BY <2>4, <2>5 DEF VectorInv
  <2>9. VectorInv'
    BY <2>3, <2>5, <2>6, <2>7, <2>8 DEF VectorInv, InOrder
  <2>10. Vector!Orphans' \subseteq Vector!Orphans
    <3>1. ASSUME NEW a \in Others(v), \A u \in living' : v_ptr'[u] # a
          PROVE  a \in Blocks /\ \A u \in living : v_ptr[u] # a
      <4>1. a \in Blocks /\ v_ptr[v] # a
        BY <1>0, <3>1 DEF Others
      <4>2. \A u \in living \ {v} : u \in living' /\ v_ptr'[u] = v_ptr[u]
        BY <2>1, <2>4
      <4> QED
        BY <3>1, <4>1, <4>2
    <3>2. ASSUME NEW a \in Vector!Orphans'
          PROVE  a \in Others(v) /\ \A u \in living' : v_ptr'[u] # a
      BY <2>5 DEF Vector!Orphans, Vector!Owned, Blocks
    <3>3. ASSUME NEW a \in Blocks, \A u \in living : v_ptr[u] # a PROVE a \in Vector!Orphans
      BY <3>3 DEF Vector!Orphans, Vector!Owned, Blocks
    <3> QED
      BY <3>1, <3>2, <3>3
  <2> QED
    BY <2>9, <2>10 DEF Lossless
<1>2. CASE Vector!PopBack(v)
  <2>1. /\ m > 0 /\ living' = living /\ v_ptr' = v_ptr /\ v_cap' = v_cap
        /\ heap' = [heap EXCEPT ![p][m] = Vector!Destroyed(@)]
        /\ v_size' = [v_size EXCEPT ![v] = @ - 1]
    BY <1>2 DEF Vector!PopBack
  <2>2. PICK t : t = [s EXCEPT ![m] = Vector!Destroyed(@)]
    OBVIOUS
  <2>3. p # Null /\ m - 1 \in Nat
    BY <1>0, <2>1
  <2>4. InOrder(t, c, m - 1)
    <3>1. InOrder(s, c, m)
      BY <1>0, <2>3
    <3> HIDE DEF s, c, m
    <3> QED
      BY <1>0, <2>1, <2>2, <3>1, OnePut
  <2>5. heap' = [heap EXCEPT ![p] = t] /\ v_size' = [v_size EXCEPT ![v] = m - 1]
    BY <1>0, <2>1, <2>2
  <2> QED
    BY ZenonT(30), <1>0, <2>1, <2>3, <2>4, <2>5, InPlace
<1>3. CASE Vector!Clear(v)
  <2>1. /\ living' = living /\ v_ptr' = v_ptr /\ v_cap' = v_cap
        /\ heap' = IF p = Null THEN heap ELSE [heap EXCEPT ![p] = Vector!DestroyFirst(@, m)]
        /\ v_size' = [v_size EXCEPT ![v] = 0]
    BY <1>3 DEF Vector!Clear
  <2>2. CASE p = Null
    <3>1. v_size' = v_size /\ heap' = heap
      BY <1>0, <2>1, <2>2
    <3> QED
      BY <2>1, <3>1, Untouched
  <2>3. CASE p # Null
    <3>1. PICK t : t = Vector!DestroyFirst(s, m)
      OBVIOUS
    <3>2. InOrder(t, c, 0)
      <4>1. InOrder(s, c, m)
        BY <1>0, <2>3
      <4> HIDE DEF s, c, m
      <4>2. t \in Seq(Slot) /\ Len(t) = c /\ \A k \in 1..c : t[k] = Raw
        BY <1>0, <3>1, <4>1, AllDestroyed
      <4> QED
        BY <1>0, <4>2 DEF InOrder
    <3>3. heap' = [heap EXCEPT ![p] = t] /\ 0 \in Nat
      BY <1>0, <2>1, <2>3, <3>1
    <3> QED
      BY <1>0, <2>1, <2>3, <3>2, <3>3, InPlace
  <2> QED
    BY <2>2, <2>3
<1>4. CASE Vector!ReAllocThrows(v)
  <2>1. PICK b \in Vector!Fresh, k \in 0..(m - 1) :
          heap' = [Vector!With(b, Vector!Forgotten(k))
                     EXCEPT ![p] = [i \in DOMAIN @ |-> IF i <= k THEN Moved ELSE @[i]]]
    BY <1>4 DEF Vector!ReAllocThrows
  <2>2. living' = living /\ v_ptr' = v_ptr /\ v_cap' = v_cap /\ v_size' = v_size /\ thrown'
    BY <1>4 DEF Vector!ReAllocThrows
  <2>3. PICK t : t = [i \in DOMAIN s |-> IF i <= k THEN Moved ELSE s[i]]
    OBVIOUS
  <2>4. p # Null
    BY <1>0, <2>1
  <2>5. InOrder(t, c, m)
    <3>1. InOrder(s, c, m)
      BY <1>0, <2>4
    <3> HIDE DEF s, c, m
    <3> QED
      BY <1>0, <2>1, <2>3, <3>1, OnePut
  <2>6. PICK f : f = Vector!Forgotten(k)
    OBVIOUS
  <2>7. f \in Seq(Slot) /\ t \in Seq(Slot)
    BY <1>0, <2>1, <2>5, <2>6, ForgottenHolds DEF InOrder
  <2>8. b # Null /\ b \notin Blocks /\ p \in Blocks /\ Others(v) = Blocks \ {p}
    BY <1>0, <2>4, FreshBlock, OthersAre
  <2>9. heap' = [a \in Blocks \cup {b} |-> IF a = p THEN t ELSE IF a = b THEN f ELSE heap[a]]
    <3>1. Vector!With(b, f) = [a \in Blocks \cup {b} |-> IF a = b THEN f ELSE heap[a]]
      BY DEF Vector!With, Blocks
    <3> HIDE DEF p, m, c
    <3>2. Vector!With(b, f)[p] = s
      BY <2>8, <3>1
    <3> QED
      BY <2>1, <2>3, <2>6, <2>8, <3>1, <3>2
  <2> HIDE DEF p, m, c, s
  <2>10. /\ heap' \in [Others(v) \cup ({p} \ {Null}) \cup {b} -> Seq(Slot)] /\ heap'[p] = t
         /\ \A a \in Others(v) : heap'[a] = heap[a]
    <3>1. Blocks \cup {b} = Others(v) \cup ({p} \ {Null}) \cup {b}
      BY <2>4, <2>8
    <3>2. \A a \in Blocks : heap[a] \in Seq(Slot)
      BY <1>0
    <3> QED
      BY <2>7, <2>8, <2>9, <3>1, <3>2
  <2>11. living' = living \cup {v} /\ Vector!SetFields(v, p, m, c)
    BY <1>0, <2>2 DEF Vector!SetFields, VectorInv, p, m, c
  <2>12. {b} \cap Blocks = {} /\ Null \notin {b} /\ p \notin Others(v) /\ InOrder(heap'[p], c, m)
    BY <2>5, <2>8, <2>10
  <2> QED
    BY <1>0, <2>2, <2>4, <2>10, <2>11, <2>12, VectorChange
<1>5. ASSUME NEW x \in Value, NEW k \in 1..MaxSize, Vector!Assign(v, k, x) PROVE VectorInv' /\ Lossless
  <2>1. /\ k \in 1..m /\ living' = living /\ v_ptr' = v_ptr /\ v_cap' = v_cap /\ v_size' = v_size
        /\ heap' = [heap EXCEPT ![p][k] = x]
    BY <1>5 DEF Vector!Assign
  <2>2. PICK t : t = [s EXCEPT ![k] = x]
    OBVIOUS
  <2>3. p # Null
    BY <1>0, <2>1
  <2>4. InOrder(t, c, m)
    <3>1. InOrder(s, c, m)
      BY <1>0, <2>3
    <3> HIDE DEF s, c, m
    <3> QED
      BY <1>0, <2>1, <2>2, <3>1, OnePut
  <2>5. heap' = [heap EXCEPT ![p] = t] /\ v_size' = [v_size EXCEPT ![v] = m]
    BY <1>0, <2>1, <2>2
  <2> QED
    BY <1>0, <2>1, <2>3, <2>4, <2>5, InPlace
<1>6. ASSUME NEW x \in Value, Vector!PushBack(v, x) PROVE VectorInv' /\ Lossless
  <2>1. living' = living
    BY <1>6 DEF Vector!PushBack
  <2>2. PICK r \in Vector!Room(v) :
          \/ /\ heap' = [r.heap EXCEPT ![r.ptr][m + 1] = Vector!Constructed(@, x)]
             /\ Vector!SetFields(v, r.ptr, m + 1, r.cap)
          \/ /\ heap' = r.heap
             /\ Vector!SetFields(v, r.ptr, m, r.cap)
    BY <1>6 DEF Vector!PushBack
  <2> DEFINE q == r.ptr  d == r.cap  h == r.heap
  <2>3. /\ q \in Nat \cup {Null} /\ q # Null /\ q \notin Others(v)
        /\ d \in Nat /\ m < d
        /\ h \in [Others(v) \cup {q} -> Seq(Slot)]
        /\ InOrder(h[q], d, m)
        /\ \A a \in Others(v) : h[a] = heap[a]
    BY <1>0, RoomFor
  <2> HIDE DEF q, d, h, m, c, p, s
  <2>4. Others(v) \cup ({q} \ {Null}) = Others(v) \cup {q} /\ living' = living \cup {v}
    BY <1>0, <2>1, <2>3
  <2>5. CASE heap' = h /\ Vector!SetFields(v, q, m, d)
    <3>1. heap' \in [Others(v) \cup ({q} \ {Null}) -> Seq(Slot)] /\ InOrder(heap'[q], d, m)
      BY <2>3, <2>4, <2>5
    <3> QED
      BY <1>0, <2>3, <2>4, <2>5, <3>1, VectorUpdate
  <2>6. CASE /\ heap' = [h EXCEPT ![q][m + 1] = Vector!Constructed(@, x)]
             /\ Vector!SetFields(v, q, m + 1, d)
    <3>1. PICK z : z = h[q]
      OBVIOUS
    <3>2. PICK t : t = [z EXCEPT ![m + 1] = Vector!Constructed(@, x)]
      OBVIOUS
    <3>3. InOrder(t, d, m + 1)
      BY <1>0, <2>3, <3>1, <3>2, OnePut
    <3>4. t \in Seq(Slot) /\ m + 1 \in Nat
      BY <1>0, <3>3 DEF InOrder
    <3>5. heap' = [h EXCEPT ![q] = t]
      BY <2>6, <3>1, <3>2
    <3>6. /\ heap' \in [Others(v) \cup ({q} \ {Null}) -> Seq(Slot)] /\ heap'[q] = t
          /\ \A a \in Others(v) : heap'[a] = heap[a]
      BY <2>3, <2>4, <3>4, <3>5
    <3> QED
      BY <1>0, <2>3, <2>4, <2>6, <3>3, <3>4, <3>6, VectorUpdate
  <2> QED
    BY <2>2, <2>5, <2>6 DEF q, d, h
<1> QED
  BY <1>1, <1>2, <1>3, <1>4, <1>5, <1>6

\* Every call leaves all slots in order, also when it throws.
LEMMA VectorStep == VectorInv /\ [Vector!Next]_(Vector!vars) => VectorInv' /\ Lossless
<1> SUFFICES ASSUME VectorInv, [Vector!Next]_(Vector!vars) PROVE VectorInv' /\ Lossless
  OBVIOUS
<1>1. CASE Vector!BadAlloc
  BY <1>1, Untouched DEF Vector!BadAlloc
<1>2. CASE UNCHANGED Vector!vars
  BY <1>2, Untouched DEF Vector!vars
<1>3. ASSUME NEW v \in Vec,
             \/ Vector!Default(v) \/ Vector!Destroy(v) \/ Vector!PopBack(v) \/ Vector!Clear(v)
             \/ Vector!ReAllocThrows(v)
             \/ \E x \in Value :
                  \/ Vector!PushBack(v, x)
                  \/ \E m \in 0..MaxSize : Vector!Fill(v, m, x)
                  \/ \E k \in 1..MaxSize : Vector!Assign(v, k, x)
             \/ \E w \in Vec : \/ Vector!CopyConstruct(v, w) \/ Vector!CopyAssign(v, w)
                               \/ Vector!MoveConstruct(v, w) \/ Vector!MoveAssign(v, w)
      PROVE  VectorInv' /\ Lossless
  BY <1>3, VectorConstructs, VectorAssigns, VectorMutates
<1> QED
  BY <1>1, <1>2, <1>3 DEF Vector!Next

\* The slots are in order.
LEMMA VectorSlots == VectorInv => SlotsInOrder
<1> SUFFICES ASSUME VectorInv PROVE Vector!SlotsInOrder
  BY DEF SlotsInOrder
<1>1. Vector!Owned \subseteq DOMAIN heap
  BY DEF VectorInv, Blocks, Vector!Owned
<1>2. \A a \in DOMAIN heap : \A k \in DOMAIN heap[a] : heap[a][k] # Broken
  <2> SUFFICES ASSUME NEW a \in DOMAIN heap, NEW k \in DOMAIN heap[a] PROVE heap[a][k] # Broken
    OBVIOUS
  <2>1. heap[a] \in Seq(Slot)
    BY DEF VectorInv, Blocks
  <2>2. heap[a][k] \in Slot
    BY <2>1
  <2> QED
    BY <2>2, VectorFacts DEF Slot
<1>3. \A v \in living :
        IF v_ptr[v] = Null THEN v_size[v] = 0 /\ v_cap[v] = 0
        ELSE InOrder(heap[v_ptr[v]], v_cap[v], v_size[v])
  BY DEF VectorInv
<1>4. \A v, w \in living : v # w /\ v_ptr[v] # Null => v_ptr[v] # v_ptr[w]
  BY DEF VectorInv
<1> QED
  BY <1>1, <1>2, <1>3, <1>4 DEF Vector!SlotsInOrder, InOrder
-----------------------------------------------------------------------------
(* vector as variables that hold sequences.  Where moves may throw nothing *)
(* is claimed, so the proofs are about elements whose moves do not.        *)

\* The sequences, or Dead.
Held == [v \in Vec |-> IF v \in living /\ ~move_throws THEN Vector!Contents(v) ELSE Dead]

\* What a step may do to them.
LEMMA ValuesNext ==
  ASSUME NEW v \in Vec,
         \/ Held[v] = Dead /\ \E x \in Value : \E s \in Seq({x}) : Held' = [Held EXCEPT ![v] = s]
         \/ Held[v] # Dead /\
              \/ \E x \in Value : Held' = [Held EXCEPT ![v] = Append(Held[v], x)]
              \/ Held[v] # <<>> /\ Held' = [Held EXCEPT ![v] = SubSeq(Held[v], 1, Len(Held[v]) - 1)]
              \/ \E k \in DOMAIN Held[v], x \in Value :
                   Held' = [Held EXCEPT ![v] = [Held[v] EXCEPT ![k] = x]]
              \/ Held' = [Held EXCEPT ![v] = <<>>]
              \/ Held' = [Held EXCEPT ![v] = Dead]
         \/ \E w \in Vec \ {v} :
              /\ Held[w] # Dead
              /\ \/ Held' = [Held EXCEPT ![v] = Held[w]]
                 \/ Held[v] = Dead /\ Held' = [Held EXCEPT ![v] = Held[w], ![w] = <<>>]
                 \/ Held[v] # Dead /\ Held' = [Held EXCEPT ![v] = Held[w], ![w] = Held[v]]
  PROVE  Vector!Values!Next
<1>1. \A w \in Vec : w \in Vector!Values!Alive <=> Held[w] # Dead
  BY DEF Vector!Values!Alive, Held
<1>2. \A w, s : Vector!Values!Set(w, s) <=> Held' = [Held EXCEPT ![w] = s]
  BY DEF Vector!Values!Set, Held
<1>3. ASSUME Held[v] = Dead, NEW x \in Value, NEW s \in Seq({x}), Held' = [Held EXCEPT ![v] = s]
      PROVE  Vector!Values!Construct(v)
  <2>1. Held'[v] = s /\ Held' = [Held EXCEPT ![v] = Held'[v]]
    BY <1>3 DEF Held
  <2>2. Vector!Values!Construct(v) <=> /\ v \notin Vector!Values!Alive
                                       /\ \E y \in Value : Held'[v] \in Seq({y})
                                       /\ Held' = [Held EXCEPT ![v] = Held'[v]]
    BY DEF Vector!Values!Construct, Held
  <2> QED
    BY <1>1, <1>3, <2>1, <2>2
<1>4. /\ \A x \in Value :
           Held' = [Held EXCEPT ![v] = Append(Held[v], x)] => Vector!Values!Mutate(v)
      /\ Held[v] # <<>> /\ Held' = [Held EXCEPT ![v] = SubSeq(Held[v], 1, Len(Held[v]) - 1)] =>
           Vector!Values!Mutate(v)
      /\ \A k \in DOMAIN Held[v], x \in Value :
           Held' = [Held EXCEPT ![v] = [Held[v] EXCEPT ![k] = x]] => Vector!Values!Mutate(v)
      /\ Held' = [Held EXCEPT ![v] = <<>>] => Vector!Values!Mutate(v)
      /\ Held' = [Held EXCEPT ![v] = Dead] => Vector!Values!Mutate(v)
  <2>1. ASSUME NEW x \in Value, Held' = [Held EXCEPT ![v] = Append(Held[v], x)]
        PROVE  Vector!Values!Mutate(v)
    BY <2>1 DEF Vector!Values!Mutate, Vector!Values!Set, Held
  <2>2. ASSUME Held[v] # <<>>, Held' = [Held EXCEPT ![v] = SubSeq(Held[v], 1, Len(Held[v]) - 1)]
        PROVE  Vector!Values!Mutate(v)
    BY <2>2 DEF Vector!Values!Mutate, Vector!Values!Set, Held
  <2>3. ASSUME NEW k \in DOMAIN Held[v], NEW x \in Value,
               Held' = [Held EXCEPT ![v] = [Held[v] EXCEPT ![k] = x]]
        PROVE  Vector!Values!Mutate(v)
    BY <2>3 DEF Vector!Values!Mutate, Vector!Values!Set, Held
  <2>4. ASSUME Held' = [Held EXCEPT ![v] = <<>>] \/ Held' = [Held EXCEPT ![v] = Dead]
        PROVE  Vector!Values!Mutate(v)
    BY <2>4 DEF Vector!Values!Mutate, Vector!Values!Set, Held
  <2> QED
    BY <2>1, <2>2, <2>3, <2>4
<1>5. \A w : /\ Vector!Values!Copy(v, w) <=> Held' = [Held EXCEPT ![v] = Held[w]]
             /\ Vector!Values!MoveConstruct(v, w) <=>
                  /\ v \notin Vector!Values!Alive
                  /\ Held' = [Held EXCEPT ![v] = Held[w], ![w] = <<>>]
             /\ Vector!Values!MoveAssign(v, w) <=>
                  /\ v \in Vector!Values!Alive
                  /\ Held' = [Held EXCEPT ![v] = Held[w], ![w] = Held[v]]
  BY DEF Vector!Values!Copy, Vector!Values!MoveConstruct, Vector!Values!MoveAssign, Vector!Values!Set, Held
<1>6. Held[v] = Dead => v \notin Vector!Values!Alive
  BY <1>1
<1>7. CASE Held[v] = Dead /\ \E x \in Value : \E s \in Seq({x}) : Held' = [Held EXCEPT ![v] = s]
  BY <1>3, <1>7 DEF Vector!Values!Next
<1>8. CASE \E w \in Vec \ {v} :
             /\ Held[w] # Dead
             /\ \/ Held' = [Held EXCEPT ![v] = Held[w]]
                \/ Held[v] = Dead /\ Held' = [Held EXCEPT ![v] = Held[w], ![w] = <<>>]
                \/ Held[v] # Dead /\ Held' = [Held EXCEPT ![v] = Held[w], ![w] = Held[v]]
  BY <1>1, <1>5, <1>8 DEF Vector!Values!Next
<1>9. CASE Held[v] # Dead /\ Vector!Values!Mutate(v)
  BY <1>1, <1>9 DEF Vector!Values!Next
<1> QED
  BY <1>4, <1>7, <1>8, <1>9

\* What is in the variables.
LEMMA HeldIs ==
  ASSUME VectorInv, ~move_throws
  PROVE  /\ \A v \in Vec \ living : Held[v] = Dead
         /\ \A v \in living : /\ Held[v] = Vector!Contents(v) /\ Held[v] # Dead
                              /\ Held[v] \in Seq(Value \cup {Moved}) /\ Len(Held[v]) = v_size[v]
<1>1. ASSUME NEW v \in Vec \ living PROVE Held[v] = Dead
  BY DEF Held
<1>2. ASSUME NEW v \in living
      PROVE  /\ Held[v] = Vector!Contents(v) /\ Held[v] # Dead
             /\ Held[v] \in Seq(Value \cup {Moved}) /\ Len(Held[v]) = v_size[v]
  <2>1. Held[v] = Vector!Contents(v)
    BY DEF Held, VectorInv
  <2>2. Vector!Contents(v) \in Seq(Value \cup {Moved}) /\ Len(Vector!Contents(v)) = v_size[v]
    BY ContentsAre
  <2>3. Dead \notin Seq(Value \cup {Moved})
    BY Assumptions DEF Vector!VectorAssumption
  <2> QED
    BY <2>1, <2>2, <2>3
<1> QED
  BY <1>1, <1>2

\* A vector that a call has not touched holds what it held.
LEMMA ContentsStay ==
  ASSUME NEW u, v_ptr'[u] = v_ptr[u], v_size'[u] = v_size[u],
         v_ptr[u] # Null => heap'[v_ptr[u]] = heap[v_ptr[u]]
  PROVE  Vector!Contents(u)' = Vector!Contents(u)
BY DEF Vector!Contents

\* The objects in the first m slots, as a sequence.
LEMMA FirstSlots ==
  ASSUME NEW s, NEW c \in Nat, NEW m \in Nat, InOrder(s, c, m)
  PROVE  /\ SubSeq(s, 1, m) \in [1..m -> Value \cup {Moved}]
         /\ \A k \in 1..m : SubSeq(s, 1, m)[k] = s[k]
<1>1. s \in Seq(Slot) /\ Len(s) = c /\ m <= c /\ \A k \in 1..m : s[k] \in Value \cup {Moved}
  BY DEF InOrder
<1>2. SubSeq(s, 1, m) = [k \in 1..m |-> s[k]]
  BY <1>1
<1> QED
  BY <1>1, <1>2

\* A call that gives v a block p with m objects, or none, and leaves the others' alone.
LEMMA HeldSet ==
  ASSUME VectorInv, ~move_throws, move_throws' = move_throws, NEW v \in Vec,
         living' = living \cup {v}, NEW p, NEW m, NEW c, Vector!SetFields(v, p, m, c),
         \A a \in Others(v) : heap'[a] = heap[a],
         NEW x, x = IF p = Null THEN <<>> ELSE SubSeq(heap'[p], 1, m)
  PROVE  Held' = [Held EXCEPT ![v] = x]
<1>1. /\ living \subseteq Vec
      /\ v_ptr \in [Vec -> Nat \cup {Null}] /\ v_size \in [Vec -> Nat] /\ v_cap \in [Vec -> Nat]
  BY DEF VectorInv
<1>2. /\ v_ptr'[v] = p /\ v_size'[v] = m
      /\ \A u \in Vec \ {v} : v_ptr'[u] = v_ptr[u] /\ v_size'[u] = v_size[u]
  BY <1>1 DEF Vector!SetFields
<1>3. \A u \in living \ {v} : Vector!Contents(u)' = Vector!Contents(u)
  <2> SUFFICES ASSUME NEW u \in living \ {v} PROVE Vector!Contents(u)' = Vector!Contents(u)
    OBVIOUS
  <2>1. v_ptr[u] # Null => heap'[v_ptr[u]] = heap[v_ptr[u]]
    BY OthersAre
  <2> QED
    BY <1>1, <1>2, <2>1, ContentsStay
<1>4. Vector!Contents(v)' = x
  BY <1>2 DEF Vector!Contents
<1>5. \A u \in Vec : Held'[u] = IF u = v THEN x ELSE Held[u]
  BY <1>3, <1>4 DEF Held
<1> QED
  BY <1>5 DEF Held

\* A vector that keeps its block, s after the call, with m objects in it.
LEMMA HeldInPlace ==
  ASSUME VectorInv, ~move_throws, move_throws' = move_throws, NEW v \in living, v_ptr[v] # Null,
         living' = living, NEW s, NEW m, heap' = [heap EXCEPT ![v_ptr[v]] = s],
         v_ptr' = v_ptr, v_cap' = v_cap, v_size' = [v_size EXCEPT ![v] = m]
  PROVE  Held' = [Held EXCEPT ![v] = SubSeq(s, 1, m)]
<1>1. /\ living \subseteq Vec
      /\ v_ptr \in [Vec -> Nat \cup {Null}] /\ v_size \in [Vec -> Nat] /\ v_cap \in [Vec -> Nat]
      /\ heap \in [Blocks -> Seq(Slot)]
      /\ \A u \in living \ {v} : v_ptr[u] # v_ptr[v]
      /\ v_ptr[v] \in Blocks
  BY DEF VectorInv
<1>2. \A u \in living \ {v} : Vector!Contents(u)' = Vector!Contents(u)
  <2> SUFFICES ASSUME NEW u \in living \ {v} PROVE Vector!Contents(u)' = Vector!Contents(u)
    OBVIOUS
  <2>1. v_ptr[u] # Null => heap'[v_ptr[u]] = heap[v_ptr[u]]
    BY <1>1 DEF VectorInv
  <2>2. v_ptr'[u] = v_ptr[u] /\ v_size'[u] = v_size[u]
    BY <1>1
  <2> QED
    BY <2>1, <2>2, ContentsStay
<1>3. Vector!Contents(v)' = SubSeq(s, 1, m)
  <2>1. v_size'[v] = m /\ v_ptr'[v] = v_ptr[v] /\ heap'[v_ptr[v]] = s
    BY <1>1
  <2> QED
    BY <2>1 DEF Vector!Contents
<1>4. \A u \in Vec : Held'[u] = IF u = v THEN SubSeq(s, 1, m) ELSE Held[u]
  BY <1>2, <1>3 DEF Held
<1> QED
  BY <1>4 DEF Held

\* A new block holds what it is made from.
LEMMA BlockHolds ==
  ASSUME NEW c \in Nat, NEW xs \in Seq(Value \cup {Moved}), Len(xs) <= c
  PROVE  SubSeq(Vector!Block(c, xs), 1, Len(xs)) = xs
<1> DEFINE s == Vector!Block(c, xs)
<1>1. InOrder(s, c, Len(xs)) /\ s = [k \in 1..c |-> IF k <= Len(xs) THEN xs[k] ELSE Raw]
  BY BlockInOrder DEF Vector!Block
<1>2. \A k \in 1..Len(xs) : s[k] = xs[k]
  BY <1>1
<1>3. xs \in [1..Len(xs) -> Value \cup {Moved}] /\ Len(xs) \in Nat
  OBVIOUS
<1> HIDE DEF s
<1>4. /\ SubSeq(s, 1, Len(xs)) \in [1..Len(xs) -> Value \cup {Moved}]
      /\ \A k \in 1..Len(xs) : SubSeq(s, 1, Len(xs))[k] = s[k]
  BY <1>1, <1>3, FirstSlots
<1>5. SubSeq(s, 1, Len(xs)) = xs
  BY <1>2, <1>3, <1>4
<1> QED
  BY <1>5 DEF s

\* A new block becomes v's: v then holds what the block is made from.
LEMMA HeldNew ==
  ASSUME VectorInv, ~move_throws, move_throws' = move_throws, NEW v \in Vec,
         living' = living \cup {v}, NEW b \in Vector!Fresh,
         NEW c \in Nat, NEW xs \in Seq(Value \cup {Moved}), Len(xs) <= c,
         Vector!SetFields(v, b, Len(xs), c),
         heap'[b] = Vector!Block(c, xs), \A a \in Others(v) : heap'[a] = heap[a]
  PROVE  Held' = [Held EXCEPT ![v] = xs]
<1>1. b # Null
  BY FreshBlock
<1>2. SubSeq(heap'[b], 1, Len(xs)) = xs
  BY BlockHolds
<1> QED
  BY <1>1, <1>2, HeldSet

\* A call that leaves the vectors and the blocks there are alone changes no sequence.
LEMMA HeldUntouched ==
  ASSUME VectorInv, UNCHANGED <<living, v_ptr, v_size, move_throws>>,
         \A a \in Blocks : heap'[a] = heap[a]
  PROVE  Held' = Held
<1>1. ASSUME NEW u \in living PROVE Vector!Contents(u)' = Vector!Contents(u)
  <2>1. v_ptr[u] # Null => heap'[v_ptr[u]] = heap[v_ptr[u]]
    BY DEF VectorInv
  <2> QED
    BY <2>1, ContentsStay
<1> QED
  BY <1>1 DEF Held

\* The constructors make a vector of equal elements, or none, or a copy.
LEMMA ValuesConstruct ==
  ASSUME VectorInv, ~move_throws, move_throws' = move_throws, NEW v \in Vec,
         \/ Vector!Default(v)
         \/ \E m \in 0..MaxSize, x \in Value : Vector!Fill(v, m, x)
         \/ \E w \in Vec : Vector!CopyConstruct(v, w)
  PROVE  Vector!Values!Next \/ Held' = Held
<1>0. /\ v \notin living => Others(v) = Blocks
      /\ DOMAIN heap = Blocks /\ MaxSize \in Nat
      /\ living \subseteq Vec /\ \A w \in living : v_cap[w] \in Nat /\ v_size[w] \in Nat
  BY OthersAre, VectorFacts DEF VectorInv
<1>1. CASE Vector!Default(v)
  <2>1. /\ v \notin living /\ living' = living \cup {v} /\ heap' = heap
        /\ Vector!SetFields(v, Null, 0, 0)
    BY <1>1 DEF Vector!Default
  <2>2. Held' = [Held EXCEPT ![v] = <<>>]
    BY <2>1, HeldSet
  <2>3. Held[v] = Dead
    BY <2>1, HeldIs
  <2>4. PICK x : x \in Value
    BY Assumptions DEF Vector!VectorAssumption
  <2>5. <<>> \in Seq({x})
    OBVIOUS
  <2> QED
    BY <2>2, <2>3, <2>4, <2>5, ValuesNext
<1>2. ASSUME NEW m \in 0..MaxSize, NEW x \in Value, Vector!Fill(v, m, x)
      PROVE  Vector!Values!Next \/ Held' = Held
  <2>1. v \notin living
    BY <1>2 DEF Vector!Fill
  <2>2. PICK b \in Vector!Fresh :
          \/ /\ heap' = Vector!With(b, Vector!Block(m, [k \in 1..m |-> x]))
             /\ Vector!SetFields(v, b, m, m)
             /\ living' = living \cup {v}
          \/ Vector!Leaks(b, m)
    BY <1>2 DEF Vector!Fill
  <2>3. CASE Vector!Leaks(b, m)
    BY <1>0, <2>1, <2>3, Leaked, HeldUntouched
  <2>4. CASE /\ heap' = Vector!With(b, Vector!Block(m, [k \in 1..m |-> x]))
             /\ Vector!SetFields(v, b, m, m)
             /\ living' = living \cup {v}
    <3>1. PICK xs : xs = [k \in 1..m |-> x]
      OBVIOUS
    <3>2. m \in Nat /\ xs \in [1..m -> {x}] /\ xs \in [1..m -> Value \cup {Moved}]
      BY <3>1, VectorFacts
    <3>3. xs \in Seq({x}) /\ xs \in Seq(Value \cup {Moved}) /\ Len(xs) = m /\ Len(xs) <= m
      BY <3>2
    <3>4. heap'[b] = Vector!Block(m, xs) /\ \A a \in Others(v) : heap'[a] = heap[a]
      BY <1>0, <2>1, <2>4, <3>1, FreshBlock DEF Vector!With
    <3>5. Held' = [Held EXCEPT ![v] = xs]
      BY <2>4, <3>2, <3>3, <3>4, HeldNew
    <3>6. Held[v] = Dead
      BY <2>1, HeldIs
    <3> QED
      BY <3>3, <3>5, <3>6, ValuesNext
  <2> QED
    BY <2>2, <2>3, <2>4
<1>3. ASSUME NEW w \in Vec, Vector!CopyConstruct(v, w)
      PROVE  Vector!Values!Next \/ Held' = Held
  <2>1. v \notin living /\ w \in living
    BY <1>3 DEF Vector!CopyConstruct
  <2>2. PICK b \in Vector!Fresh :
          \/ /\ heap' = Vector!With(b, Vector!Block(v_cap[w], Vector!Contents(w)))
             /\ Vector!SetFields(v, b, v_size[w], v_cap[w])
             /\ living' = living \cup {v}
          \/ Vector!Leaks(b, v_size[w])
    BY <1>3 DEF Vector!CopyConstruct
  <2>3. CASE Vector!Leaks(b, v_size[w])
    BY <1>0, <2>1, <2>3, Leaked, HeldUntouched
  <2>4. CASE /\ heap' = Vector!With(b, Vector!Block(v_cap[w], Vector!Contents(w)))
             /\ Vector!SetFields(v, b, v_size[w], v_cap[w])
             /\ living' = living \cup {v}
    <3> DEFINE c == v_cap[w]  xs == Vector!Contents(w)
    <3>1. xs \in Seq(Value \cup {Moved}) /\ Len(xs) <= c /\ c \in Nat /\ Len(xs) = v_size[w]
      BY <1>0, <2>1, ContentsAre
    <3>2. heap' = Vector!With(b, Vector!Block(c, xs)) /\ Vector!SetFields(v, b, Len(xs), c)
      BY <2>4, <3>1
    <3>3. Held[w] = xs /\ Held[w] # Dead /\ w \in Vec \ {v}
      BY <2>1, HeldIs
    <3> HIDE DEF c, xs
    <3>4. heap'[b] = Vector!Block(c, xs) /\ \A a \in Others(v) : heap'[a] = heap[a]
      BY <1>0, <2>1, <3>2, FreshBlock DEF Vector!With
    <3>5. Held' = [Held EXCEPT ![v] = xs]
      BY <2>4, <3>1, <3>2, <3>4, HeldNew
    <3> QED
      BY <3>3, <3>5, ValuesNext
  <2> QED
    BY <2>2, <2>3, <2>4
<1> QED
  BY <1>1, <1>2, <1>3

\* The assignments and the move constructor copy, take or exchange sequences.
LEMMA ValuesAssign ==
  ASSUME VectorInv, ~move_throws, move_throws' = move_throws, NEW v \in Vec, NEW w \in Vec,
         \/ Vector!CopyAssign(v, w)
         \/ Vector!MoveConstruct(v, w)
         \/ Vector!MoveAssign(v, w)
  PROVE  Vector!Values!Next \/ Held' = Held
<1>0. /\ living \subseteq Vec /\ DOMAIN heap = Blocks
      /\ v_ptr \in [Vec -> Nat \cup {Null}] /\ v_size \in [Vec -> Nat] /\ v_cap \in [Vec -> Nat]
      /\ Others(v) \subseteq Blocks
  BY OthersAre DEF VectorInv
<1>1. CASE Vector!CopyAssign(v, w)
  <2>1. v \in living /\ w \in living \ {v}
    BY <1>1 DEF Vector!CopyAssign
  <2>2. PICK b \in Vector!Fresh :
          \/ /\ heap' = Vector!Free(Vector!With(b, Vector!Block(v_cap[w], Vector!Contents(w))),
                                    v_ptr[v], v_size[v])
             /\ Vector!SetFields(v, b, v_size[w], v_cap[w])
             /\ living' = living
          \/ Vector!Leaks(b, v_size[w])
    BY <1>1 DEF Vector!CopyAssign
  <2>3. CASE Vector!Leaks(b, v_size[w])
    BY <1>0, <2>1, <2>3, Leaked, HeldUntouched
  <2>4. CASE /\ heap' = Vector!Free(Vector!With(b, Vector!Block(v_cap[w], Vector!Contents(w))),
                                    v_ptr[v], v_size[v])
             /\ Vector!SetFields(v, b, v_size[w], v_cap[w])
             /\ living' = living
    <3> DEFINE c == v_cap[w]  xs == Vector!Contents(w)
    <3>1. xs \in Seq(Value \cup {Moved}) /\ Len(xs) <= c /\ c \in Nat /\ Len(xs) = v_size[w]
      BY <1>0, <2>1, ContentsAre
    <3>2. /\ heap' = Vector!Free(Vector!With(b, Vector!Block(c, xs)), v_ptr[v], v_size[v])
          /\ Vector!SetFields(v, b, Len(xs), c)
      BY <2>4, <3>1
    <3>3. Held[w] = xs /\ Held[w] # Dead /\ w \in Vec \ {v} /\ living' = living \cup {v}
      BY <1>0, <2>1, <2>4, HeldIs
    <3> HIDE DEF c, xs
    <3>4. PICK s : s = Vector!Block(c, xs)
      OBVIOUS
    <3>5. s \in Seq(Slot)
      BY <3>1, <3>4, BlockInOrder DEF InOrder
    <3>6. heap' = [a \in Others(v) \cup {b} |-> IF a = b THEN s ELSE heap[a]]
      BY <2>1, <3>2, <3>4, <3>5, Reallocated
    <3>7. heap'[b] = Vector!Block(c, xs) /\ \A a \in Others(v) : heap'[a] = heap[a]
      BY <1>0, <3>4, <3>6, FreshBlock
    <3>8. Held' = [Held EXCEPT ![v] = xs]
      BY <3>1, <3>2, <3>3, <3>7, HeldNew
    <3> QED
      BY <3>3, <3>8, ValuesNext
  <2> QED
    BY <2>2, <2>3, <2>4
<1>2. CASE Vector!MoveConstruct(v, w)
  <2>1. /\ v \notin living /\ w \in living /\ living' = living \cup {v} /\ heap' = heap
        /\ v_ptr' = [v_ptr EXCEPT ![v] = v_ptr[w], ![w] = Null]
        /\ v_size' = [v_size EXCEPT ![v] = v_size[w], ![w] = 0]
    BY <1>2 DEF Vector!MoveConstruct
  <2>2. /\ v # w
        /\ v_ptr'[v] = v_ptr[w] /\ v_size'[v] = v_size[w] /\ v_ptr'[w] = Null
        /\ \A u \in living \ {w} : v_ptr'[u] = v_ptr[u] /\ v_size'[u] = v_size[u]
    BY <1>0, <2>1
  <2>3. /\ Vector!Contents(v)' = Vector!Contents(w) /\ Vector!Contents(w)' = <<>>
        /\ \A u \in living \ {w} : Vector!Contents(u)' = Vector!Contents(u)
    <3>1. /\ Vector!Contents(v)' = Vector!Contents(w) /\ Vector!Contents(w)' = <<>>
      BY <2>1, <2>2 DEF Vector!Contents
    <3>2. ASSUME NEW u \in living \ {w} PROVE Vector!Contents(u)' = Vector!Contents(u)
      BY <2>1, <2>2, ContentsStay
    <3> QED
      BY <3>1, <3>2
  <2>4. Held[v] = Dead /\ Held[w] = Vector!Contents(w) /\ Held[w] # Dead
    BY <2>1, HeldIs
  <2>5. \A u \in Vec : Held'[u] = IF u = w THEN <<>> ELSE IF u = v THEN Held[w] ELSE Held[u]
    BY <2>1, <2>2, <2>3, <2>4 DEF Held
  <2>6. Held' = [Held EXCEPT ![v] = Held[w], ![w] = <<>>]
    BY <2>2, <2>5 DEF Held
  <2> QED
    BY <2>2, <2>4, <2>6, ValuesNext
<1>3. CASE Vector!MoveAssign(v, w)
  <2>1. /\ v \in living /\ w \in living /\ v # w /\ living' = living /\ heap' = heap
        /\ v_ptr' = [v_ptr EXCEPT ![v] = v_ptr[w], ![w] = v_ptr[v]]
        /\ v_size' = [v_size EXCEPT ![v] = v_size[w], ![w] = v_size[v]]
    BY <1>3 DEF Vector!MoveAssign
  <2>2. /\ v_ptr'[v] = v_ptr[w] /\ v_size'[v] = v_size[w]
        /\ v_ptr'[w] = v_ptr[v] /\ v_size'[w] = v_size[v]
        /\ \A u \in living \ {v, w} : v_ptr'[u] = v_ptr[u] /\ v_size'[u] = v_size[u]
    BY <1>0, <2>1
  <2>3. /\ Vector!Contents(v)' = Vector!Contents(w) /\ Vector!Contents(w)' = Vector!Contents(v)
        /\ \A u \in living \ {v, w} : Vector!Contents(u)' = Vector!Contents(u)
    <3>1. Vector!Contents(v)' = Vector!Contents(w) /\ Vector!Contents(w)' = Vector!Contents(v)
      BY <2>1, <2>2 DEF Vector!Contents
    <3>2. ASSUME NEW u \in living \ {v, w} PROVE Vector!Contents(u)' = Vector!Contents(u)
      BY <2>1, <2>2, ContentsStay
    <3> QED
      BY <3>1, <3>2
  <2>4. /\ Held[v] = Vector!Contents(v) /\ Held[v] # Dead
        /\ Held[w] = Vector!Contents(w) /\ Held[w] # Dead
    BY <2>1, HeldIs
  <2>5. \A u \in Vec :
          Held'[u] = IF u = w THEN Held[v] ELSE IF u = v THEN Held[w] ELSE Held[u]
    BY <2>1, <2>2, <2>3, <2>4 DEF Held
  <2>6. Held' = [Held EXCEPT ![v] = Held[w], ![w] = Held[v]]
    BY <2>1, <2>5 DEF Held
  <2> QED
    BY <2>1, <2>4, <2>6, ValuesNext
<1> QED
  BY <1>1, <1>2, <1>3

\* Making room changes no sequence.
LEMMA RoomHolds ==
  ASSUME VectorInv, NEW v \in living, NEW r \in Vector!Room(v)
  PROVE  \A k \in 1..v_size[v] : r.heap[r.ptr][k] = Vector!Contents(v)[k]
<1>1. /\ v \in Vec /\ v_size[v] \in Nat /\ v_cap[v] \in Nat
      /\ DOMAIN heap = Blocks /\ Others(v) \subseteq Blocks
  BY OthersAre DEF VectorInv
<1>2. CASE v_size[v] = v_cap[v]
  <2> DEFINE c == Vector!new_cap(v)  xs == Vector!Contents(v)
  <2>1. PICK b \in Vector!Fresh :
          r = [ptr |-> b, cap |-> c,
               heap |-> Vector!Free(Vector!With(b, Vector!Block(c, xs)), v_ptr[v], v_size[v])]
    BY <1>2 DEF Vector!Room, Vector!re_alloc
  <2>2. c \in Nat /\ v_size[v] < c
    BY <1>1, <1>2 DEF Vector!new_cap
  <2>3. xs \in Seq(Value \cup {Moved}) /\ Len(xs) = v_size[v]
    BY ContentsAre
  <2> HIDE DEF c, xs
  <2>4. PICK s : s = Vector!Block(c, xs)
    OBVIOUS
  <2>5. s \in Seq(Slot)
    BY <1>1, <2>2, <2>3, <2>4, BlockInOrder DEF InOrder
  <2>6. r.heap = [a \in Others(v) \cup {b} |-> IF a = b THEN s ELSE heap[a]] /\ r.ptr = b
    BY <2>1, <2>4, <2>5, Reallocated
  <2>7. r.heap[r.ptr] = s
    BY <2>6
  <2>8. \A k \in 1..v_size[v] : s[k] = xs[k]
    BY <1>1, <2>2, <2>3, <2>4 DEF Vector!Block
  <2> QED
    BY <2>7, <2>8 DEF xs
<1>3. CASE v_size[v] # v_cap[v]
  <2>1. r.ptr = v_ptr[v] /\ r.heap = heap
    BY <1>3 DEF Vector!Room
  <2>2. v_ptr[v] # Null /\ InOrder(heap[v_ptr[v]], v_cap[v], v_size[v])
    BY <1>3 DEF VectorInv
  <2> DEFINE s == heap[v_ptr[v]]  c == v_cap[v]  m == v_size[v]
  <2>3. InOrder(s, c, m) /\ c \in Nat /\ m \in Nat /\ Vector!Contents(v) = SubSeq(s, 1, m)
    BY <1>1, <2>2 DEF Vector!Contents
  <2>4. r.heap[r.ptr] = s
    BY <2>1
  <2> HIDE DEF s, c, m
  <2>5. \A k \in 1..m : SubSeq(s, 1, m)[k] = s[k]
    BY <2>3, FirstSlots
  <2> QED
    BY <2>3, <2>4, <2>5 DEF m
<1> QED
  BY <1>2, <1>3

\* Growth, and what acts on the elements of one vector.
LEMMA ValuesMutate ==
  ASSUME VectorInv, ~move_throws, move_throws' = move_throws, NEW v \in Vec,
         \/ Vector!Destroy(v) \/ Vector!PopBack(v) \/ Vector!Clear(v) \/ Vector!ReAllocThrows(v)
         \/ \E x \in Value : \/ Vector!PushBack(v, x)
                             \/ \E k \in 1..MaxSize : Vector!Assign(v, k, x)
  PROVE  Vector!Values!Next \/ Held' = Held
<1> DEFINE p == v_ptr[v]  c == v_cap[v]  m == v_size[v]  s == heap[p]  xs == Held[v]
<1>0. /\ v \in living /\ c \in Nat /\ m \in Nat
      /\ v_ptr \in [Vec -> Nat \cup {Null}] /\ v_size \in [Vec -> Nat] /\ v_cap \in [Vec -> Nat]
      /\ DOMAIN heap = Blocks
      /\ p # Null => InOrder(s, c, m) /\ p \in Blocks
      /\ p = Null => m = 0
  BY OthersAre
     DEF VectorInv, Vector!Destroy, Vector!PopBack, Vector!Clear, Vector!ReAllocThrows,
         Vector!PushBack, Vector!Assign
<1>h. /\ xs # Dead /\ xs \in Seq(Value \cup {Moved}) /\ Len(xs) = m
      /\ xs = Vector!Contents(v)
  BY <1>0, HeldIs
<1>x. xs \in [1..m -> Value \cup {Moved}] /\ DOMAIN xs = 1..m
  <2> HIDE DEF xs, m
  <2> QED
    BY <1>0, <1>h
<1>s. p # Null => \A k \in 1..m : xs[k] = s[k]
  <2> SUFFICES ASSUME p # Null PROVE \A k \in 1..m : xs[k] = s[k]
    OBVIOUS
  <2>1. InOrder(s, c, m) /\ xs = SubSeq(s, 1, m)
    BY <1>0, <1>h DEF Vector!Contents
  <2> HIDE DEF s, c, m, xs, p
  <2> QED
    BY <1>0, <2>1, FirstSlots
<1>1. CASE Vector!Destroy(v)
  <2>1. /\ heap' = Vector!Free(heap, p, m) /\ living' = living \ {v}
        /\ Vector!SetFields(v, Null, 0, 0)
    BY <1>1 DEF Vector!Destroy
  <2>2. \A a \in Others(v) : heap'[a] = heap[a]
    <3>1. CASE p = Null
      BY <2>1, <3>1 DEF Vector!Free
    <3>2. CASE p # Null
      <4>1. p \in DOMAIN heap /\ InOrder(heap[p], c, m) /\ Others(v) = Blocks \ {p}
        BY <1>0, <3>2, OthersAre
      <4> HIDE DEF p, c, m
      <4>2. Vector!Free(heap, p, m) = [a \in DOMAIN heap \ {p} |-> heap[a]]
        BY <1>0, <3>2, <4>1, Freed
      <4> QED
        BY <1>0, <2>1, <4>1, <4>2
    <3> QED
      BY <3>1, <3>2
  <2>3. \A u \in living \ {v} : Vector!Contents(u)' = Vector!Contents(u)
    <3> SUFFICES ASSUME NEW u \in living \ {v} PROVE Vector!Contents(u)' = Vector!Contents(u)
      OBVIOUS
    <3>1. v_ptr'[u] = v_ptr[u] /\ v_size'[u] = v_size[u]
      BY <1>0, <2>1 DEF Vector!SetFields
    <3>2. v_ptr[u] # Null => heap'[v_ptr[u]] = heap[v_ptr[u]]
      BY <2>2, OthersAre
    <3> QED
      BY <3>1, <3>2, ContentsStay
  <2>4. Held' = [Held EXCEPT ![v] = Dead]
    <3>1. \A u \in Vec : Held'[u] = IF u = v THEN Dead ELSE Held[u]
      BY <2>1, <2>3 DEF Held
    <3> QED
      BY <3>1 DEF Held
  <2> QED
    BY <1>h, <2>4, ValuesNext
<1>2. CASE Vector!PopBack(v)
  <2>1. /\ m > 0 /\ living' = living /\ v_ptr' = v_ptr /\ v_cap' = v_cap
        /\ heap' = [heap EXCEPT ![p][m] = Vector!Destroyed(@)]
        /\ v_size' = [v_size EXCEPT ![v] = @ - 1]
    BY <1>2 DEF Vector!PopBack
  <2>2. PICK t : t = [s EXCEPT ![m] = Vector!Destroyed(@)]
    OBVIOUS
  <2>3. p # Null /\ m - 1 \in Nat
    BY <1>0, <2>1
  <2>4. heap' = [heap EXCEPT ![p] = t] /\ v_size' = [v_size EXCEPT ![v] = m - 1]
    BY <1>0, <2>1, <2>2
  <2>5. Held' = [Held EXCEPT ![v] = SubSeq(t, 1, m - 1)]
    <3>1. /\ v \in living /\ living' = living /\ v_ptr[v] # Null
          /\ heap' = [heap EXCEPT ![v_ptr[v]] = t]
          /\ v_ptr' = v_ptr /\ v_cap' = v_cap /\ v_size' = [v_size EXCEPT ![v] = m - 1]
      BY <1>0, <2>1, <2>3, <2>4
    <3> HIDE DEF p, c, m, s, xs
    <3> QED
      BY <3>1, HeldInPlace
  <2>6. SubSeq(t, 1, m - 1) = SubSeq(xs, 1, m - 1)
    <3>1. InOrder(s, c, m)
      BY <1>0, <2>3
    <3> HIDE DEF s, c, m, xs, p
    <3>2. InOrder(t, c, m - 1)
      BY <1>0, <2>1, <2>2, <3>1, OnePut
    <3>3. /\ SubSeq(t, 1, m - 1) \in [1..(m - 1) -> Value \cup {Moved}]
          /\ \A k \in 1..(m - 1) : SubSeq(t, 1, m - 1)[k] = t[k]
      BY <1>0, <2>3, <3>2, FirstSlots
    <3>4. \A k \in 1..(m - 1) : t[k] = xs[k]
      <4>1. \A k \in 1..(m - 1) : k \in DOMAIN s /\ k # m /\ k \in 1..m
        BY <1>0, <3>1 DEF InOrder
      <4> QED
        BY <1>s, <2>2, <2>3, <4>1
    <3>5. SubSeq(xs, 1, m - 1) = [k \in 1..(m - 1) |-> xs[k]]
      BY <1>0, <1>h, <2>1
    <3> QED
      BY <3>3, <3>4, <3>5
  <2>7. xs # <<>>
    BY <1>h, <2>1
  <2> QED
    BY <1>h, <2>5, <2>6, <2>7, ValuesNext
<1>3. CASE Vector!Clear(v)
  <2>1. /\ living' = living /\ v_ptr' = v_ptr /\ v_cap' = v_cap
        /\ heap' = IF p = Null THEN heap ELSE [heap EXCEPT ![p] = Vector!DestroyFirst(@, m)]
        /\ v_size' = [v_size EXCEPT ![v] = 0]
    BY <1>3 DEF Vector!Clear
  <2>2. CASE p = Null
    <3>1. v_size' = v_size /\ heap' = heap
      BY <1>0, <2>1, <2>2
    <3> QED
      BY <2>1, <3>1, HeldUntouched
  <2>3. CASE p # Null
    <3>1. PICK t : t = Vector!DestroyFirst(s, m)
      OBVIOUS
    <3>2. heap' = [heap EXCEPT ![p] = t]
      BY <1>0, <2>1, <2>3, <3>1
    <3>3. Held' = [Held EXCEPT ![v] = SubSeq(t, 1, 0)]
      <4>1. /\ v \in living /\ living' = living /\ v_ptr[v] # Null
            /\ heap' = [heap EXCEPT ![v_ptr[v]] = t]
            /\ v_ptr' = v_ptr /\ v_cap' = v_cap /\ v_size' = [v_size EXCEPT ![v] = 0]
        BY <1>0, <2>1, <2>3, <3>2
      <4> HIDE DEF p, c, m, s, xs
      <4> QED
        BY <4>1, HeldInPlace
    <3>4. SubSeq(t, 1, 0) = <<>>
      OBVIOUS
    <3> QED
      BY <1>h, <3>3, <3>4, ValuesNext
  <2> QED
    BY <2>2, <2>3
<1>4. CASE Vector!ReAllocThrows(v)
  BY <1>4 DEF Vector!ReAllocThrows
<1>5. ASSUME NEW x \in Value, NEW k \in 1..MaxSize, Vector!Assign(v, k, x)
      PROVE  Vector!Values!Next \/ Held' = Held
  <2>1. /\ k \in 1..m /\ living' = living /\ v_ptr' = v_ptr /\ v_cap' = v_cap /\ v_size' = v_size
        /\ heap' = [heap EXCEPT ![p][k] = x]
    BY <1>5 DEF Vector!Assign
  <2>2. PICK t : t = [s EXCEPT ![k] = x]
    OBVIOUS
  <2>3. p # Null
    BY <1>0, <2>1
  <2>4. heap' = [heap EXCEPT ![p] = t] /\ v_size' = [v_size EXCEPT ![v] = m]
    BY <1>0, <2>1, <2>2
  <2>5. Held' = [Held EXCEPT ![v] = SubSeq(t, 1, m)]
    <3>1. /\ v \in living /\ living' = living /\ v_ptr[v] # Null
          /\ heap' = [heap EXCEPT ![v_ptr[v]] = t]
          /\ v_ptr' = v_ptr /\ v_cap' = v_cap /\ v_size' = [v_size EXCEPT ![v] = m]
      BY <1>0, <2>1, <2>3, <2>4
    <3> HIDE DEF p, c, m, s, xs
    <3> QED
      BY <3>1, HeldInPlace
  <2>6. SubSeq(t, 1, m) = [xs EXCEPT ![k] = x]
    <3>1. InOrder(s, c, m)
      BY <1>0, <2>3
    <3> HIDE DEF s, c, m, xs, p
    <3>2. InOrder(t, c, m)
      BY <1>0, <2>1, <2>2, <3>1, OnePut
    <3>3. /\ SubSeq(t, 1, m) \in [1..m -> Value \cup {Moved}]
          /\ \A i \in 1..m : SubSeq(t, 1, m)[i] = t[i]
      BY <1>0, <3>2, FirstSlots
    <3>4. \A i \in 1..m : i \in DOMAIN s
      BY <1>0, <3>1 DEF InOrder
    <3>5. \A i \in 1..m : t[i] = [xs EXCEPT ![k] = x][i]
      BY <1>s, <1>x, <2>1, <2>2, <2>3, <3>4
    <3>6. [xs EXCEPT ![k] = x] \in [1..m -> Value \cup {Moved}]
      BY <1>x, <2>1
    <3> QED
      BY <3>3, <3>5, <3>6
  <2>7. k \in DOMAIN xs
    BY <1>x, <2>1
  <2> QED
    BY <1>h, <2>5, <2>6, <2>7, ValuesNext
<1>6. ASSUME NEW x \in Value, Vector!PushBack(v, x)
      PROVE  Vector!Values!Next \/ Held' = Held
  <2>1. living' = living
    BY <1>6 DEF Vector!PushBack
  <2>2. PICK r \in Vector!Room(v) :
          \/ /\ heap' = [r.heap EXCEPT ![r.ptr][m + 1] = Vector!Constructed(@, x)]
             /\ Vector!SetFields(v, r.ptr, m + 1, r.cap)
          \/ /\ heap' = r.heap
             /\ Vector!SetFields(v, r.ptr, m, r.cap)
    BY <1>6 DEF Vector!PushBack
  <2> DEFINE q == r.ptr  d == r.cap  h == r.heap
  <2>3. /\ q # Null /\ q \notin Others(v)
        /\ d \in Nat /\ m < d
        /\ h \in [Others(v) \cup {q} -> Seq(Slot)]
        /\ InOrder(h[q], d, m)
        /\ \A a \in Others(v) : h[a] = heap[a]
    BY <1>0, RoomFor
  <2>4. \A k \in 1..m : h[q][k] = xs[k]
    BY <1>0, <1>h, RoomHolds
  <2> HIDE DEF q, d, h, m, c, p, s, xs
  <2>5. PICK z : z = h[q]
    OBVIOUS
  <2>6. InOrder(z, d, m) /\ living' = living \cup {v}
    BY <1>0, <2>1, <2>3, <2>5
  <2>7. CASE heap' = h /\ Vector!SetFields(v, q, m, d)
    <3>1. SubSeq(z, 1, m) = xs
      <4>1. PICK y : y = SubSeq(z, 1, m)
        OBVIOUS
      <4>2. y \in [1..m -> Value \cup {Moved}] /\ \A k \in 1..m : y[k] = z[k]
        BY <1>0, <2>3, <2>6, <4>1, FirstSlots
      <4>3. \A k \in 1..m : y[k] = xs[k]
        BY <2>4, <2>5, <4>2
      <4>4. y = xs
        <5>1. y = [k \in 1..m |-> y[k]] /\ xs = [k \in 1..m |-> xs[k]]
          BY <1>x, <4>2
        <5> QED
          BY <4>3, <5>1
      <4> QED
        BY <4>1, <4>4
    <3>2. xs = IF q = Null THEN <<>> ELSE SubSeq(heap'[q], 1, m)
      BY <2>3, <2>5, <2>7, <3>1
    <3>3. Held' = [Held EXCEPT ![v] = xs]
      <4>1. \A a \in Others(v) : heap'[a] = heap[a]
        BY <2>3, <2>7
      <4> QED
        BY <2>6, <2>7, <3>2, <4>1, HeldSet
    <3> QED
      BY <3>3 DEF xs, Held
  <2>8. CASE /\ heap' = [h EXCEPT ![q][m + 1] = Vector!Constructed(@, x)]
             /\ Vector!SetFields(v, q, m + 1, d)
    <3>1. PICK t : t = [z EXCEPT ![m + 1] = Vector!Constructed(@, x)]
      OBVIOUS
    <3>2. InOrder(t, d, m + 1)
      BY <1>0, <2>3, <2>6, <3>1, OnePut
    <3>3. heap' = [h EXCEPT ![q] = t]
      BY <2>5, <2>8, <3>1
    <3>4. heap'[q] = t /\ \A a \in Others(v) : heap'[a] = heap[a]
      BY <2>3, <3>3
    <3>5. Held' = [Held EXCEPT ![v] = SubSeq(t, 1, m + 1)]
      <4>1. PICK x1, m1 : m1 = m + 1 /\ x1 = SubSeq(t, 1, m + 1)
        OBVIOUS
      <4>2. x1 = IF q = Null THEN <<>> ELSE SubSeq(heap'[q], 1, m1)
        BY <2>3, <3>4, <4>1
      <4>3. Vector!SetFields(v, q, m1, d)
        BY <2>8, <4>1
      <4>4. \A a \in Others(v) : heap'[a] = heap[a]
        BY <3>4
      <4>5. Held' = [Held EXCEPT ![v] = x1]
        BY <2>6, <4>2, <4>3, <4>4, HeldSet
      <4> QED
        BY <4>1, <4>5
    <3>6. SubSeq(t, 1, m + 1) = Append(xs, x)
      <4>1. /\ SubSeq(t, 1, m + 1) \in [1..(m + 1) -> Value \cup {Moved}]
            /\ \A k \in 1..(m + 1) : SubSeq(t, 1, m + 1)[k] = t[k]
        BY <1>0, <2>3, <3>2, FirstSlots
      <4>2. z \in Seq(Slot) /\ Len(z) = d /\ z[m + 1] = Raw
        BY <1>0, <2>3, <2>6 DEF InOrder
      <4>3. t[m + 1] = x /\ \A k \in 1..m : t[k] = z[k]
        BY <1>0, <2>3, <3>1, <4>2 DEF Vector!Constructed
      <4>4. \A k \in 1..m : SubSeq(t, 1, m + 1)[k] = xs[k]
        BY <1>0, <2>4, <2>5, <4>1, <4>3
      <4>5. SubSeq(t, 1, m + 1)[m + 1] = x /\ x \in Value \cup {Moved}
        BY <1>0, <4>1, <4>3
      <4> QED
        BY <1>0, <1>x, <4>1, <4>4, <4>5, SeqAppend
    <3> QED
      BY <1>h, <3>5, <3>6, ValuesNext DEF xs
  <2> QED
    BY <2>2, <2>7, <2>8 DEF q, d, h
<1> QED
  BY <1>1, <1>2, <1>3, <1>4, <1>5, <1>6

\* Every call acts on the sequences, or leaves them as they are.
LEMMA ValuesStep == VectorInv /\ [Vector!Next]_(Vector!vars) => Vector!Values!Next \/ Held' = Held
<1> SUFFICES ASSUME VectorInv, [Vector!Next]_(Vector!vars)
             PROVE  Vector!Values!Next \/ Held' = Held
  OBVIOUS
<1>1. move_throws' = move_throws
  BY DEF Vector!Next, Vector!vars
<1>2. CASE move_throws
  BY <1>1, <1>2 DEF Held
<1>3. CASE ~move_throws
  <2>1. CASE Vector!BadAlloc
    BY <1>1, <2>1, HeldUntouched DEF Vector!BadAlloc
  <2>2. CASE UNCHANGED Vector!vars
    BY <2>2, HeldUntouched DEF Vector!vars
  <2>3. ASSUME NEW v \in Vec,
               \/ Vector!Default(v) \/ Vector!Destroy(v) \/ Vector!PopBack(v) \/ Vector!Clear(v)
               \/ Vector!ReAllocThrows(v)
               \/ \E x \in Value :
                    \/ Vector!PushBack(v, x)
                    \/ \E m \in 0..MaxSize : Vector!Fill(v, m, x)
                    \/ \E k \in 1..MaxSize : Vector!Assign(v, k, x)
               \/ \E w \in Vec : \/ Vector!CopyConstruct(v, w) \/ Vector!CopyAssign(v, w)
                                 \/ Vector!MoveConstruct(v, w) \/ Vector!MoveAssign(v, w)
        PROVE  Vector!Values!Next \/ Held' = Held
    BY <1>1, <1>3, <2>3, ValuesConstruct, ValuesAssign, ValuesMutate
  <2> QED
    BY <2>1, <2>2, <2>3 DEF Vector!Next
<1> QED
  BY <1>2, <1>3

\* No vector lives at the start.
LEMMA ValuesInit == Vector!Init => Vector!Values!Init
BY DEF Vector!Init, Vector!Values!Init

-----------------------------------------------------------------------------
(* Pool. *)

\* l lists the m chunks of the free list, link by link.
IsFreeList(l, m) ==
  /\ m \in Nat /\ l \in [1..m -> Pool!Chunk]
  /\ \A k, j \in 1..m : l[k] = l[j] => k = j
  /\ free_list = IF m = 0 THEN Null ELSE l[1]
  /\ \A k \in 1..m : next[l[k]] = IF k = m THEN Null ELSE l[k + 1]
  /\ {l[k] : k \in 1..m} = Pool!Chunk \ (used \cup lost)

\* Every chunk is on the free list, once, or constructed over.
PoolInv ==
  /\ used \subseteq Pool!Chunk /\ lost \subseteq Pool!Chunk /\ used \cap lost = {}
  /\ next \in [Pool!Chunk -> Pool!Chunk \cup {Null, Object}]
  /\ \A c \in Pool!Chunk : next[c] = Object <=> c \in used \cup lost
  /\ \E m, l : IsFreeList(l, m)

\* What is known of the pool.
LEMMA PoolFacts == /\ n \in Nat \ {0} /\ Pool!Chunk = 1..n
                   /\ Null \notin Pool!Chunk /\ Object \notin Pool!Chunk /\ Null # Object
BY Assumptions DEF Pool!PoolAssumption, Pool!Chunk

\* The constructor links the chunks in their order.
LEMMA PoolInit == Pool!Init => PoolInv
<1> SUFFICES ASSUME Pool!Init PROVE PoolInv
  OBVIOUS
<1> USE PoolFacts
<1> DEFINE l == [k \in 1..n |-> k]
<1>1. /\ free_list = 1 /\ used = {} /\ lost = {}
      /\ next = [c \in 1..n |-> IF c = n THEN Null ELSE c + 1]
  BY DEF Pool!Init
<1>2. next \in [1..n -> (1..n) \cup {Null, Object}]
  BY <1>1
<1>3. \A c \in 1..n : next[c] # Object
  BY <1>1
<1>4. l \in [1..n -> Pool!Chunk] /\ \A k \in 1..n : l[k] = k
  OBVIOUS
<1> HIDE DEF l
<1>5. {l[k] : k \in 1..n} = Pool!Chunk \ (used \cup lost)
  BY <1>1, <1>4
<1>6. \A k \in 1..n : next[l[k]] = IF k = n THEN Null ELSE l[k + 1]
  BY <1>1, <1>4
<1>7. IsFreeList(l, n)
  BY <1>1, <1>4, <1>5, <1>6 DEF IsFreeList
<1> QED
  BY <1>1, <1>2, <1>3, <1>4, <1>7 DEF PoolInv

\* Taking the first chunk leaves the rest of the list.
LEMMA TakeStep ==
  ASSUME PoolInv, Pool!Take,
         \/ used' = used \cup {free_list} /\ lost' = lost
         \/ used' = used /\ lost' = lost \cup {free_list}
  PROVE  PoolInv'
<1> USE PoolFacts
<1>1. PICK m, l : IsFreeList(l, m)
  BY DEF PoolInv
<1>2. /\ free_list # Null /\ free_list' = next[free_list]
      /\ next' = [next EXCEPT ![free_list] = Object]
  BY DEF Pool!Take
<1>3. /\ m \in Nat /\ l \in [1..m -> Pool!Chunk]
      /\ \A k, j \in 1..m : l[k] = l[j] => k = j
      /\ m > 0 /\ 1 \in 1..m /\ free_list = l[1]
      /\ \A k \in 1..m : next[l[k]] = IF k = m THEN Null ELSE l[k + 1]
      /\ {l[k] : k \in 1..m} = Pool!Chunk \ (used \cup lost)
  BY <1>1, <1>2 DEF IsFreeList
<1>4. free_list \in Pool!Chunk \ (used \cup lost)
  BY <1>3
<1>5. /\ used' \subseteq Pool!Chunk /\ lost' \subseteq Pool!Chunk /\ used' \cap lost' = {}
      /\ used' \cup lost' = used \cup lost \cup {free_list}
  BY <1>4 DEF PoolInv
<1>6. next' \in [Pool!Chunk -> Pool!Chunk \cup {Null, Object}]
      /\ next'[free_list] = Object
      /\ \A c \in Pool!Chunk : c # free_list => next'[c] = next[c]
  BY <1>2, <1>4 DEF PoolInv
<1>7. \A c \in Pool!Chunk : next'[c] = Object <=> c \in used' \cup lost'
  BY <1>5, <1>6 DEF PoolInv
<1> DEFINE r == [k \in 1..(m - 1) |-> l[k + 1]]
<1>8. m - 1 \in Nat /\ \A k \in 1..(m - 1) : k + 1 \in 1..m /\ k \in 1..m
  BY <1>3
<1>9. r \in [1..(m - 1) -> Pool!Chunk] /\ \A k \in 1..(m - 1) : r[k] = l[k + 1]
  BY <1>3, <1>8
<1> HIDE DEF r
<1>10. \A k, j \in 1..(m - 1) : r[k] = r[j] => k = j
  BY <1>3, <1>8, <1>9
<1>11. free_list' = IF m - 1 = 0 THEN Null ELSE r[1]
  BY <1>2, <1>3, <1>9
<1>12. \A k \in 1..(m - 1) : r[k] # free_list
  BY <1>3, <1>8, <1>9
<1>13. \A k \in 1..(m - 1) : next'[r[k]] = IF k = m - 1 THEN Null ELSE r[k + 1]
  <2> SUFFICES ASSUME NEW k \in 1..(m - 1)
               PROVE  next'[r[k]] = IF k = m - 1 THEN Null ELSE r[k + 1]
    OBVIOUS
  <2>1. r[k] \in Pool!Chunk /\ r[k] # free_list /\ k + 1 \in 1..m /\ r[k] = l[k + 1]
    BY <1>8, <1>9, <1>12
  <2>2. next'[r[k]] = IF k + 1 = m THEN Null ELSE l[(k + 1) + 1]
    BY <1>3, <1>6, <2>1
  <2>3. k # m - 1 => k + 1 \in 1..(m - 1)
    BY <1>3
  <2> QED
    BY <1>3, <1>9, <2>2, <2>3
<1>14. {r[k] : k \in 1..(m - 1)} = {l[k] : k \in 1..m} \ {free_list}
  <2>1. \A k \in 1..m : k = 1 \/ (k - 1 \in 1..(m - 1) /\ r[k - 1] = l[k])
    BY <1>3, <1>9
  <2> QED
    BY SMTT(20), <1>3, <1>8, <1>9, <1>12, <2>1
<1>15. {r[k] : k \in 1..(m - 1)} = Pool!Chunk \ (used' \cup lost')
  BY <1>3, <1>5, <1>14
<1>16. /\ r \in [1..(m - 1) -> Pool!Chunk]
       /\ \A k, j \in 1..(m - 1) : r[k] = r[j] => k = j
       /\ free_list' = IF m - 1 = 0 THEN Null ELSE r[1]
       /\ \A k \in 1..(m - 1) : next'[r[k]] = IF k = m - 1 THEN Null ELSE r[k + 1]
       /\ {r[k] : k \in 1..(m - 1)} = Pool!Chunk \ (used' \cup lost')
  BY <1>9, <1>10, <1>11, <1>13, <1>15
<1>17. IsFreeList(r, m - 1)'
  BY <1>8, <1>16 DEF IsFreeList
<1> QED
  BY <1>5, <1>6, <1>7, <1>17 DEF PoolInv

\* Giving a chunk back puts it before the list.
LEMMA DeallocateStep ==
  ASSUME PoolInv, NEW c \in Pool!Chunk, Pool!Deallocate(c)
  PROVE  PoolInv'
<1> USE PoolFacts
<1>1. PICK m, l : IsFreeList(l, m)
  BY DEF PoolInv
<1>2. /\ c \in used /\ next' = [next EXCEPT ![c] = free_list] /\ free_list' = c
      /\ used' = used \ {c} /\ lost' = lost
  BY DEF Pool!Deallocate
<1>3. /\ m \in Nat /\ l \in [1..m -> Pool!Chunk]
      /\ \A k, j \in 1..m : l[k] = l[j] => k = j
      /\ free_list = IF m = 0 THEN Null ELSE l[1]
      /\ \A k \in 1..m : next[l[k]] = IF k = m THEN Null ELSE l[k + 1]
      /\ {l[k] : k \in 1..m} = Pool!Chunk \ (used \cup lost)
  BY <1>1 DEF IsFreeList
<1>4. /\ c \notin lost /\ free_list # c /\ free_list \in Pool!Chunk \cup {Null}
      /\ \A k \in 1..m : l[k] # c
  BY <1>2, <1>3 DEF PoolInv
<1>5. /\ used' \subseteq Pool!Chunk /\ lost' \subseteq Pool!Chunk /\ used' \cap lost' = {}
      /\ Pool!Chunk \ (used' \cup lost') = (Pool!Chunk \ (used \cup lost)) \cup {c}
  BY <1>2, <1>4 DEF PoolInv
<1>6. next' \in [Pool!Chunk -> Pool!Chunk \cup {Null, Object}]
      /\ next'[c] = free_list
      /\ \A d \in Pool!Chunk : d # c => next'[d] = next[d]
  BY <1>2, <1>4 DEF PoolInv
<1>7. \A d \in Pool!Chunk : next'[d] = Object <=> d \in used' \cup lost'
  BY <1>2, <1>4, <1>5, <1>6 DEF PoolInv
<1> DEFINE r == [k \in 1..(m + 1) |-> IF k = 1 THEN c ELSE l[k - 1]]
<1>8. m + 1 \in Nat /\ \A k \in 1..(m + 1) : k # 1 => k - 1 \in 1..m
  BY <1>3
<1>9. /\ r \in [1..(m + 1) -> Pool!Chunk]
      /\ \A k \in 1..(m + 1) : r[k] = IF k = 1 THEN c ELSE l[k - 1]
  BY <1>3, <1>8
<1> HIDE DEF r
<1>10. \A k, j \in 1..(m + 1) : r[k] = r[j] => k = j
  BY <1>3, <1>4, <1>8, <1>9
<1>11. free_list' = IF m + 1 = 0 THEN Null ELSE r[1]
  BY <1>2, <1>3, <1>9
<1>12. \A k \in 1..(m + 1) : next'[r[k]] = IF k = m + 1 THEN Null ELSE r[k + 1]
  <2> SUFFICES ASSUME NEW k \in 1..(m + 1)
               PROVE  next'[r[k]] = IF k = m + 1 THEN Null ELSE r[k + 1]
    OBVIOUS
  <2>1. CASE k = 1
    BY <1>3, <1>6, <1>9, <2>1
  <2>2. CASE k # 1
    <3>1. r[k] \in Pool!Chunk /\ r[k] # c /\ k - 1 \in 1..m /\ r[k] = l[k - 1]
      BY <1>3, <1>4, <1>8, <1>9, <2>2
    <3>2. next'[r[k]] = IF k - 1 = m THEN Null ELSE l[(k - 1) + 1]
      BY ZenonT(30), <1>3, <1>6, <3>1
    <3>3. k # m + 1 => k + 1 \in 1..(m + 1) /\ (k + 1) - 1 = k /\ (k - 1) + 1 = k
      BY <1>3
    <3> QED
      BY <1>3, <1>9, <3>2, <3>3
  <2> QED
    BY <2>1, <2>2
<1>13. {r[k] : k \in 1..(m + 1)} = {l[k] : k \in 1..m} \cup {c}
  <2>1. \A k \in 1..m : k + 1 \in 1..(m + 1) /\ r[k + 1] = l[k]
    BY <1>3, <1>9
  <2>2. 1 \in 1..(m + 1) /\ r[1] = c
    BY <1>3, <1>9
  <2> QED
    BY <1>8, <1>9, <2>1, <2>2
<1>14. /\ r \in [1..(m + 1) -> Pool!Chunk]
       /\ \A k, j \in 1..(m + 1) : r[k] = r[j] => k = j
       /\ free_list' = IF m + 1 = 0 THEN Null ELSE r[1]
       /\ \A k \in 1..(m + 1) : next'[r[k]] = IF k = m + 1 THEN Null ELSE r[k + 1]
       /\ {r[k] : k \in 1..(m + 1)} = Pool!Chunk \ (used' \cup lost')
  BY <1>3, <1>5, <1>9, <1>10, <1>11, <1>12, <1>13
<1>15. IsFreeList(r, m + 1)'
  BY <1>8, <1>14 DEF IsFreeList
<1> QED
  BY <1>5, <1>6, <1>7, <1>15 DEF PoolInv

\* Every call keeps the list.
LEMMA PoolStep == PoolInv /\ [Pool!Next]_(Pool!vars) => PoolInv'
<1> SUFFICES ASSUME PoolInv, [Pool!Next]_(Pool!vars) PROVE PoolInv'
  OBVIOUS
<1>1. CASE Pool!Allocate
  BY <1>1, TakeStep DEF Pool!Allocate
<1>2. CASE Pool!AllocateThrows
  BY <1>2, TakeStep DEF Pool!AllocateThrows
<1>3. ASSUME NEW c \in Pool!Chunk, Pool!Deallocate(c) PROVE PoolInv'
  BY <1>3, DeallocateStep
<1>4. CASE UNCHANGED Pool!vars
  <2>1. PICK m, l : IsFreeList(l, m)
    BY DEF PoolInv
  <2>2. IsFreeList(l, m)'
    BY <1>4, <2>1 DEF Pool!vars, IsFreeList
  <2> QED
    BY <1>4, <2>2 DEF Pool!vars, PoolInv
<1> QED
  BY <1>1, <1>2, <1>3, <1>4 DEF Pool!Next

\* A walk along the list of m chunks is at the k-th after k links, and at its end after m.
LEMMA WalkIs ==
  ASSUME NEW m, NEW l, IsFreeList(l, m), NEW k \in Nat
  PROVE  Pool!Walk[k] = IF k < m THEN l[k + 1] ELSE Null
<1> USE PoolFacts
<1> DEFINE W == [q \in Nat |-> IF q < m THEN l[q + 1] ELSE Null]
           T == {q \in Nat : Pool!Walk[q] = W[q]}
<1>1. /\ m \in Nat /\ l \in [1..m -> Pool!Chunk]
      /\ free_list = IF m = 0 THEN Null ELSE l[1]
      /\ \A q \in 1..m : next[l[q]] = IF q = m THEN Null ELSE l[q + 1]
  BY DEF IsFreeList
<1>2. /\ W[0] = free_list
      /\ \A q \in Nat : W[q + 1] = IF W[q] \in Pool!Chunk THEN next[W[q]] ELSE Null
  <2>1. W[0] = free_list
    BY <1>1
  <2> SUFFICES ASSUME NEW q \in Nat
               PROVE  W[q + 1] = IF W[q] \in Pool!Chunk THEN next[W[q]] ELSE Null
    BY <2>1
  <2>2. CASE q < m
    <3>1. q + 1 \in 1..m /\ W[q] = l[q + 1] /\ l[q + 1] \in Pool!Chunk
      BY <1>1, <2>2
    <3>2. next[W[q]] = IF q + 1 = m THEN Null ELSE l[(q + 1) + 1]
      BY <1>1, <3>1
    <3>3. W[q + 1] = IF q + 1 = m THEN Null ELSE l[(q + 1) + 1]
      BY <1>1, <2>2
    <3> QED
      BY <3>1, <3>2, <3>3
  <2>3. CASE ~(q < m)
    BY <1>1, <2>3
  <2> QED
    BY <2>2, <2>3
<1>3. W = [q \in Nat |-> IF q = 0 THEN free_list
                         ELSE IF W[q - 1] \in Pool!Chunk THEN next[W[q - 1]] ELSE Null]
  <2>1. \A q \in Nat : q # 0 => q - 1 \in Nat /\ (q - 1) + 1 = q
    OBVIOUS
  <2>2. \A q \in Nat : W[q] = IF q = 0 THEN free_list
                              ELSE IF W[q - 1] \in Pool!Chunk THEN next[W[q - 1]] ELSE Null
    <3> SUFFICES ASSUME NEW q \in Nat
                 PROVE  W[q] = IF q = 0 THEN free_list
                               ELSE IF W[q - 1] \in Pool!Chunk THEN next[W[q - 1]] ELSE Null
      OBVIOUS
    <3> HIDE DEF W
    <3> QED
      BY <1>2, <2>1
  <2> QED
    BY <2>2
<1>4. Pool!Walk = [q \in Nat |-> IF q = 0 THEN free_list
                         ELSE IF Pool!Walk[q - 1] \in Pool!Chunk THEN next[Pool!Walk[q - 1]] ELSE Null]
  BY <1>3 DEF Pool!Walk
<1> HIDE DEF W
<1>5. 0 \in T
  BY <1>2, <1>4
<1>6. \A q \in Nat : q \in T => q + 1 \in T
  <2> SUFFICES ASSUME NEW q \in Nat, q \in T PROVE q + 1 \in T
    OBVIOUS
  <2>1. Pool!Walk[q + 1] = IF Pool!Walk[q] \in Pool!Chunk THEN next[Pool!Walk[q]] ELSE Null
    <3>1. q + 1 \in Nat /\ q + 1 # 0 /\ (q + 1) - 1 = q
      OBVIOUS
    <3> QED
      BY <1>4, <3>1
  <2>2. Pool!Walk[q] = W[q] /\ q + 1 \in Nat
    OBVIOUS
  <2>3. Pool!Walk[q + 1] = W[q + 1]
    BY <1>2, <2>1, <2>2
  <2> QED
    BY <2>2, <2>3
<1>7. k \in T
  <2> HIDE DEF T
  <2> QED
    BY <1>5, <1>6, SetInduction
<1> QED
  BY <1>7 DEF W

\* The list is as long as the pool at most, so the walk comes to its end.
LEMMA PoolChunks == PoolInv => EachChunkOnce
<1> SUFFICES ASSUME PoolInv PROVE Pool!EachChunkOnce
  BY DEF EachChunkOnce
<1> USE PoolFacts
<1>1. PICK m, l : IsFreeList(l, m)
  BY DEF PoolInv
<1>2. /\ m \in Nat /\ l \in [1..m -> Pool!Chunk]
      /\ \A k, j \in 1..m : l[k] = l[j] => k = j
      /\ {l[k] : k \in 1..m} = Pool!Chunk \ (used \cup lost)
  BY <1>1 DEF IsFreeList
<1>3. m <= n
  <2>1. IsFiniteSet(1..m) /\ Cardinality(1..m) = m /\ IsFiniteSet(1..n) /\ Cardinality(1..n) = n
    BY <1>2, FS_Interval
  <2>2. l \in [1..m -> 1..n]
    BY <1>2
  <2> QED
    BY <1>2, <2>1, <2>2, FS_PigeonHole
<1>4. \A k \in Nat : Pool!Walk[k] = IF k < m THEN l[k + 1] ELSE Null
  BY <1>1, WalkIs
<1>5. Pool!Walk[n] = Null
  BY <1>2, <1>3, <1>4
<1>6. Pool!Free = {l[k] : k \in 1..m}
  <2>1. \A k \in 1..m : k - 1 \in 0..(n - 1) /\ Pool!Walk[k - 1] = l[k] /\ l[k] # Null
    BY <1>2, <1>3, <1>4
  <2>2. \A k \in 0..(n - 1) : Pool!Walk[k] = Null \/ (k + 1 \in 1..m /\ Pool!Walk[k] = l[k + 1])
    BY <1>2, <1>4
  <2> QED
    BY <2>1, <2>2 DEF Pool!Free
<1> QED
  BY <1>2, <1>5, <1>6 DEF PoolInv, Pool!EachChunkOnce

-----------------------------------------------------------------------------
(* The program. *)

\* The inductive invariants of all components.
IInv ==
  /\ PlacesOfTheirOwn
  /\ PoolInv
  /\ VectorInv
  /\ StringInv
  /\ BubbleInv
  /\ UpperInv
  /\ MoveInv

\* A step of the program is, for each component, a step of it or none.
LEMMA Steps ==
  [Next]_vars => /\ [Arena!Next]_(Arena!vars)
                 /\ [Pool!Next]_(Pool!vars)
                 /\ [Vector!Next]_(Vector!vars)
                 /\ [String!Next]_(String!vars)
                 /\ [Bubble!Next]_(Bubble!vars)
                 /\ [Upper!Next]_(Upper!vars)
                 /\ [Move!Next]_(Move!vars)
<1> SUFFICES ASSUME [Next]_vars
             PROVE  /\ [Arena!Next]_(Arena!vars)
                    /\ [Pool!Next]_(Pool!vars)
                    /\ [Vector!Next]_(Vector!vars)
                    /\ [String!Next]_(String!vars)
                    /\ [Bubble!Next]_(Bubble!vars)
                    /\ [Upper!Next]_(Upper!vars)
                    /\ [Move!Next]_(Move!vars)
  OBVIOUS
<1> USE DEF Rest, arenaVars, poolVars, vectorVars, stringVars, bubbleVars, upperVars, moveVars,
            Arena!vars, Pool!vars, Vector!vars, String!vars, Bubble!vars, Upper!vars, Move!vars
<1>1. CASE UNCHANGED vars
  BY <1>1 DEF vars
<1>2. CASE Next
  BY <1>2 DEF Next
<1> QED
  BY <1>1, <1>2

\* Every behaviour keeps all of them.
THEOREM InvCorrect == Spec => []IInv
<1>1. Init => IInv
  BY PlacesInit, PoolInit, VectorInit, StringInit, BubbleInit, UpperInit, MoveInit DEF Init, IInv
<1>2. IInv /\ [Next]_vars => IInv'
  <2> SUFFICES ASSUME IInv, [Next]_vars PROVE IInv'
    OBVIOUS
  <2> QED
    BY Steps, PlacesStep, PoolStep, VectorStep, StringStep, BubbleStep, UpperStep, MoveStep DEF IInv
<1> QED
  BY <1>1, <1>2, PTL DEF Spec

\* mempool: every object has an aligned place of its own inside the arena.
THEOREM PlacesCorrect == Spec => []PlacesOfTheirOwn
<1>1. IInv => PlacesOfTheirOwn
  BY DEF IInv
<1> QED
  BY <1>1, InvCorrect, PTL

\* Pool: however many chunks there are, each is free, with the caller or lost, once.
THEOREM ChunksCorrect == Spec => []EachChunkOnce
<1>1. IInv => EachChunkOnce
  BY PoolChunks DEF IInv
<1> QED
  BY <1>1, InvCorrect, PTL

\* vector: for all calls, those that throw included, no two vectors have a block in common,
\* a vector's block has objects exactly where its size says, and nothing is destroyed
\* twice, constructed over or freed alive.
THEOREM SlotsCorrect == Spec => []SlotsInOrder
<1>1. IInv => SlotsInOrder
  BY VectorSlots DEF IInv
<1> QED
  BY <1>1, InvCorrect, PTL

\* vector: a call that returns leaves no block without an owner, and one that throws at
\* most a block that it has itself allocated.
THEOREM NothingLostCorrect == Spec => NothingLost
<1>1. IInv /\ [Next]_vars =>
        [/\ ~thrown' => Vector!Orphans' \subseteq Vector!Orphans
         /\ Vector!Orphans' \cap DOMAIN heap \subseteq Vector!Orphans]_(Vector!vars)
  <2> SUFFICES ASSUME IInv, [Next]_vars
               PROVE  /\ ~thrown' => Vector!Orphans' \subseteq Vector!Orphans
                      /\ Vector!Orphans' \cap DOMAIN heap \subseteq Vector!Orphans
    OBVIOUS
  <2>1. VectorInv /\ [Vector!Next]_(Vector!vars)
    BY Steps DEF IInv
  <2> QED
    BY <2>1, VectorStep DEF Lossless, Blocks
<1> QED
  BY <1>1, InvCorrect, PTL DEF Spec, NothingLost, Vector!NothingLost

\* string: as long as nothing has been copied past the end of a buffer, texts of any
\* length survive copies and moves, on either side of SSO_LEN; strings moved from, and
\* those made by moving a short one with too small a length, are exempt.
THEOREM TextCorrect == Spec => []TextKept
<1>1. IInv => TextKept
  BY StringReads DEF IInv
<1> QED
  BY <1>1, InvCorrect, PTL

\* inbubsort: arrays of any length come back sorted, with the elements they had.
THEOREM SortsCorrect == Spec => []Sorts
<1>1. IInv => Sorts
  BY BubbleSorts DEF IInv
<1> QED
  BY <1>1, InvCorrect, PTL

\* The branchless search finds the upper bound in sorted arrays of any length.
THEOREM FindsCorrect == Spec => []Finds
<1>1. IInv => Finds
  BY UpperFinds DEF IInv
<1> QED
  BY <1>1, InvCorrect, PTL

\* memmove: for all ranges, however they overlap, the destination gets what the source had.
THEOREM MovesCorrect == Spec => []Moves
<1>1. IInv => Moves
  BY DEF IInv, MoveInv
<1> QED
  BY <1>1, InvCorrect, PTL

\* vector: every call acts on a sequence, or throws and has changed none, unless moving an
\* element may throw.
THEOREM SequencesCorrect == Spec => ImplementsSequences
<1>1. Init => Vector!Values!Init
  BY ValuesInit DEF Init
<1>2. IInv /\ [Next]_vars =>
        [Vector!Values!Next]_[v \in Vec |-> IF v \in living /\ ~move_throws
                                           THEN Vector!Contents(v) ELSE Dead]
  <2> SUFFICES ASSUME IInv, [Next]_vars PROVE Vector!Values!Next \/ Held' = Held
    BY DEF Held
  <2> QED
    BY Steps, ValuesStep DEF IInv
<1> QED
  BY <1>1, <1>2, InvCorrect, PTL DEF Spec, ImplementsSequences, Vector!ImplementsSequences,
    Vector!Values!Spec
=============================================================================
