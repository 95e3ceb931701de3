---------------------------- MODULE Threads_proofs ----------------------------
(***************************************************************************)
(* Proofs about the components of Threads.                                 *)
(*                                                                         *)
(* The components share no variable and a step is one of one component, so *)
(* each has an inductive invariant of its own (SpscInv, QueueInv, the four *)
(* of the pool, StackInv, PetersonInv, TweakedInv, Prat!IInv, FairInv,     *)
(* RWInv) and that of the program, IInv, is their conjunction.             *)
(***************************************************************************)
EXTENDS Threads, Lemmas, FiniteSetTheorems, TLAPS

-----------------------------------------------------------------------------
(* SPSC: positions, the slots they have, and what the slots hold. *)

\* A SPSC queue has room for an object.
LEMMA SpscCapacity == capacity_ \in Nat /\ capacity_ > 0 /\ Raw \notin Value
BY Assumptions DEF Spsc!CapacityAssumption, Spsc!ValueAssumption

\* The slots of positions, by the lemmas about rings.
LEMMA IndexType == \A p \in Nat : Spsc!Index(p) \in 0..(capacity_ - 1)
BY SpscCapacity, RingRounds DEF Spsc!Index

\* Positions that are less than a round apart have slots of their own.
LEMMA IndexInjective ==
  \A p, q \in Nat : p < q /\ q < p + capacity_ => Spsc!Index(p) # Spsc!Index(q)
<1>1. capacity_ \in Nat \ {0}
  BY SpscCapacity
<1> QED
  BY <1>1, RingInjective DEF Spsc!Index

\* A round later comes the same slot.
LEMMA IndexPeriod == \A p \in Nat : Spsc!Index(p + capacity_) = Spsc!Index(p)
<1>1. capacity_ \in Nat \ {0}
  BY SpscCapacity
<1> QED
  BY <1>1, RingPeriod DEF Spsc!Index

\* Each slot is the slot of one of the next positions.
LEMMA IndexOnto ==
  \A p \in Nat, i \in 0..(capacity_ - 1) :
    \E q \in p..(p + capacity_ - 1) : Spsc!Index(q) = i
<1>1. capacity_ \in Nat \ {0}
  BY SpscCapacity
<1> QED
  BY <1>1, RingOnto DEF Spsc!Index

\* The slots hold objects exactly where head and tail say, seen over one whole round
\* of positions; a push that has found room still has it, a pop that has found an
\* object still has it.
SpscInv ==
  /\ head_ \in Nat /\ tail_ \in Nat /\ head_ <= tail_ /\ tail_ <= head_ + capacity_
  /\ ring_ \in [0..(capacity_ - 1) -> Value \cup {Raw}]
  /\ producer \in {"idle", "construct", "publish", "destructor", "destroyed"}
  /\ consumer \in {"idle", "move", "destroy", "release", "destructor"}
  /\ producer \in {"construct", "publish"} => tail_ < head_ + capacity_ /\ val \in Value
  /\ consumer \in {"move", "destroy", "release"} => head_ < tail_
  /\ consumer = "destructor" <=> producer \in {"destructor", "destroyed"}
  /\ producer = "destroyed" => tail_ = head_
  /\ \A p \in Nat : head_ <= p /\ p < head_ + capacity_ =>
       (ring_[Spsc!Index(p)] # Raw <=>
          \/ p < tail_ /\ ~(consumer = "release" /\ p = head_)
          \/ p = tail_ /\ producer = "publish")

\* The constructor: no position is live and every slot is raw.
LEMMA SpscInit == Spsc!Init => SpscInv
BY SpscCapacity, IndexType DEF Spsc!Init, SpscInv

\* Each step of push, pop and the destructor keeps the invariant.
LEMMA SpscStep == SpscInv /\ [Spsc!Next]_(Spsc!vars) => SpscInv'
<1> SUFFICES ASSUME SpscInv, [Spsc!Next]_(Spsc!vars) PROVE SpscInv'
  OBVIOUS
<1> USE SpscCapacity, IndexType DEF SpscInv
<1>1. ASSUME NEW v \in Value, Spsc!PushCall(v) PROVE SpscInv'
  <2>1. producer' \in {"idle", "construct"} /\ (producer' = "construct" => tail_ < head_ + capacity_)
    BY <1>1 DEF Spsc!PushCall, Spsc!LoadHead
  <2> QED
    BY <1>1, <2>1 DEF Spsc!PushCall
<1>2. ASSUME Spsc!PushConstruct PROVE SpscInv'
  <2>1. \A p \in Nat : head_ <= p /\ p < head_ + capacity_ /\ p # tail_ =>
          Spsc!Index(p) # Spsc!Index(tail_)
    BY <1>2, IndexInjective DEF Spsc!PushConstruct
  <2> QED
    BY <1>2, <2>1 DEF Spsc!PushConstruct
<1>3. ASSUME Spsc!PushPublish PROVE SpscInv'
  BY <1>3 DEF Spsc!PushPublish
<1>4. ASSUME Spsc!PopCall PROVE SpscInv'
  BY <1>4 DEF Spsc!PopCall, Spsc!LoadTail
<1>5. ASSUME Spsc!PopMove PROVE SpscInv'
  BY <1>5 DEF Spsc!PopMove
<1>6. ASSUME Spsc!PopDestroy PROVE SpscInv'
  <2>1. \A p \in Nat : head_ < p /\ p < head_ + capacity_ =>
          Spsc!Index(p) # Spsc!Index(head_)
    BY IndexInjective
  <2> QED
    BY SMTT(20), <1>6, <2>1 DEF Spsc!PopDestroy
<1>7. ASSUME Spsc!PopRelease PROVE SpscInv'
  <2>1. Spsc!Index(head_ + capacity_) = Spsc!Index(head_)
    BY IndexPeriod
  <2>2. ring_[Spsc!Index(head_)] = Raw
    BY <1>7 DEF Spsc!PopRelease
  <2>3. /\ head_' = head_ + 1 /\ consumer' = "idle" /\ head_ < tail_ /\ consumer = "release"
        /\ UNCHANGED <<ring_, tail_, producer, val>>
    BY <1>7 DEF Spsc!PopRelease
  <2>4. ASSUME NEW p \in Nat, head_' <= p, p < head_' + capacity_
        PROVE  ring_[Spsc!Index(p)] # Raw <=> p < tail_ \/ (p = tail_ /\ producer = "publish")
    <3>1. CASE p = head_ + capacity_
      BY <2>1, <2>2, <2>3, <3>1
    <3>2. CASE p < head_ + capacity_
      BY <2>3, <2>4, <3>2
    <3> QED
      BY <2>3, <2>4, <3>1, <3>2
  <2> QED
    BY <2>3, <2>4
<1>8. ASSUME Spsc!DestructorCall PROVE SpscInv'
  BY <1>8 DEF Spsc!DestructorCall
<1>9. ASSUME Spsc!Destructor PROVE SpscInv'
  <2>1. CASE tail_ = head_
    BY <1>9, <2>1 DEF Spsc!Destructor
  <2>2. CASE tail_ # head_
    <3>1. \A p \in Nat : head_ < p /\ p < head_ + capacity_ =>
            Spsc!Index(p) # Spsc!Index(head_)
      BY IndexInjective
    <3>2. Spsc!Index(head_ + capacity_) = Spsc!Index(head_)
      BY IndexPeriod
    <3>3. /\ head_' = head_ + 1 /\ ring_' = [ring_ EXCEPT ![Spsc!Index(head_)] = Raw]
          /\ producer = "destructor" /\ consumer = "destructor"
          /\ UNCHANGED <<tail_, producer, consumer, val>>
      BY <1>9, <2>2 DEF Spsc!Destructor
    <3>4. ASSUME NEW p \in Nat, head_' <= p, p < head_' + capacity_
          PROVE  ring_'[Spsc!Index(p)] # Raw <=> p < tail_
      <4>1. CASE p = head_ + capacity_
        BY <3>2, <3>3, <4>1
      <4>2. CASE p < head_ + capacity_
        BY SMTT(20), <3>1, <3>3, <3>4, <4>2
      <4> QED
        BY <3>3, <3>4, <4>1, <4>2
    <3>5. ring_' \in [0..(capacity_ - 1) -> Value \cup {Raw}]
      BY <3>3
    <3> QED
      BY <2>2, <3>3, <3>4, <3>5
  <2> QED
    BY <2>1, <2>2
<1>10. CASE UNCHANGED Spsc!vars
  BY <1>10 DEF Spsc!vars
<1> QED
  BY <1>1, <1>2, <1>3, <1>4, <1>5, <1>6, <1>7, <1>8, <1>9, <1>10
  DEF Spsc!Next, Spsc!Push, Spsc!Pop

\* The invariant by positions says what SlotInv says by slots.
LEMMA SpscSlots == SpscInv => SlotInv
<1> SUFFICES ASSUME SpscInv PROVE SlotInv
  OBVIOUS
<1> USE SpscCapacity, IndexType DEF SpscInv
<1>1. /\ Spsc!Live \in SUBSET (head_..(head_ + capacity_ - 1))
      /\ \A p \in head_..(head_ + capacity_ - 1) :
           p \in Nat /\ (ring_[Spsc!Index(p)] # Raw <=> p \in Spsc!Live)
  BY DEF Spsc!Live
<1>2. ASSUME NEW p \in Spsc!Live, NEW q \in Spsc!Live, p # q
      PROVE  Spsc!Index(p) # Spsc!Index(q)
  <2>1. CASE p < q
    BY <1>1, <1>2, <2>1, IndexInjective
  <2>2. CASE q < p
    BY <1>1, <1>2, <2>2, IndexInjective
  <2> QED
    BY <1>1, <1>2, <2>1, <2>2
<1>3. \A i \in 0..(capacity_ - 1) :
        ring_[i] # Raw <=> \E p \in Spsc!Live : Spsc!Index(p) = i
  <2> SUFFICES ASSUME NEW i \in 0..(capacity_ - 1)
               PROVE  ring_[i] # Raw <=> \E p \in Spsc!Live : Spsc!Index(p) = i
    OBVIOUS
  <2>1. PICK p \in head_..(head_ + capacity_ - 1) : Spsc!Index(p) = i
    BY IndexOnto
  <2> QED
    BY <1>1, <2>1
<1>4. {i \in 0..(capacity_ - 1) : ring_[i] # Raw} = {Spsc!Index(p) : p \in Spsc!Live}
  BY <1>1, <1>3
<1>5. producer = "construct" => ring_[Spsc!Index(tail_)] = Raw
  OBVIOUS
<1>6. consumer \in {"move", "destroy"} => ring_[Spsc!Index(head_)] # Raw
  OBVIOUS
<1>7. producer = "destroyed" => \A i \in 0..(capacity_ - 1) : ring_[i] = Raw
  BY <1>1, <1>3 DEF Spsc!Live
<1> QED
  BY <1>2, <1>4, <1>5, <1>6, <1>7 DEF SlotInv, Spsc!SlotInv

\* The queue that SPSC implements, and what its consumer has taken.
SpscQueue ==
  IF producer \in {"destructor", "destroyed"} THEN <<>>
  ELSE [k \in 1..(tail_ - Spsc!Front) |-> ring_[Spsc!Index(Spsc!Front + k - 1)]]

SpscTaken == [c \in Spsc!Consumers |-> place]

\* Its length and its elements, which are those of the ring's live positions.
SpscSpan ==
  /\ Spsc!Front \in Nat /\ tail_ - Spsc!Front \in Nat
  /\ SpscQueue \in [1..(tail_ - Spsc!Front) -> Value]
  /\ \A k \in 1..(tail_ - Spsc!Front) :
       SpscQueue[k] = ring_[Spsc!Index(Spsc!Front + k - 1)]

\* The live positions hold objects, so the queue is one of values.
LEMMA SpscWindow ==
  SpscInv /\ producer \notin {"destructor", "destroyed"} => SpscSpan
<1> SUFFICES ASSUME SpscInv, producer \notin {"destructor", "destroyed"} PROVE SpscSpan
  OBVIOUS
<1> USE SpscCapacity DEF SpscInv
<1>1. Spsc!Front \in Nat /\ tail_ - Spsc!Front \in Nat /\ head_ <= Spsc!Front
  BY DEF Spsc!Front
<1>2. \A p \in Spsc!Front..(tail_ - 1) : ring_[Spsc!Index(p)] \in Value
  BY <1>1, IndexType DEF Spsc!Front
<1>3. \A k \in 1..(tail_ - Spsc!Front) : Spsc!Front + k - 1 \in Spsc!Front..(tail_ - 1)
  BY <1>1
<1> QED
  BY <1>1, <1>2, <1>3 DEF SpscQueue, SpscSpan

\* The constructor makes an empty queue.
LEMMA SpscFifoInit == Spsc!Init => Spsc!Fifo!Init
<1> SUFFICES ASSUME Spsc!Init PROVE Spsc!Fifo!Init
  OBVIOUS
<1>1. head_ = 0 /\ tail_ = 0 /\ consumer = "idle" /\ producer = "idle" /\ place = None
  BY DEF Spsc!Init
<1>2. Spsc!Front = 0 /\ 1..(tail_ - Spsc!Front) = {}
  BY <1>1 DEF Spsc!Front
<1> QED
  BY <1>1, <1>2 DEF Spsc!Fifo!Init

\* Each step of SPSC is one of the bounded queue, none, or the destructor's call: the
\* publication of a push enqueues and the move out of a slot dequeues.
LEMMA SpscFifoStep ==
  SpscInv /\ [Spsc!Next]_(Spsc!vars) =>
    [Spsc!Fifo!Next \/ Spsc!DestructorCall]_(Spsc!Fifo!vars)
<1> SUFFICES ASSUME SpscInv, [Spsc!Next]_(Spsc!vars)
             PROVE  [Spsc!Fifo!Next \/ Spsc!DestructorCall]_(Spsc!Fifo!vars)
  OBVIOUS
<1>i. SpscInv'
  BY SpscStep
<1>w. producer' \notin {"destructor", "destroyed"} => SpscSpan'
  <2>1. SpscInv' /\ (producer \notin {"destructor", "destroyed"})' => SpscSpan'
    BY SpscWindow, PTL
  <2> QED
    BY <1>i, <2>1
<1>v. Spsc!Fifo!vars = <<SpscQueue, SpscTaken>> /\ Spsc!Fifo!vars' = <<SpscQueue', SpscTaken'>>
  BY DEF Spsc!Fifo!vars, SpscQueue, SpscTaken
\* A step that moves neither end and writes no slot between them is a stutter.
<1>s. ASSUME producer \notin {"destructor", "destroyed"},
             producer' \notin {"destructor", "destroyed"},
             UNCHANGED <<Spsc!Front, tail_, place>>,
             \A p \in Spsc!Front..(tail_ - 1) :
               ring_'[Spsc!Index(p)] = ring_[Spsc!Index(p)]
      PROVE  UNCHANGED Spsc!Fifo!vars
  <2>1. /\ Spsc!Front \in Nat /\ tail_ - Spsc!Front \in Nat
        /\ \A k \in 1..(tail_ - Spsc!Front) : Spsc!Front + k - 1 \in Spsc!Front..(tail_ - 1)
    BY <1>s, SpscWindow DEF SpscSpan, SpscInv
  <2>2. SpscQueue' = SpscQueue
    BY <1>s, <2>1 DEF SpscQueue
  <2> QED
    BY <1>s, <1>v, <2>2 DEF SpscTaken
<1>1. ASSUME Spsc!PushPublish PROVE Spsc!Fifo!Next
  <2> DEFINE n == tail_ - Spsc!Front
             v == ring_[Spsc!Index(tail_)]
  <2>1. /\ producer = "publish" /\ producer' = "idle" /\ tail_' = tail_ + 1
        /\ UNCHANGED <<ring_, head_, consumer, place>> /\ Spsc!Front' = Spsc!Front
    BY <1>1 DEF Spsc!PushPublish, Spsc!Front
  <2>2. /\ n \in Nat /\ SpscQueue \in [1..n -> Value] /\ Spsc!Front \in Nat
        /\ \A k \in 1..n : SpscQueue[k] = ring_[Spsc!Index(Spsc!Front + k - 1)]
    BY <2>1, SpscWindow DEF SpscSpan
  <2>3. /\ tail_' - Spsc!Front' = n + 1 /\ SpscQueue' \in [1..(n + 1) -> Value]
        /\ \A k \in 1..(n + 1) : SpscQueue'[k] = ring_[Spsc!Index(Spsc!Front + k - 1)]
    <3>1. /\ SpscQueue' \in [1..(tail_ - Spsc!Front)' -> Value]
          /\ \A k \in 1..(tail_ - Spsc!Front)' :
               SpscQueue'[k] = ring_'[Spsc!Index(Spsc!Front' + k - 1)]
      BY <1>w, <2>1 DEF SpscSpan
    <3>2. (tail_ - Spsc!Front)' = n + 1
      BY <2>1, <2>2 DEF SpscInv
    <3> QED
      BY <2>1, <3>1, <3>2
  <2>4. v \in Value /\ SpscQueue'[n + 1] = v
    <3>1. Spsc!Front + (n + 1) - 1 = tail_
      BY <2>2 DEF SpscInv
    <3>2. SpscQueue'[n + 1] = v
      BY <2>2, <2>3, <3>1
    <3> QED
      BY <2>2, <2>3, <3>2
  <2>5. SpscQueue' = Append(SpscQueue, v)
    <3> HIDE DEF n, v
    <3> QED
      BY <2>2, <2>3, <2>4, SeqAppend
  <2>6. Len(SpscQueue) = n
    <3> HIDE DEF n
    <3> QED
      BY <2>2, SeqOfIndices
  <2>7. n < capacity_
    BY <2>1, SpscCapacity DEF SpscInv, Spsc!Front
  <2>8. Spsc!Fifo!Enqueue(v)
    BY <2>1, <2>5, <2>6, <2>7 DEF Spsc!Fifo!Enqueue, SpscQueue, SpscTaken
  <2> QED
    BY <2>4, <2>8 DEF Spsc!Fifo!Next
<1>2. ASSUME Spsc!PopMove PROVE Spsc!Fifo!Next
  <2> DEFINE n == tail_ - Spsc!Front - 1
  <2>1. /\ consumer = "move" /\ consumer' = "destroy" /\ place' = ring_[Spsc!Index(head_)]
        /\ UNCHANGED <<ring_, head_, tail_, producer>>
        /\ producer \notin {"destructor", "destroyed"}
        /\ Spsc!Front = head_ /\ Spsc!Front' = head_ + 1
    BY <1>2 DEF Spsc!PopMove, Spsc!Front, SpscInv
  <2>2. /\ n + 1 = tail_ - Spsc!Front /\ n \in Nat /\ head_ \in Nat
        /\ (tail_ - Spsc!Front)' = n
    BY <2>1 DEF SpscInv
  <2>3. /\ SpscQueue \in [1..(n + 1) -> Value]
        /\ \A k \in 1..(n + 1) : SpscQueue[k] = ring_[Spsc!Index(head_ + k - 1)]
    BY <2>1, <2>2, SpscWindow DEF SpscSpan
  <2>4. /\ SpscQueue' \in [1..n -> Value]
        /\ \A k \in 1..n : SpscQueue'[k] = ring_[Spsc!Index(head_ + 1 + k - 1)]
    <3>1. /\ SpscQueue' \in [1..(tail_ - Spsc!Front)' -> Value]
          /\ \A k \in 1..(tail_ - Spsc!Front)' :
               SpscQueue'[k] = ring_'[Spsc!Index(Spsc!Front' + k - 1)]
      BY <1>w, <2>1 DEF SpscSpan
    <3> QED
      BY <2>1, <2>2, <3>1
  <2>5. \A k \in 1..n : SpscQueue'[k] = SpscQueue[k + 1]
    <3> SUFFICES ASSUME NEW k \in 1..n PROVE SpscQueue'[k] = SpscQueue[k + 1]
      OBVIOUS
    <3>1. k + 1 \in 1..(n + 1) /\ head_ + 1 + k - 1 = head_ + (k + 1) - 1
      BY <2>2
    <3> QED
      BY <2>3, <2>4, <3>1
  <2>6. SpscQueue # <<>> /\ SpscQueue' = Tail(SpscQueue) /\ Head(SpscQueue) = SpscQueue[1]
    <3> HIDE DEF n
    <3> QED
      BY <2>2, <2>3, <2>4, <2>5, SeqTail
  <2>7. SpscQueue[1] = place'
    <3>1. 1 \in 1..(n + 1) /\ head_ + 1 - 1 = head_
      BY <2>2
    <3> QED
      BY <2>1, <2>3, <3>1
  <2>8. SpscTaken' = [SpscTaken EXCEPT !["consumer"] = Head(SpscQueue)]
    BY <2>6, <2>7 DEF SpscTaken, Spsc!Consumers
  <2>9. Spsc!Fifo!Dequeue("consumer")
    BY <2>6, <2>8 DEF Spsc!Fifo!Dequeue, SpscQueue, SpscTaken
  <2> QED
    BY <2>9 DEF Spsc!Fifo!Next, Spsc!Consumers
<1>3. ASSUME NEW v \in Value, Spsc!PushCall(v) PROVE UNCHANGED Spsc!Fifo!vars
  BY <1>3, <1>s DEF Spsc!PushCall, Spsc!Front
<1>4. ASSUME Spsc!PushConstruct PROVE UNCHANGED Spsc!Fifo!vars
  <2>1. \A p \in Spsc!Front..(tail_ - 1) : Spsc!Index(p) # Spsc!Index(tail_)
    BY <1>4, IndexInjective, SpscCapacity DEF Spsc!PushConstruct, SpscInv, Spsc!Front
  <2>2. \A p \in Spsc!Front..(tail_ - 1) : ring_'[Spsc!Index(p)] = ring_[Spsc!Index(p)]
    BY SMTT(20), <1>4, <2>1, IndexType DEF Spsc!PushConstruct, SpscInv, Spsc!Front
  <2> QED
    BY <1>4, <1>s, <2>2 DEF Spsc!PushConstruct, Spsc!Front
<1>5. ASSUME Spsc!PopCall PROVE UNCHANGED Spsc!Fifo!vars
  BY <1>5, <1>s DEF Spsc!PopCall, Spsc!Front, SpscInv
<1>6. ASSUME Spsc!PopDestroy PROVE UNCHANGED Spsc!Fifo!vars
  <2>1. Spsc!Front = head_ + 1 /\ Spsc!Front' = Spsc!Front
    BY <1>6 DEF Spsc!PopDestroy, Spsc!Front
  <2>2. \A p \in Spsc!Front..(tail_ - 1) : Spsc!Index(p) # Spsc!Index(head_)
    BY <2>1, IndexInjective, SpscCapacity DEF SpscInv
  <2>3. \A p \in Spsc!Front..(tail_ - 1) : ring_'[Spsc!Index(p)] = ring_[Spsc!Index(p)]
    BY <1>6, <2>1, <2>2, IndexType DEF Spsc!PopDestroy, SpscInv
  <2> QED
    BY <1>6, <1>s, <2>1, <2>3 DEF Spsc!PopDestroy, SpscInv
<1>7. ASSUME Spsc!PopRelease PROVE UNCHANGED Spsc!Fifo!vars
  BY <1>7, <1>s DEF Spsc!PopRelease, Spsc!Front, SpscInv
<1>8. ASSUME Spsc!Destructor PROVE UNCHANGED Spsc!Fifo!vars
  BY <1>8, <1>v DEF Spsc!Destructor, SpscQueue, SpscTaken
<1>9. CASE UNCHANGED Spsc!vars
  BY <1>9, <1>v DEF Spsc!vars, SpscQueue, SpscTaken, Spsc!Front
<1> QED
  BY <1>1, <1>2, <1>3, <1>4, <1>5, <1>6, <1>7, <1>8, <1>9
  DEF Spsc!Next, Spsc!Push, Spsc!Pop

-----------------------------------------------------------------------------
(* thread_safe_queue. *)

\* The adders that have added their element.
Added == {a \in Adder : queue_pc[a] = "finished"}

\* The types, and the queue holds no more than has been added.
QueueInv ==
  /\ safe_queue \in Seq(Value)
  /\ queue_pc \in [Adder \cup Remover -> {"start", "asleep", "finished"}]
  /\ result \in [Remover -> Value \cup {None}]
  /\ Len(safe_queue) <= Cardinality(Added)

\* The operators on finite sets that the instance brings are the usual ones.
LEMMA QueueFiniteSets ==
  \A S : Queue!IsFiniteSet(S) = IsFiniteSet(S) /\ Queue!Cardinality(S) = Cardinality(S)
BY DEF Queue!IsFiniteSet, IsFiniteSet, Queue!Cardinality, Cardinality

\* What the queue assumes of its constants.
LEMMA Adders ==
  /\ IsFiniteSet(Adder) /\ Cardinality(Adder) \in Nat
  /\ Adder \cap Remover = {}
<1>1. IsFiniteSet(Adder) /\ Adder \cap Remover = {}
  BY Assumptions, QueueFiniteSets DEF Queue!ThreadAssumption
<1> QED
  BY <1>1, FS_CardinalityType

\* The threads that have added can be counted.
LEMMA AddedFinite ==
  IsFiniteSet(Added) /\ Cardinality(Added) \in Nat /\ Cardinality(Added) <= Cardinality(Adder)
BY Adders, FS_Subset, FS_CardinalityType DEF Added

\* Before any thread of main has run.
LEMMA QueueInit == Queue!Init => QueueInv
<1> SUFFICES ASSUME Queue!Init PROVE QueueInv
  OBVIOUS
<1>1. Len(safe_queue) = 0 /\ safe_queue \in Seq(Value)
  BY DEF Queue!Init
<1> QED
  BY <1>1, AddedFinite DEF Queue!Init, QueueInv

\* Each step of main's threads keeps the invariant and is a step of a bounded queue
\* that has room for one element of each adder, or none.
LEMMA QueueStep ==
  QueueInv /\ [Queue!Next]_(Queue!vars) =>
    QueueInv' /\ [Queue!Fifo!Next]_(Queue!Fifo!vars)
<1> SUFFICES ASSUME QueueInv, [Queue!Next]_(Queue!vars)
             PROVE  QueueInv' /\ [Queue!Fifo!Next]_(Queue!Fifo!vars)
  OBVIOUS
<1> USE Adders, AddedFinite DEF QueueInv
<1>1. ASSUME NEW a \in Adder, Queue!AddElem(a)
      PROVE  QueueInv' /\ Queue!Fifo!Next
  <2>1. PICK v \in Value : safe_queue' = Append(safe_queue, v)
    BY <1>1 DEF Queue!AddElem
  <2>2. /\ queue_pc' \in [Adder \cup Remover -> {"start", "asleep", "finished"}]
        /\ Added' = Added \cup {a} /\ a \notin Added /\ result' = result
    BY <1>1 DEF Queue!AddElem, Queue!Sleepers, Added
  <2>3. Added \cup {a} \in SUBSET Adder
    BY DEF Added
  <2>4. /\ Cardinality(Added \cup {a}) = Cardinality(Added) + 1
        /\ Cardinality(Added \cup {a}) <= Cardinality(Adder)
    BY <2>2, <2>3, FS_AddElement, FS_Subset
  <2>5. safe_queue' \in Seq(Value) /\ Len(safe_queue') = Len(safe_queue) + 1
    BY <2>1
  <2>6. QueueInv'
    BY <2>2, <2>4, <2>5
  <2>7. Len(safe_queue) < Queue!Cardinality(Adder)
    <3>1. Len(safe_queue) \in Nat
      OBVIOUS
    <3>2. Queue!Cardinality(Adder) = Cardinality(Adder)
      BY QueueFiniteSets
    <3> QED
      BY <2>4, <3>1, <3>2
  <2> QED
    BY <2>1, <2>2, <2>6, <2>7 DEF Queue!Fifo!Next, Queue!Fifo!Enqueue
<1>2. ASSUME NEW r \in Remover, Queue!WaitAndPop(r), safe_queue # <<>>
      PROVE  QueueInv' /\ Queue!Fifo!Next
  <2>1. /\ result' = [result EXCEPT ![r] = Head(safe_queue)]
        /\ safe_queue' = Tail(safe_queue)
        /\ queue_pc' = [queue_pc EXCEPT ![r] = "finished"]
    BY <1>2 DEF Queue!WaitAndPop
  <2>2. /\ Head(safe_queue) \in Value /\ safe_queue' \in Seq(Value)
        /\ Len(safe_queue') = Len(safe_queue) - 1 /\ Len(safe_queue) \in Nat
    BY <1>2, <2>1
  <2>3. Added' = Added
    BY <2>1 DEF Added
  <2>4. QueueInv'
    BY <2>1, <2>2, <2>3
  <2>5. Queue!Fifo!Dequeue(r)
    BY <1>2, <2>1 DEF Queue!Fifo!Dequeue
  <2> QED
    BY <2>4, <2>5 DEF Queue!Fifo!Next
<1>3. ASSUME UNCHANGED <<safe_queue, result>>, NEW r \in Remover,
             NEW label \in {"start", "asleep", "finished"},
             queue_pc' = [queue_pc EXCEPT ![r] = label]
      PROVE  QueueInv' /\ UNCHANGED Queue!Fifo!vars
  <2>1. Added' = Added
    BY <1>3 DEF Added
  <2> QED
    BY <1>3, <2>1 DEF Queue!Fifo!vars
<1>4. ASSUME NEW r \in Remover, \/ Queue!WaitAndPop(r) /\ safe_queue = <<>>
                                \/ Queue!PopThrows(r) \/ Queue!SpuriousWakeup(r)
      PROVE  QueueInv' /\ UNCHANGED Queue!Fifo!vars
  BY <1>3, <1>4 DEF Queue!WaitAndPop, Queue!PopThrows, Queue!SpuriousWakeup
<1>5. CASE UNCHANGED Queue!vars
  BY <1>5 DEF Queue!vars, Queue!Fifo!vars, Added
<1> QED
  BY <1>1, <1>2, <1>4, <1>5 DEF Queue!Next

\* At first nothing is queued and nothing taken.
LEMMA QueueFifoInit == Queue!Init => Queue!Fifo!Init
BY DEF Queue!Init, Queue!Fifo!Init

-----------------------------------------------------------------------------
(* threadpool. *)

\* Threads that will look for a job or wake one that will.
Coming == {t \in Worker \cup Client : pool_pc[t] \in {"look", "notify", "run_notify"}}

\* The types, and that a worker has a job exactly while it runs one.
PoolTypes ==
  /\ stop \in BOOLEAN
  /\ jobs \in Seq(Job)
  /\ pool_pc \in [Worker \cup Client -> {"idle", "notify", "look", "asleep", "run",
                                         "run_notify", "exited"}]
  /\ \A c \in Client : pool_pc[c] \in {"idle", "notify"}
  /\ job \in [Worker -> Job \cup {NoJob}]
  /\ \A w \in Worker : job[w] # NoJob <=> pool_pc[w] \in {"run", "run_notify"}
  /\ fresh \in SUBSET Job
  /\ done \in SUBSET Job

\* JobsCovered, with Cardinality as this module has it.
PoolCovered == Pool!Sleepers # {} => Len(jobs) <= Cardinality(Coming)

\* The operators on finite sets that the instance brings are the usual ones.
LEMMA PoolFiniteSets ==
  /\ \A S : Pool!IsFiniteSet(S) = IsFiniteSet(S) /\ Pool!Cardinality(S) = Cardinality(S)
BY DEF Pool!IsFiniteSet, IsFiniteSet, Pool!Cardinality, Cardinality

\* What the pool assumes of its constants.
LEMMA PoolThreads ==
  /\ IsFiniteSet(Worker) /\ IsFiniteSet(Worker \cup Client)
  /\ Worker \cap Client = {} /\ NoJob \notin Job
<1>1. IsFiniteSet(Worker) /\ IsFiniteSet(Client) /\ Worker \cap Client = {} /\ NoJob \notin Job
  BY Assumptions, PoolFiniteSets DEF Pool!PoolAssumption
<1> QED
  BY <1>1, FS_Union

\* The threads that are coming can be counted.
LEMMA ComingFinite == IsFiniteSet(Coming) /\ Cardinality(Coming) \in Nat
BY PoolThreads, FS_Subset, FS_CardinalityType DEF Coming

\* Each step of submit_job, do_work and the destructor keeps the types.
LEMMA PoolTypesStep == PoolTypes /\ [Pool!Next]_(Pool!vars) => PoolTypes'
<1> SUFFICES ASSUME PoolTypes, [Pool!Next]_(Pool!vars) PROVE PoolTypes'
  OBVIOUS
<1> USE PoolThreads DEF PoolTypes
<1>1. ASSUME NEW c \in Client, Pool!Submit(c) PROVE PoolTypes'
  BY <1>1 DEF Pool!Submit, Pool!Push
<1>2. ASSUME NEW t \in Worker \cup Client, NEW from, NEW to,
             Pool!Notify(t, from, to),
             \/ t \in Client /\ from = "notify" /\ to = "idle"
             \/ t \in Worker /\ from = "run_notify" /\ to = "run"
      PROVE  PoolTypes'
  BY <1>2 DEF Pool!Notify, Pool!Sleepers
<1>3. ASSUME NEW w \in Worker, Pool!Look(w) PROVE PoolTypes'
  <2>1. CASE jobs # <<>>
    <3>1. Head(jobs) \in Job /\ Tail(jobs) \in Seq(Job)
      BY <2>1
    <3> QED
      BY <1>3, <2>1, <3>1 DEF Pool!Look
  <2>2. CASE jobs = <<>>
    BY <1>3, <2>2 DEF Pool!Look
  <2> QED
    BY <2>1, <2>2
<1>4. ASSUME NEW w \in Worker, Pool!Run(w) PROVE PoolTypes'
  BY <1>4 DEF Pool!Run
<1>5. ASSUME NEW w \in Worker, Pool!JobSubmits(w) PROVE PoolTypes'
  BY <1>5 DEF Pool!JobSubmits, Pool!Push
<1>6. ASSUME NEW w \in Worker, Pool!JobSubmitThrows(w) PROVE PoolTypes'
  BY <1>6 DEF Pool!JobSubmitThrows
<1>7. ASSUME NEW w \in Worker, Pool!SpuriousWakeup(w) PROVE PoolTypes'
  BY <1>7 DEF Pool!SpuriousWakeup
<1>8. CASE Pool!Stop
  BY <1>8 DEF Pool!Stop
<1>9. CASE Pool!NotifyAll
  BY <1>9 DEF Pool!NotifyAll, Pool!Sleepers
<1>10. CASE Pool!Join
  BY <1>10 DEF Pool!Join
<1>11. CASE UNCHANGED Pool!vars
  BY <1>11 DEF Pool!vars
<1>12. ASSUME NEW c \in Client, Pool!ClientStep(c) PROVE PoolTypes'
  <2>1. c \in Worker \cup Client
    OBVIOUS
  <2>2. CASE Pool!Notify(c, "notify", "idle")
    BY <1>2, <2>1, <2>2
  <2> QED
    BY <1>1, <1>12, <2>2 DEF Pool!ClientStep
<1>13. ASSUME NEW w \in Worker, Pool!WorkerStep(w) PROVE PoolTypes'
  <2> HIDE DEF PoolTypes
  <2> QED
    BY <1>2, <1>3, <1>4, <1>13 DEF Pool!WorkerStep
<1> HIDE DEF PoolTypes
<1> QED
  BY <1>5, <1>6, <1>7, <1>8, <1>9, <1>10, <1>11, <1>12, <1>13 DEF Pool!Next, Pool!Destructor

\* Each step keeps every queued job covered: a submission adds a job and a
\* notification, a notification adds a worker that looks when it is used up, and a
\* worker that stops looking takes a job or finds none.
LEMMA PoolCoveredStep ==
  PoolTypes /\ PoolCovered /\ [Pool!Next]_(Pool!vars) => PoolCovered'
<1> SUFFICES ASSUME PoolTypes, PoolCovered, [Pool!Next]_(Pool!vars), Pool!Sleepers' # {}
             PROVE  Len(jobs') <= Cardinality(Coming')
  BY DEF PoolCovered
<1> USE PoolThreads, ComingFinite DEF PoolTypes
<1>a. Len(jobs) \in Nat
  OBVIOUS
\* Another thread is coming: the number of those that come grows by one.
<1>b. ASSUME NEW t, t \notin Coming, Coming' = Coming \cup {t}
      PROVE  Cardinality(Coming') = Cardinality(Coming) + 1
  BY <1>b, FS_AddElement
\* One thread less is coming.
<1>c. ASSUME NEW t, t \in Coming, Coming' = Coming \ {t}
      PROVE  Cardinality(Coming') = Cardinality(Coming) - 1
  BY <1>c, FS_RemoveElement
<1>d. ASSUME UNCHANGED <<jobs, pool_pc>> PROVE Len(jobs') <= Cardinality(Coming')
  BY <1>d DEF PoolCovered, Coming, Pool!Sleepers
<1>1. ASSUME NEW t \in Worker \cup Client, NEW j, NEW label \in {"notify", "run_notify"},
             pool_pc[t] \in {"idle", "run"}, j \in Job, Pool!Push(t, j, label)
      PROVE  Len(jobs') <= Cardinality(Coming')
  <2>1. t \notin Coming /\ Coming' = Coming \cup {t}
    BY <1>1 DEF Pool!Push, Coming
  <2>2. Pool!Sleepers # {}
    BY <1>1 DEF Pool!Push, Pool!Sleepers
  <2>3. Len(jobs') = Len(jobs) + 1
    BY <1>1 DEF Pool!Push
  <2>4. Cardinality(Coming') = Cardinality(Coming) + 1
    BY <1>b, <2>1
  <2> QED
    BY <1>a, <2>2, <2>3, <2>4 DEF PoolCovered
<1>2. ASSUME NEW t \in Worker \cup Client, NEW from, NEW to,
             Pool!Notify(t, from, to),
             \/ t \in Client /\ from = "notify" /\ to = "idle"
             \/ t \in Worker /\ from = "run_notify" /\ to = "run"
      PROVE  Len(jobs') <= Cardinality(Coming')
  <2>1. PICK w \in Pool!Sleepers : pool_pc' = [pool_pc EXCEPT ![t] = to, ![w] = "look"]
    BY <1>2 DEF Pool!Notify, Pool!Sleepers
  <2>2. t \in Coming /\ w \notin Coming /\ t # w /\ w \in Worker
    BY <1>2, <2>1 DEF Pool!Notify, Pool!Sleepers, Coming
  <2>3. Coming' = (Coming \ {t}) \cup {w}
    BY <1>2, <2>1, <2>2 DEF Pool!Notify, Pool!Sleepers, Coming
  <2>4. IsFiniteSet(Coming \ {t}) /\ Cardinality(Coming \ {t}) = Cardinality(Coming) - 1
    BY <2>2, FS_RemoveElement
  <2>5. Cardinality((Coming \ {t}) \cup {w}) = Cardinality(Coming \ {t}) + 1
    BY <2>2, <2>4, FS_AddElement
  <2>6. jobs' = jobs
    BY <1>2 DEF Pool!Notify
  <2> QED
    BY <2>1, <2>3, <2>4, <2>5, <2>6 DEF PoolCovered
<1>3. ASSUME NEW w \in Worker, Pool!Look(w) PROVE Len(jobs') <= Cardinality(Coming')
  <2>1. CASE jobs # <<>>
    <3>1. Len(jobs') = Len(jobs) - 1
      BY <1>3, <2>1 DEF Pool!Look
    <3>2. pool_pc' = [pool_pc EXCEPT ![w] = "run"] /\ pool_pc[w] = "look"
      BY <1>3, <2>1 DEF Pool!Look
    <3>3. w \in Coming /\ Coming' = Coming \ {w}
      BY <3>2 DEF Coming
    <3>4. Pool!Sleepers # {}
      BY <3>2 DEF Pool!Sleepers
    <3>5. Cardinality(Coming') = Cardinality(Coming) - 1
      BY <1>c, <3>3
    <3> QED
      BY <1>a, <3>1, <3>4, <3>5 DEF PoolCovered
  <2>2. CASE jobs = <<>>
    <3>1. pool_pc[w] = "look" /\ jobs' = jobs
          /\ pool_pc' = [pool_pc EXCEPT ![w] = IF stop THEN "exited" ELSE "asleep"]
      BY <1>3, <2>2 DEF Pool!Look
    <3>2. w \in Coming /\ Coming' = Coming \ {w}
      BY <3>1 DEF Coming
    <3>3. IsFiniteSet(Coming \ {w}) /\ Cardinality(Coming \ {w}) \in Nat
      BY FS_RemoveElement, FS_CardinalityType
    <3>4. Len(jobs') = 0
      BY <2>2, <3>1
    <3> QED
      BY <3>2, <3>3, <3>4
  <2> QED
    BY <2>1, <2>2
<1>4. ASSUME NEW w \in Worker, pool_pc[w] \in {"run", "asleep"}, jobs' = jobs,
             pool_pc' = [pool_pc EXCEPT ![w] = "look"]
      PROVE  Len(jobs') <= Cardinality(Coming')
  <2>1. w \notin Coming /\ Coming' = Coming \cup {w}
    BY <1>4 DEF Coming
  <2>2. Pool!Sleepers # {}
    BY <1>4 DEF Pool!Sleepers
  <2>3. Cardinality(Coming') = Cardinality(Coming) + 1
    BY <1>b, <2>1
  <2> QED
    BY <1>4, <1>a, <2>2, <2>3 DEF PoolCovered
<1>5. CASE Pool!NotifyAll
  <2>1. Pool!Sleepers' = {}
    BY <1>5 DEF Pool!NotifyAll, Pool!Sleepers
  <2> QED
    BY <2>1
<1>6. ASSUME NEW c \in Client, Pool!Submit(c) PROVE Len(jobs') <= Cardinality(Coming')
  BY <1>1, <1>6 DEF Pool!Submit
<1>7. ASSUME NEW w \in Worker, Pool!JobSubmits(w) PROVE Len(jobs') <= Cardinality(Coming')
  BY <1>1, <1>7 DEF Pool!JobSubmits
<1>8. ASSUME NEW w \in Worker, Pool!Run(w) \/ Pool!SpuriousWakeup(w)
      PROVE  Len(jobs') <= Cardinality(Coming')
  BY <1>4, <1>8 DEF Pool!Run, Pool!SpuriousWakeup
<1>9. ASSUME \/ \E w \in Worker : Pool!JobSubmitThrows(w)
             \/ Pool!Stop \/ Pool!Join \/ UNCHANGED Pool!vars
      PROVE  Len(jobs') <= Cardinality(Coming')
  BY <1>d, <1>9 DEF Pool!JobSubmitThrows, Pool!Stop, Pool!Join, Pool!vars
<1>10. ASSUME NEW c \in Client, Pool!ClientStep(c) PROVE Len(jobs') <= Cardinality(Coming')
  <2>1. c \in Worker \cup Client
    OBVIOUS
  <2>2. CASE Pool!Notify(c, "notify", "idle")
    BY <1>2, <2>1, <2>2
  <2> QED
    BY <1>6, <1>10, <2>2 DEF Pool!ClientStep
<1>11. ASSUME NEW w \in Worker, Pool!WorkerStep(w) PROVE Len(jobs') <= Cardinality(Coming')
  BY <1>2, <1>3, <1>8, <1>11 DEF Pool!WorkerStep
<1> HIDE DEF PoolTypes
<1> QED
  BY <1>5, <1>7, <1>8, <1>9, <1>10, <1>11 DEF Pool!Next, Pool!Destructor

\* The workers that have a job.
Running == {w \in Worker : job[w] # NoJob}

\* No job is in two places, none that was accepted is in no place, workers leave only
\* a stopped and empty pool, and the destructor returns only when all have left.
PoolOnce ==
  /\ \A k, l \in 1..Len(jobs) : jobs[k] = jobs[l] => k = l
  /\ \A u, w \in Worker : job[u] = job[w] /\ job[u] # NoJob => u = w
  /\ \A k \in 1..Len(jobs) : jobs[k] \notin done /\ jobs[k] \notin fresh
  /\ \A k \in 1..Len(jobs), w \in Worker : jobs[k] # job[w]
  /\ \A w \in Worker : job[w] \notin done /\ job[w] \notin fresh
  /\ \A j \in done : j \notin fresh
  /\ \A j \in Job : \/ j \in fresh \cup done
                    \/ \E k \in 1..Len(jobs) : jobs[k] = j
                    \/ \E w \in Worker : job[w] = j
  /\ (\E w \in Worker : pool_pc[w] = "exited") => stop /\ jobs = <<>>
  /\ owner = "destroyed" => \A w \in Worker : pool_pc[w] = "exited"

\* The accepted jobs are as many as those queued, running and done.
PoolCount ==
  /\ IsFiniteSet(Pool!Accepted)
  /\ Len(jobs) + Cardinality(Running) + Cardinality(done) = Cardinality(Pool!Accepted)

\* Each step moves a job from one place to the next, and no other job.
LEMMA PoolOnceStep ==
  PoolTypes /\ PoolOnce /\ [Pool!Next]_(Pool!vars) => PoolOnce'
<1> SUFFICES ASSUME PoolTypes, PoolOnce, [Pool!Next]_(Pool!vars) PROVE PoolOnce'
  OBVIOUS
<1> USE PoolThreads DEF PoolTypes, PoolOnce
<1>1. ASSUME NEW t \in Worker \cup Client, NEW j \in fresh, NEW label \in {"notify", "run_notify"},
             Pool!Push(t, j, label), owner = "using" \/ pool_pc[t] = "run",
             t \in Worker => pool_pc[t] = "run"
      PROVE  PoolOnce'
  <2>1. /\ Len(jobs') = Len(jobs) + 1 /\ jobs'[Len(jobs) + 1] = j
        /\ \A k \in 1..Len(jobs) : jobs'[k] = jobs[k]
    BY <1>1 DEF Pool!Push
  <2>2. /\ ~stop /\ fresh' = fresh \ {j} /\ UNCHANGED <<stop, job, done, owner>>
        /\ pool_pc' = [pool_pc EXCEPT ![t] = label]
    BY <1>1 DEF Pool!Push
  <2>3. Len(jobs) \in Nat /\ \A k \in 1..Len(jobs') : k \in 1..Len(jobs) \/ k = Len(jobs) + 1
    BY <2>1
  <2>4. \A w \in Worker : pool_pc'[w] # "exited"
    BY <2>2
  <2>5. owner' # "destroyed"
    BY <1>1, <2>2
  <2>6. \A i \in Job : \/ i \in fresh' \cup done'
                       \/ \E k \in 1..Len(jobs') : jobs'[k] = i
                       \/ \E w \in Worker : job'[w] = i
    <3> SUFFICES ASSUME NEW i \in Job, i \notin fresh', i \notin done',
                        \A w \in Worker : job'[w] # i
                 PROVE  \E k \in 1..Len(jobs') : jobs'[k] = i
      OBVIOUS
    <3>1. CASE i = j
      BY <2>1, <2>3, <3>1
    <3>2. CASE i # j
      <4>1. PICK k \in 1..Len(jobs) : jobs[k] = i
        BY <2>2, <3>2
      <4> QED
        BY <2>1, <2>3, <4>1
    <3> QED
      BY <3>1, <3>2
  <2>7. \A k, l \in 1..Len(jobs') : jobs'[k] = jobs'[l] => k = l
    BY <2>1, <2>3
  <2>8. \A k \in 1..Len(jobs') : /\ jobs'[k] \notin done' /\ jobs'[k] \notin fresh'
                                 /\ \A w \in Worker : jobs'[k] # job'[w]
    BY <2>1, <2>2, <2>3
  <2> QED
    BY <2>2, <2>4, <2>5, <2>6, <2>7, <2>8
<1>2. ASSUME NEW t \in Worker \cup Client, NEW from, NEW to,
             Pool!Notify(t, from, to),
             \/ t \in Client /\ from = "notify" /\ to = "idle"
             \/ t \in Worker /\ from = "run_notify" /\ to = "run"
      PROVE  PoolOnce'
  <2>1. /\ \A w \in Worker : pool_pc'[w] = "exited" <=> pool_pc[w] = "exited"
        /\ UNCHANGED <<stop, jobs, job, done, fresh, owner>>
    BY <1>2 DEF Pool!Notify, Pool!Sleepers
  <2> QED
    BY <2>1
<1>3. ASSUME NEW w \in Worker, Pool!Look(w) PROVE PoolOnce'
  <2>1. CASE jobs # <<>>
    <3>1. /\ job' = [job EXCEPT ![w] = Head(jobs)] /\ jobs' = Tail(jobs)
          /\ pool_pc' = [pool_pc EXCEPT ![w] = "run"] /\ pool_pc[w] = "look"
          /\ UNCHANGED <<stop, done, fresh, owner>>
      BY <1>3, <2>1 DEF Pool!Look
    <3>2. /\ Len(jobs) \in Nat \ {0} /\ Len(jobs') = Len(jobs) - 1 /\ Head(jobs) = jobs[1]
          /\ \A k \in 1..Len(jobs') : jobs'[k] = jobs[k + 1] /\ k + 1 \in 1..Len(jobs)
          /\ \A k \in 1..Len(jobs) : k # 1 => k - 1 \in 1..Len(jobs') /\ jobs'[k - 1] = jobs[k]
      <4>1. Len(jobs) \in Nat \ {0}
        BY <2>1
      <4>2. Len(jobs') = Len(jobs) - 1 /\ Head(jobs) = jobs[1]
        BY <2>1, <3>1
      <4>3. \A k \in 1..Len(jobs') : jobs'[k] = jobs[k + 1] /\ k + 1 \in 1..Len(jobs)
        BY <3>1, <4>1, <4>2
      <4>4. ASSUME NEW k \in 1..Len(jobs), k # 1
            PROVE  k - 1 \in 1..Len(jobs') /\ jobs'[k - 1] = jobs[k]
        <5>1. k - 1 \in 1..Len(jobs') /\ (k - 1) + 1 = k
          BY <4>1, <4>2, <4>4
        <5> QED
          BY <4>3, <5>1
      <4> QED
        BY <4>1, <4>2, <4>3, <4>4
    <3>3. /\ job' \in [Worker -> Job \cup {NoJob}] /\ job'[w] = jobs[1] /\ job[w] = NoJob
          /\ \A u \in Worker : u # w => job'[u] = job[u]
      BY <3>1, <3>2
    <3>4. \A i \in Job : \/ i \in fresh' \cup done'
                         \/ \E k \in 1..Len(jobs') : jobs'[k] = i
                         \/ \E u \in Worker : job'[u] = i
      <4> SUFFICES ASSUME NEW i \in Job, i \notin fresh', i \notin done'
                   PROVE  \/ \E k \in 1..Len(jobs') : jobs'[k] = i
                          \/ \E u \in Worker : job'[u] = i
        OBVIOUS
      <4>1. CASE \E u \in Worker : job[u] = i
        <5>1. PICK u \in Worker : job[u] = i
          BY <4>1
        <5>2. u # w
          BY <3>3, <5>1
        <5> QED
          BY <3>3, <5>1, <5>2
      <4>2. CASE \E k \in 1..Len(jobs) : jobs[k] = i
        <5>1. PICK k \in 1..Len(jobs) : jobs[k] = i
          BY <4>2
        <5> QED
          BY <3>2, <3>3, <5>1
      <4> QED
        BY <3>1, <4>1, <4>2
    <3>5. \A k, l \in 1..Len(jobs') : jobs'[k] = jobs'[l] => k = l
      BY <3>2
    <3>6. \A k \in 1..Len(jobs') : /\ jobs'[k] \notin done' /\ jobs'[k] \notin fresh'
                                   /\ \A u \in Worker : jobs'[k] # job'[u]
      BY <3>1, <3>2, <3>3
    <3>7. \A u, v \in Worker : job'[u] = job'[v] /\ job'[u] # NoJob => u = v
      BY <3>2, <3>3
    <3>8. \A u \in Worker : job'[u] \notin done' /\ job'[u] \notin fresh'
      BY <3>1, <3>2, <3>3
    <3>9. /\ \A u \in Worker : pool_pc'[u] # "exited"
          /\ owner' # "destroyed"
      BY <2>1, <3>1
    <3> QED
      BY <3>1, <3>4, <3>5, <3>6, <3>7, <3>8, <3>9
  <2>2. CASE jobs = <<>>
    <3>1. /\ pool_pc' = [pool_pc EXCEPT ![w] = IF stop THEN "exited" ELSE "asleep"]
          /\ pool_pc[w] = "look" /\ UNCHANGED <<jobs, job, stop, done, fresh, owner>>
      BY <1>3, <2>2 DEF Pool!Look
    <3>2. owner' # "destroyed"
      BY <3>1
    <3> QED
      BY <2>2, <3>1, <3>2
  <2> QED
    BY <2>1, <2>2
<1>4. ASSUME NEW w \in Worker, Pool!Run(w) PROVE PoolOnce'
  <2>1. /\ done' = done \cup {job[w]} /\ job' = [job EXCEPT ![w] = NoJob]
        /\ pool_pc' = [pool_pc EXCEPT ![w] = "look"] /\ pool_pc[w] = "run"
        /\ UNCHANGED <<stop, jobs, fresh, owner>>
    BY <1>4 DEF Pool!Run
  <2>2. job[w] \in Job
    BY <2>1
  <2>3. owner' # "destroyed"
    BY <2>1
  <2> QED
    BY <2>1, <2>2, <2>3
<1>5. ASSUME NEW w \in Worker, Pool!SpuriousWakeup(w) PROVE PoolOnce'
  BY <1>5 DEF Pool!SpuriousWakeup
<1>6. CASE Pool!Stop
  BY <1>6 DEF Pool!Stop
<1>7. CASE Pool!NotifyAll
  <2>1. /\ \A w \in Worker : pool_pc'[w] = "exited" <=> pool_pc[w] = "exited"
        /\ owner' = "join" /\ UNCHANGED <<stop, jobs, job, done, fresh>>
    BY <1>7 DEF Pool!NotifyAll, Pool!Sleepers
  <2> QED
    BY <2>1
<1>8. CASE Pool!Join
  BY <1>8 DEF Pool!Join
<1>9. CASE UNCHANGED Pool!vars
  BY <1>9 DEF Pool!vars
<1>10. ASSUME NEW w \in Worker, Pool!JobSubmitThrows(w) PROVE PoolOnce'
  BY <1>10 DEF Pool!JobSubmitThrows
<1>11. ASSUME NEW c \in Client, Pool!ClientStep(c) PROVE PoolOnce'
  <2>1. c \in Worker \cup Client /\ c \notin Worker
    OBVIOUS
  <2>2. CASE Pool!Notify(c, "notify", "idle")
    BY <1>2, <2>1, <2>2
  <2>3. CASE Pool!Submit(c)
    BY <1>1, <2>1, <2>3 DEF Pool!Submit
  <2> QED
    BY <1>11, <2>2, <2>3 DEF Pool!ClientStep
<1>12. ASSUME NEW w \in Worker, Pool!JobSubmits(w) PROVE PoolOnce'
  BY <1>1, <1>12 DEF Pool!JobSubmits
<1>13. ASSUME NEW w \in Worker, Pool!WorkerStep(w) PROVE PoolOnce'
  <2> HIDE DEF PoolTypes, PoolOnce
  <2> QED
    BY <1>2, <1>3, <1>4, <1>13 DEF Pool!WorkerStep
<1> HIDE DEF PoolTypes, PoolOnce
<1> QED
  BY <1>5, <1>6, <1>7, <1>8, <1>9, <1>10, <1>11, <1>12, <1>13 DEF Pool!Next, Pool!Destructor

\* The running and the finished jobs can be counted.
LEMMA PoolFinite ==
  ASSUME PoolTypes, PoolOnce, PoolCount
  PROVE  /\ IsFiniteSet(Running) /\ Cardinality(Running) \in Nat
         /\ IsFiniteSet(done) /\ Cardinality(done) \in Nat
         /\ Cardinality(Pool!Accepted) \in Nat
<1>1. Running \in SUBSET Worker /\ done \in SUBSET Pool!Accepted
  BY DEF Running, PoolTypes, PoolOnce, Pool!Accepted
<1> QED
  BY <1>1, PoolThreads, FS_Subset, FS_CardinalityType DEF PoolCount

\* Each step that takes a job from one place to another keeps the count.
LEMMA PoolCountStep ==
  PoolTypes /\ PoolOnce /\ PoolCount /\ [Pool!Next]_(Pool!vars) => PoolCount'
<1> SUFFICES ASSUME PoolTypes, PoolOnce, PoolCount, [Pool!Next]_(Pool!vars) PROVE PoolCount'
  OBVIOUS
<1> USE PoolFinite
<1>j. Len(jobs) \in Nat
  BY DEF PoolTypes
<1>1. ASSUME UNCHANGED <<jobs, job, done, fresh>> PROVE PoolCount'
  BY <1>1 DEF PoolCount, Running, Pool!Accepted
<1>2. ASSUME NEW t, NEW label, NEW j \in fresh, Pool!Push(t, j, label) PROVE PoolCount'
  <2>1. Pool!Accepted' = Pool!Accepted \cup {j} /\ j \notin Pool!Accepted
    BY <1>2 DEF Pool!Push, Pool!Accepted, PoolTypes
  <2>2. /\ IsFiniteSet(Pool!Accepted \cup {j})
        /\ Cardinality(Pool!Accepted \cup {j}) = Cardinality(Pool!Accepted) + 1
    BY <2>1, FS_AddElement DEF PoolCount
  <2>3. Len(jobs') = Len(jobs) + 1 /\ Running' = Running /\ done' = done
    BY <1>2 DEF Pool!Push, Running, PoolTypes
  <2> QED
    BY <1>j, <2>1, <2>2, <2>3 DEF PoolCount
<1>3. ASSUME NEW w \in Worker, Pool!Look(w), jobs # <<>> PROVE PoolCount'
  <2>1. job[w] = NoJob /\ job' = [job EXCEPT ![w] = Head(jobs)] /\ jobs' = Tail(jobs)
    BY <1>3 DEF Pool!Look, PoolTypes
  <2>2. Head(jobs) \in Job /\ Len(jobs') = Len(jobs) - 1
    BY <1>3, <2>1 DEF PoolTypes
  <2>3. Running' = Running \cup {w} /\ w \notin Running
    BY <2>1, <2>2, PoolThreads DEF Running, PoolTypes
  <2>4. Cardinality(Running \cup {w}) = Cardinality(Running) + 1
    BY <2>3, FS_AddElement
  <2>5. Pool!Accepted' = Pool!Accepted /\ done' = done
    BY <1>3 DEF Pool!Look, Pool!Accepted
  <2> QED
    BY <1>j, <2>2, <2>3, <2>4, <2>5 DEF PoolCount
<1>4. ASSUME NEW w \in Worker, Pool!Run(w) PROVE PoolCount'
  <2>1. /\ done' = done \cup {job[w]} /\ job' = [job EXCEPT ![w] = NoJob] /\ jobs' = jobs
        /\ job[w] # NoJob
    BY <1>4 DEF Pool!Run, PoolTypes
  <2>2. Running' = Running \ {w} /\ w \in Running
    BY <2>1 DEF Running, PoolTypes
  <2>3. Cardinality(Running \ {w}) = Cardinality(Running) - 1
    BY <2>2, FS_RemoveElement
  <2>4. Cardinality(done \cup {job[w]}) = Cardinality(done) + 1
    BY <2>1, FS_AddElement DEF PoolOnce
  <2>5. Pool!Accepted' = Pool!Accepted
    BY <1>4 DEF Pool!Run, Pool!Accepted
  <2> QED
    BY <1>j, <2>1, <2>2, <2>3, <2>4, <2>5 DEF PoolCount
<1>5. ASSUME NEW w \in Worker, Pool!Look(w), jobs = <<>> PROVE PoolCount'
  BY <1>1, <1>5 DEF Pool!Look
<1>6. ASSUME NEW c \in Client, Pool!Submit(c) PROVE PoolCount'
  BY <1>2, <1>6 DEF Pool!Submit
<1>7. ASSUME NEW w \in Worker, Pool!JobSubmits(w) PROVE PoolCount'
  BY <1>2, <1>7 DEF Pool!JobSubmits
<1>8. ASSUME NEW t, NEW from, NEW to, Pool!Notify(t, from, to) PROVE PoolCount'
  BY <1>1, <1>8 DEF Pool!Notify
<1>9. ASSUME \/ \E w \in Worker : Pool!JobSubmitThrows(w) \/ Pool!SpuriousWakeup(w)
             \/ Pool!Stop \/ Pool!Destructor \/ UNCHANGED Pool!vars
      PROVE  PoolCount'
  BY <1>1, <1>9 DEF Pool!JobSubmitThrows, Pool!SpuriousWakeup, Pool!Stop, Pool!Destructor,
    Pool!NotifyAll, Pool!Join, Pool!vars
<1> QED
  BY <1>3, <1>4, <1>5, <1>6, <1>7, <1>8, <1>9 DEF Pool!Next, Pool!ClientStep, Pool!WorkerStep

\* A new pool: no job, no sleeper.
LEMMA PoolInit == Pool!Init => PoolTypes /\ PoolCovered /\ PoolOnce /\ PoolCount
<1> SUFFICES ASSUME Pool!Init PROVE PoolTypes /\ PoolCovered /\ PoolOnce /\ PoolCount
  OBVIOUS
<1> USE PoolThreads DEF Pool!Init
<1>0. PoolTypes
  <2>1. /\ \A w \in Worker : pool_pc[w] = "look" /\ job[w] = NoJob
        /\ \A c \in Client : pool_pc[c] = "idle"
    OBVIOUS
  <2>2. jobs \in Seq(Job) /\ job \in [Worker -> Job \cup {NoJob}]
    OBVIOUS
  <2>3. pool_pc \in [Worker \cup Client -> {"idle", "notify", "look", "asleep", "run",
                                         "run_notify", "exited"}]
    OBVIOUS
  <2> QED
    BY <2>1, <2>2, <2>3 DEF PoolTypes
<1>1. PoolOnce
  <2>1. jobs = <<>> /\ 1..Len(jobs) = {} /\ done = {} /\ fresh = Job /\ owner = "using"
    OBVIOUS
  <2>2. \A w \in Worker : job[w] = NoJob /\ pool_pc[w] = "look"
    OBVIOUS
  <2> QED
    BY <2>1, <2>2 DEF PoolOnce
<1>2. Pool!Sleepers = {} /\ Running = {} /\ Pool!Accepted = {}
  BY DEF Pool!Sleepers, Running, Pool!Accepted
<1>3. PoolCount
  BY <1>2, FS_EmptySet DEF PoolCount
<1> QED
  BY <1>0, <1>1, <1>2, <1>3 DEF PoolCovered

\* The invariant gives JobsKept.  A pool without workers would be destroyed with its
\* jobs still queued: this is where some worker is needed.
LEMMA PoolKeeps ==
  PoolTypes /\ PoolOnce /\ PoolCount /\ Worker # {} => JobsKept
<1> SUFFICES ASSUME PoolTypes, PoolOnce, PoolCount, Worker # {} PROVE JobsKept
  OBVIOUS
<1> DEFINE queued == {jobs[k] : k \in DOMAIN jobs}
           running == {job[w] : w \in Worker} \ {NoJob}
<1>1. queued \cup running \cup done = Pool!Accepted
  <2>1. DOMAIN jobs = 1..Len(jobs) /\ \A k \in 1..Len(jobs) : jobs[k] \in Job
    BY DEF PoolTypes
  <2>2. \A w \in Worker : job[w] = NoJob \/ job[w] \in Job
    BY DEF PoolTypes
  <2>3. queued \cup running \cup done \in SUBSET Pool!Accepted
    BY <2>1, <2>2 DEF PoolTypes, PoolOnce, Pool!Accepted
  <2>4. ASSUME NEW j \in Pool!Accepted PROVE j \in queued \cup running \cup done
    BY <2>1, PoolThreads DEF PoolOnce, Pool!Accepted
  <2> QED
    BY <2>3, <2>4
<1>2. owner = "destroyed" => done = Pool!Accepted
  <2> SUFFICES ASSUME owner = "destroyed" PROVE done = Pool!Accepted
    OBVIOUS
  <2>1. \A w \in Worker : pool_pc[w] = "exited"
    BY DEF PoolOnce
  <2>2. queued = {}
    BY <2>1 DEF PoolOnce
  <2>3. running = {}
    BY <2>1 DEF PoolTypes
  <2> QED
    BY <1>1, <2>2, <2>3
<1>3. Len(jobs) + Pool!Cardinality({w \in Worker : job[w] # NoJob}) + Pool!Cardinality(done)
        = Pool!Cardinality(Pool!Accepted)
  BY PoolFiniteSets DEF PoolCount, Running
<1> QED
  BY <1>1, <1>2, <1>3 DEF JobsKept, Pool!JobsKept

\* The invariant gives JobsCovered.
LEMMA PoolCovers == PoolCovered => JobsCovered
BY PoolFiniteSets DEF PoolCovered, Coming, JobsCovered, Pool!JobsCovered

-----------------------------------------------------------------------------
(* Peterson's algorithm, both versions. *)

\* A process that is inside while the other waits has been given the turn, and one
\* that was overtaken while the other waits again has the turn itself.
PetersonInv ==
  /\ p_turn \in {0, 1}
  /\ p_pc \in [{0, 1} -> {"outside", "set_turn", "test_interested", "test_turn", "inside"}]
  /\ p_interested \in [{0, 1} -> BOOLEAN]
  /\ \A p \in {0, 1} : p_interested[p] <=> p_pc[p] # "outside"
  /\ p_overtaken \in [{0, 1} -> 0..2]
  /\ ~(p_pc[0] = "inside" /\ p_pc[1] = "inside")
  /\ \A p \in {0, 1} : Peterson!Waiting(p) =>
       /\ p_pc[1 - p] = "inside" => p_turn = 1 - p
       /\ p_overtaken[p] <= 1
       /\ p_overtaken[p] = 1 /\ Peterson!Waiting(1 - p) => p_turn = p

\* Before either process asks for the lock.
LEMMA PetersonInit == Peterson!Init => PetersonInv
BY DEF Peterson!Init, Peterson!Process, Peterson!Waiting, PetersonInv

\* Each load and store of enter_region and leave_region keeps the invariant.
LEMMA PetersonStep == PetersonInv /\ [Peterson!Next]_(Peterson!vars) => PetersonInv'
<1> SUFFICES ASSUME PetersonInv, [Peterson!Next]_(Peterson!vars) PROVE PetersonInv'
  OBVIOUS
<1> USE DEF PetersonInv, Peterson!Waiting, Peterson!Goto, Peterson!Other, Peterson!Process
<1>1. ASSUME NEW p \in {0, 1}, Peterson!SetInterested(p) PROVE PetersonInv'
  BY <1>1 DEF Peterson!SetInterested
<1>2. ASSUME NEW p \in {0, 1}, Peterson!SetTurn(p) PROVE PetersonInv'
  BY <1>2 DEF Peterson!SetTurn
<1>3. ASSUME NEW p \in {0, 1}, Peterson!TestInterested(p) PROVE PetersonInv'
  BY <1>3 DEF Peterson!TestInterested, Peterson!EnterRegion, Peterson!MaxOvertaken
<1>4. ASSUME NEW p \in {0, 1}, Peterson!TestTurn(p) PROVE PetersonInv'
  BY <1>4 DEF Peterson!TestTurn, Peterson!EnterRegion, Peterson!MaxOvertaken
<1>5. ASSUME NEW p \in {0, 1}, Peterson!Exit(p) PROVE PetersonInv'
  BY <1>5 DEF Peterson!Exit
<1>6. CASE UNCHANGED Peterson!vars
  BY <1>6 DEF Peterson!vars
<1> QED
  BY <1>1, <1>2, <1>3, <1>4, <1>5, <1>6 DEF Peterson!Next, Peterson!Enter

\* A process that was overtaken finds the other inside, giving the turn away, or past
\* the store of the turn with the turn its own.
TweakedInv ==
  /\ t_turn \in {0, 1}
  /\ t_pc \in [{0, 1} -> {"outside", "test_interested", "test_turn", "set_turn", "inside",
                          "leave_turn"}]
  /\ t_interested \in [{0, 1} -> BOOLEAN]
  /\ \A p \in {0, 1} : t_interested[p] <=> t_pc[p] \notin {"outside", "leave_turn"}
  /\ t_overtaken \in [{0, 1} -> 0..2]
  /\ \A p \in {0, 1} : Tweaked!Waiting(p) =>
       /\ t_overtaken[p] <= 1
       /\ t_overtaken[p] = 1 =>
            \/ t_pc[1 - p] \in {"inside", "leave_turn"}
            \/ t_pc[1 - p] # "set_turn" /\ t_turn = p

\* Before either process asks for the lock.
LEMMA TweakedInit == Tweaked!Init => TweakedInv
BY DEF Tweaked!Init, Tweaked!Process, Tweaked!Waiting, TweakedInv

\* Each load and store of the tweaked version keeps the invariant.
LEMMA TweakedStep == TweakedInv /\ [Tweaked!Next]_(Tweaked!vars) => TweakedInv'
<1> SUFFICES ASSUME TweakedInv, [Tweaked!Next]_(Tweaked!vars) PROVE TweakedInv'
  OBVIOUS
<1> USE DEF TweakedInv, Tweaked!Waiting, Tweaked!Goto, Tweaked!Other, Tweaked!Process
<1>1. ASSUME NEW p \in {0, 1}, Tweaked!SetInterested(p) PROVE TweakedInv'
  BY <1>1 DEF Tweaked!SetInterested
<1>2. ASSUME NEW p \in {0, 1}, Tweaked!TestInterested(p) PROVE TweakedInv'
  BY <1>2 DEF Tweaked!TestInterested
<1>3. ASSUME NEW p \in {0, 1}, Tweaked!TestTurn(p) PROVE TweakedInv'
  BY <1>3 DEF Tweaked!TestTurn
<1>4. ASSUME NEW p \in {0, 1}, Tweaked!SetTurn(p) PROVE TweakedInv'
  BY <1>4 DEF Tweaked!SetTurn, Tweaked!MaxOvertaken
<1>5. ASSUME NEW p \in {0, 1}, Tweaked!ClearInterested(p) PROVE TweakedInv'
  BY <1>5 DEF Tweaked!ClearInterested
<1>6. ASSUME NEW p \in {0, 1}, Tweaked!GiveTurn(p) PROVE TweakedInv'
  BY <1>6 DEF Tweaked!GiveTurn
<1>7. CASE UNCHANGED Tweaked!vars
  BY <1>7 DEF Tweaked!vars
<1> QED
  BY <1>1, <1>2, <1>3, <1>4, <1>5, <1>6, <1>7 DEF Tweaked!Next, Tweaked!Enter, Tweaked!Leave

-----------------------------------------------------------------------------
(* fairlock::mutex. *)

\* The tickets held are the next ones from turn on, each held once, and the thread
\* inside holds the first.
FairInv ==
  /\ ticket \in 0..(Modulus - 1) /\ turn \in 0..(Modulus - 1)
  /\ f_pc \in [Locker -> {"idle", "spin", "inside"}]
  /\ my_turn \in [Locker -> 0..(Modulus - 1)]
  /\ ticket = (turn + Cardinality(Fair!Holding)) % Modulus
  /\ \A t \in Fair!Holding : Fair!Ahead(t) < Cardinality(Fair!Holding)
  /\ \A t, u \in Fair!Holding : Fair!Ahead(t) = Fair!Ahead(u) => t = u
  /\ \A t \in Locker : f_pc[t] = "inside" => Fair!Ahead(t) = 0

\* The operators on finite sets that the instance brings are the usual ones.
LEMMA FairFiniteSets ==
  \A S : Fair!IsFiniteSet(S) = IsFiniteSet(S) /\ Fair!Cardinality(S) = Cardinality(S)
BY DEF Fair!IsFiniteSet, IsFiniteSet, Fair!Cardinality, Cardinality

\* What the lock assumes: no more threads than an int has values.
LEMMA Turns ==
  /\ Modulus \in Nat /\ Modulus > 0
  /\ IsFiniteSet(Locker) /\ Cardinality(Locker) \in Nat /\ Cardinality(Locker) <= Modulus
<1>1. IsFiniteSet(Locker) /\ Modulus \in Nat /\ Modulus > 0 /\ Cardinality(Locker) <= Modulus
  BY Assumptions, FairFiniteSets DEF Fair!TicketAssumption
<1> QED
  BY <1>1, FS_CardinalityType

\* A counter that is incremented wraps at most once.
LEMMA Wrap ==
  \A x \in Nat : x < Modulus + Modulus =>
    x % Modulus = IF x < Modulus THEN x ELSE x - Modulus
<1>1. Modulus \in Nat /\ Modulus > 0
  BY Turns
<1> QED
  BY <1>1

\* Before any thread draws a ticket.
LEMMA FairInit == Fair!Init => FairInv
<1> SUFFICES ASSUME Fair!Init PROVE FairInv
  OBVIOUS
<1>1. Fair!Holding = {}
  BY DEF Fair!Init, Fair!Holding
<1>2. Cardinality(Fair!Holding) = 0
  BY <1>1, FS_EmptySet
<1>3. (turn + 0) % Modulus = 0
  BY Turns, Wrap DEF Fair!Init
<1> QED
  BY <1>1, <1>2, <1>3, Turns DEF Fair!Init, FairInv

\* How far a ticket is ahead of turn, by cases of the wrap.
LEMMA FairAhead ==
  ASSUME NEW x \in 0..(Modulus - 1), NEW y \in 0..(Modulus - 1)
  PROVE  (x + Modulus - y) % Modulus = IF x >= y THEN x - y ELSE x + Modulus - y
BY Turns, Wrap

\* Drawing, entering and unlocking keep the invariant through every wrap.
LEMMA FairStep == FairInv /\ [Fair!Next]_(Fair!vars) => FairInv'
<1> SUFFICES ASSUME FairInv, [Fair!Next]_(Fair!vars) PROVE FairInv'
  OBVIOUS
<1>h. IsFiniteSet(Fair!Holding) /\ Cardinality(Fair!Holding) \in Nat /\ Cardinality(Fair!Holding) <= Modulus
  BY Turns, FS_Subset, FS_CardinalityType DEF Fair!Holding
<1>1. ASSUME NEW t \in Locker, Fair!Draw(t) PROVE FairInv'
  <2> DEFINE k == Cardinality(Fair!Holding)
  <2>1. t \notin Fair!Holding /\ Fair!Holding' = Fair!Holding \cup {t}
    BY <1>1 DEF Fair!Draw, FairInv, Fair!Holding
  <2>2. Cardinality(Fair!Holding') = k + 1 /\ k < Modulus
    <3>1. Cardinality(Fair!Holding') = k + 1
      BY <2>1, <1>h, FS_AddElement
    <3>2. Fair!Holding' \in SUBSET Locker
      BY DEF Fair!Holding
    <3>3. Cardinality(Fair!Holding') <= Cardinality(Locker)
      BY <3>2, Turns, FS_Subset
    <3> QED
      BY <3>1, <3>3, <1>h, Turns, FS_CardinalityType
  <2>3. /\ my_turn' = [my_turn EXCEPT ![t] = ticket] /\ turn' = turn
        /\ ticket' = (ticket + 1) % Modulus
        /\ f_pc' = [f_pc EXCEPT ![t] = "spin"]
    BY <1>1 DEF Fair!Draw
  <2>4. Fair!Ahead(t)' = k
    <3>1. turn \in 0..(Modulus - 1) /\ ticket \in 0..(Modulus - 1)
          /\ ticket = IF turn + k < Modulus THEN turn + k ELSE turn + k - Modulus
      BY <2>2, <1>h, Turns, Wrap DEF FairInv
    <3>2. Fair!Ahead(t)' = (ticket + Modulus - turn) % Modulus
      BY <2>3 DEF FairInv, Fair!Ahead
    <3> QED
      BY SMTT(20), <2>2, <3>1, <3>2, <1>h, Turns, FairAhead
  <2>5. \A u \in Fair!Holding : Fair!Ahead(u)' = Fair!Ahead(u)
    BY <2>1, <2>3 DEF FairInv, Fair!Ahead, Fair!Holding
  <2>6. ticket' = (turn' + Cardinality(Fair!Holding')) % Modulus
    BY <2>2, <2>3, <1>h, Turns, Wrap DEF FairInv
  <2>7. ticket' \in 0..(Modulus - 1) /\ my_turn' \in [Locker -> 0..(Modulus - 1)]
        /\ f_pc' \in [Locker -> {"idle", "spin", "inside"}]
    BY <2>3, Turns, Wrap DEF FairInv
  <2>8. \A u \in Locker : f_pc'[u] = "inside" => u \in Fair!Holding /\ f_pc[u] = "inside"
    BY <2>3 DEF FairInv, Fair!Holding
  <2>9. \A u \in Fair!Holding' : Fair!Ahead(u)' < k + 1
    <3>1. \A u \in Fair!Holding : Fair!Ahead(u)' < k + 1
      <4>1. \A u \in Fair!Holding : Fair!Ahead(u) \in Nat /\ Fair!Ahead(u) < k
        BY Turns, FairAhead DEF FairInv, Fair!Ahead, Fair!Holding
      <4> QED
        BY <4>1, <2>5, <1>h
    <3> QED
      BY <2>1, <2>4, <3>1, <1>h
  <2>10. \A u, v \in Fair!Holding' : Fair!Ahead(u)' = Fair!Ahead(v)' => u = v
    <3>1. \A u \in Fair!Holding : Fair!Ahead(u)' # k
      BY <2>5, <1>h DEF FairInv
    <3>2. \A u, v \in Fair!Holding : Fair!Ahead(u)' = Fair!Ahead(v)' => u = v
      BY <2>5 DEF FairInv
    <3> QED
      BY <2>1, <2>4, <3>1, <3>2
  <2>11. \A u \in Locker : f_pc'[u] = "inside" => Fair!Ahead(u)' = 0
    BY <2>5, <2>8 DEF FairInv
  <2> QED
    BY <2>2, <2>3, <2>6, <2>7, <2>9, <2>10, <2>11 DEF FairInv
<1>2. ASSUME NEW t \in Locker, Fair!Enter(t) PROVE FairInv'
  <2>1. Fair!Ahead(t) = 0
    BY <1>2, Turns, FairAhead DEF Fair!Enter, FairInv, Fair!Ahead
  <2>2. /\ Fair!Holding' = Fair!Holding
        /\ UNCHANGED <<ticket, turn, my_turn>>
        /\ \A u \in Locker : f_pc'[u] = "inside" => u = t \/ f_pc[u] = "inside"
        /\ f_pc' \in [Locker -> {"idle", "spin", "inside"}]
    BY <1>2 DEF Fair!Enter, FairInv, Fair!Holding
  <2> QED
    BY <2>1, <2>2 DEF FairInv, Fair!Ahead
<1>3. ASSUME NEW t \in Locker, Fair!Unlock(t) PROVE FairInv'
  <2> DEFINE k == Cardinality(Fair!Holding)
  <2>1. /\ turn' = (turn + 1) % Modulus
        /\ f_pc' = [f_pc EXCEPT ![t] = "idle"]
        /\ UNCHANGED <<ticket, my_turn>>
        /\ t \in Fair!Holding /\ Fair!Ahead(t) = 0
    BY <1>3 DEF Fair!Unlock, FairInv, Fair!Holding
  <2>2. Fair!Holding' = Fair!Holding \ {t}
    BY <2>1 DEF FairInv, Fair!Holding
  <2>3. Cardinality(Fair!Holding') = k - 1
    BY <2>1, <2>2, <1>h, FS_RemoveElement
  <2>4. turn' \in 0..(Modulus - 1)
    BY <2>1, Turns, Wrap DEF FairInv
  <2>5. \A u \in Fair!Holding' : Fair!Ahead(u) \in 1..(k - 1) /\ Fair!Ahead(u)' = Fair!Ahead(u) - 1
    <3> SUFFICES ASSUME NEW u \in Fair!Holding'
                 PROVE  Fair!Ahead(u) \in 1..(k - 1) /\ Fair!Ahead(u)' = Fair!Ahead(u) - 1
      OBVIOUS
    <3>1. u \in Locker /\ u # t /\ u \in Fair!Holding /\ my_turn'[u] = my_turn[u]
          /\ my_turn[u] \in 0..(Modulus - 1) /\ turn \in 0..(Modulus - 1)
      BY <2>1, <2>2 DEF FairInv, Fair!Holding
    <3>2. Fair!Ahead(u) # 0 /\ Fair!Ahead(u) < k
      BY <3>1, <2>1 DEF FairInv
    <3>3. Fair!Ahead(u) = IF my_turn[u] >= turn THEN my_turn[u] - turn ELSE my_turn[u] + Modulus - turn
      BY <3>1, FairAhead DEF Fair!Ahead
    <3>4. Fair!Ahead(u)' = IF my_turn[u] >= turn' THEN my_turn[u] - turn' ELSE my_turn[u] + Modulus - turn'
      BY <3>1, <2>4, FairAhead DEF Fair!Ahead
    <3>5. turn' = IF turn + 1 = Modulus THEN 0 ELSE turn + 1
      BY <2>1, <3>1, Turns, Wrap
    <3> QED
      BY <3>1, <3>2, <3>3, <3>4, <3>5, <1>h, Turns
  <2>6. ticket' = (turn' + Cardinality(Fair!Holding')) % Modulus
    <3>1. k >= 1
      BY <2>1, <1>h DEF FairInv
    <3>2. turn \in 0..(Modulus - 1) /\ ticket = (turn + k) % Modulus
      BY DEF FairInv
    <3>3. turn' = IF turn + 1 = Modulus THEN 0 ELSE turn + 1
      BY <2>1, <3>2, Turns, Wrap
    <3> QED
      BY <2>1, <2>3, <3>1, <3>2, <3>3, <1>h, Turns, Wrap
  <2>7. \A u \in Locker : f_pc'[u] = "inside" => FALSE
    BY <2>1 DEF FairInv, Fair!Holding
  <2>8. \A u \in Fair!Holding' : Fair!Ahead(u)' < k - 1
    BY <2>5, <1>h
  <2>9. \A u, v \in Fair!Holding' : Fair!Ahead(u)' = Fair!Ahead(v)' => u = v
    <3> SUFFICES ASSUME NEW u \in Fair!Holding', NEW v \in Fair!Holding', Fair!Ahead(u)' = Fair!Ahead(v)'
                 PROVE  u = v
      OBVIOUS
    <3>1. Fair!Ahead(u) = Fair!Ahead(v)
      BY <2>5
    <3> QED
      BY <2>2, <3>1 DEF FairInv
  <2>10. ticket' \in 0..(Modulus - 1) /\ my_turn' \in [Locker -> 0..(Modulus - 1)]
        /\ f_pc' \in [Locker -> {"idle", "spin", "inside"}]
    BY <2>1 DEF FairInv
  <2> QED
    BY <2>3, <2>4, <2>6, <2>7, <2>8, <2>9, <2>10 DEF FairInv
<1>4. CASE UNCHANGED Fair!vars
  BY <1>4 DEF Fair!vars, FairInv, Fair!Ahead, Fair!Holding
<1> QED
  BY <1>1, <1>2, <1>3, <1>4 DEF Fair!Next

\* Tickets that are all different and less than the number of holders ahead are all of
\* those: the invariant gives exclusion and the order of service.
LEMMA FairServes == FairInv => Fair!MutualExclusion /\ Fair!ServedInOrder
<1> SUFFICES ASSUME FairInv PROVE Fair!MutualExclusion /\ Fair!ServedInOrder
  OBVIOUS
<1> DEFINE k == Cardinality(Fair!Holding)
           A == [t \in Fair!Holding |-> Fair!Ahead(t)]
<1>h. IsFiniteSet(Fair!Holding) /\ k \in Nat
  BY Turns, FS_Subset, FS_CardinalityType DEF Fair!Holding
<1>1. \A t \in Fair!Holding : Fair!Ahead(t) \in 0..(k - 1)
  <2>1. \A t \in Fair!Holding : Fair!Ahead(t) \in Nat
    BY Turns, FairAhead DEF FairInv, Fair!Ahead, Fair!Holding
  <2> QED
    BY <2>1, <1>h DEF FairInv
<1>2. A \in Injection(Fair!Holding, 0..(k - 1))
  <2> SUFFICES /\ A \in [Fair!Holding -> 0..(k - 1)]
               /\ \A t, u \in Fair!Holding : A[t] = A[u] => t = u
    BY DEF Injection, IsInjective
  <2>1. A \in [Fair!Holding -> 0..(k - 1)]
    BY <1>1
  <2> QED
    BY <2>1 DEF FairInv
<1>3. IsFiniteSet(0..(k - 1)) /\ Cardinality(0..(k - 1)) = k
  BY <1>h, FS_Interval
<1>4. A \in Surjection(Fair!Holding, 0..(k - 1))
  BY <1>2, <1>3, FS_Injection
<1>5. {Fair!Ahead(t) : t \in Fair!Holding} = 0..(k - 1)
  <2>1. \A x \in 0..(k - 1) : \E t \in Fair!Holding : A[t] = x
    BY <1>4 DEF Surjection
  <2> QED
    BY <1>1, <2>1
<1>6. Fair!Cardinality(Fair!Holding) = k
  BY FairFiniteSets
<1>7. Fair!MutualExclusion
  BY DEF FairInv, Fair!MutualExclusion, Fair!Holding
<1> QED
  BY <1>5, <1>6, <1>7 DEF FairInv, Fair!ServedInOrder

-----------------------------------------------------------------------------
(* The reader/writer lock. *)

\* The readers that have come in.
Busy == {r \in Reader : rw_pc[r] # "idle"}

\* READ_COUNT counts the readers, only the first one holds read_lock and then it is
\* the only one, and writer_lock is held for the readers that read or by a writer.
RWInv ==
  /\ rw_pc \in [Reader \cup Writer -> {"idle", "first", "reading", "writing"}]
  /\ \A r \in Reader : rw_pc[r] # "writing"
  /\ \A w \in Writer : rw_pc[w] \in {"idle", "writing"}
  /\ read_lock \in Reader \cup {Nobody}
  /\ writer_lock \in Reader \cup Writer \cup {Nobody}
  /\ READ_COUNT = Cardinality(Busy)
  /\ \A r \in Reader : rw_pc[r] = "first" <=> read_lock = r
  /\ \A r, u \in Reader : rw_pc[r] = "first" /\ u # r => rw_pc[u] = "idle"
  /\ (\E r \in Reader : rw_pc[r] = "reading") <=> writer_lock \in Reader
  /\ \A w \in Writer : rw_pc[w] = "writing" <=> writer_lock = w

\* The operators on finite sets that the instance brings are the usual ones.
LEMMA RWFiniteSets ==
  \A S : RW!IsFiniteSet(S) = IsFiniteSet(S) /\ RW!Cardinality(S) = Cardinality(S)
BY DEF RW!IsFiniteSet, IsFiniteSet, RW!Cardinality, Cardinality

\* What the reader/writer lock assumes of its constants.
LEMMA ReadersWriters ==
  /\ IsFiniteSet(Reader)
  /\ Reader \cap Writer = {} /\ Nobody \notin Reader /\ Nobody \notin Writer
BY Assumptions, RWFiniteSets DEF RW!ThreadAssumption

\* Before anyone comes in.
LEMMA RWInit == RW!Init => RWInv
<1> SUFFICES ASSUME RW!Init PROVE RWInv
  OBVIOUS
<1>1. Busy = {}
  BY DEF RW!Init, Busy
<1>2. Cardinality(Busy) = 0
  BY <1>1, FS_EmptySet
<1> QED
  BY <1>2, ReadersWriters DEF RW!Init, RWInv

\* Readers and writers that come in and leave keep the invariant.
LEMMA RWStep == RWInv /\ [RW!Next]_(RW!vars) => RWInv'
<1> SUFFICES ASSUME RWInv, [RW!Next]_(RW!vars) PROVE RWInv'
  OBVIOUS
<1>h. IsFiniteSet(Busy) /\ Cardinality(Busy) \in Nat
  BY ReadersWriters, FS_Subset, FS_CardinalityType DEF Busy
<1> USE ReadersWriters DEF RWInv, RW!Goto
<1>1. ASSUME NEW r \in Reader, RW!ReaderEnter(r) PROVE RWInv'
  <2>1. Busy' = Busy \cup {r} /\ r \notin Busy
    BY <1>1 DEF RW!ReaderEnter, Busy
  <2>2. READ_COUNT' = Cardinality(Busy')
    BY <1>1, <1>h, <2>1, FS_AddElement DEF RW!ReaderEnter
  <2>3. CASE READ_COUNT = 0
    <3>1. Busy = {}
      BY <1>h, <2>3, FS_EmptySet
    <3>2. \A u \in Reader : rw_pc[u] = "idle"
      BY <3>1 DEF Busy
    <3> QED
      BY <1>1, <2>2, <2>3, <3>2 DEF RW!ReaderEnter
  <2>4. CASE READ_COUNT # 0
    <3>1. PICK u \in Reader : rw_pc[u] # "idle"
      BY <1>h, <2>4, FS_EmptySet DEF Busy
    <3>2. rw_pc[u] = "reading"
      BY <1>1, <3>1 DEF RW!ReaderEnter
    <3> QED
      BY <1>1, <2>2, <2>4, <3>2 DEF RW!ReaderEnter
  <2> QED
    BY <2>3, <2>4
<1>2. ASSUME NEW r \in Reader, RW!ReaderLocksWriters(r) PROVE RWInv'
  <2>1. Busy' = Busy
    BY <1>2 DEF RW!ReaderLocksWriters, Busy
  <2> QED
    BY <1>2, <2>1 DEF RW!ReaderLocksWriters
<1>3. ASSUME NEW r \in Reader, RW!ReaderLeave(r) PROVE RWInv'
  <2>1. Busy' = Busy \ {r} /\ r \in Busy
    BY <1>3 DEF RW!ReaderLeave, Busy
  <2>2. READ_COUNT' = Cardinality(Busy')
    BY <1>3, <1>h, <2>1, FS_RemoveElement DEF RW!ReaderLeave
  <2>3. IsFiniteSet(Busy') /\ READ_COUNT' = READ_COUNT - 1
    BY <1>3, <1>h, <2>1, FS_RemoveElement DEF RW!ReaderLeave
  <2>e. Busy \ {r} = {} <=> READ_COUNT = 1
    <3> HIDE DEF RWInv
    <3>1. IsFiniteSet(Busy \ {r}) /\ Cardinality(Busy \ {r}) = Cardinality(Busy) - 1
      BY <1>h, <2>1, FS_RemoveElement
    <3>2. Busy \ {r} = {} <=> Cardinality(Busy \ {r}) = 0
      BY <3>1, FS_EmptySet
    <3>3. READ_COUNT = Cardinality(Busy)
      BY DEF RWInv
    <3> QED
      BY <1>h, <3>1, <3>2, <3>3
  <2>4. CASE READ_COUNT = 1
    <3>1. Busy' = {}
      BY <2>1, <2>4, <2>e
    <3>2. \A u \in Reader : rw_pc'[u] = "idle"
      BY <3>1 DEF Busy
    <3> QED
      BY <1>3, <2>2, <2>4, <3>2 DEF RW!ReaderLeave
  <2>5. CASE READ_COUNT # 1
    <3>0. Busy' # {}
      BY <2>1, <2>5, <2>e
    <3>1. PICK u \in Reader : rw_pc'[u] # "idle"
      BY <3>0 DEF Busy
    <3>2. rw_pc'[u] = "reading" /\ u # r /\ rw_pc[u] = "reading"
      BY <1>3, <3>1 DEF RW!ReaderLeave
    <3> QED
      BY <1>3, <2>2, <2>5, <3>2 DEF RW!ReaderLeave
  <2> QED
    BY <2>4, <2>5
<1>4. ASSUME NEW w \in Writer, RW!WriterEnter(w) PROVE RWInv'
  <2>1. Busy' = Busy
    BY <1>4 DEF RW!WriterEnter, Busy
  <2> QED
    BY <1>4, <2>1 DEF RW!WriterEnter
<1>5. ASSUME NEW w \in Writer, RW!WriterLeave(w) PROVE RWInv'
  <2>1. Busy' = Busy
    BY <1>5 DEF RW!WriterLeave, Busy
  <2> QED
    BY <1>5, <2>1 DEF RW!WriterLeave
<1>6. CASE UNCHANGED RW!vars
  BY <1>6 DEF RW!vars, Busy
<1> QED
  BY <1>1, <1>2, <1>3, <1>4, <1>5, <1>6 DEF RW!Next

\* The invariant gives exclusion and the meaning of READ_COUNT.
LEMMA RWExcludes == RWInv => RW!Exclusion /\ RW!ReadersCounted
<1> SUFFICES ASSUME RWInv PROVE RW!Exclusion /\ RW!ReadersCounted
  OBVIOUS
<1>1. RW!Exclusion
  BY ReadersWriters DEF RWInv, RW!Exclusion
<1>2. RW!Cardinality({r \in Reader : rw_pc[r] # "idle"}) = Cardinality(Busy)
  BY RWFiniteSets DEF Busy
<1> QED
  BY <1>1, <1>2 DEF RWInv, RW!ReadersCounted

-----------------------------------------------------------------------------
(* prat::mutex. *)

\* Nobody has called lock at first.
LEMMA PratInit == Prat!Init => Prat!IInv
BY DEF Prat!Init, Prat!IInv, Prat!TypeOK, Prat!MutualExclusion, Prat!FlagInv,
  Prat!SleepersCovered, Prat!Inside

\* Each step of lock, of unlock and of the blocking wait keeps the invariant.
LEMMA PratStep == Prat!IInv /\ [Prat!Next]_(Prat!vars) => Prat!IInv'
<1> SUFFICES ASSUME Prat!IInv, [Prat!Next]_(Prat!vars) PROVE Prat!IInv'
  OBVIOUS
<1> USE DEF Prat!IInv, Prat!TypeOK, Prat!MutualExclusion, Prat!FlagInv, Prat!SleepersCovered,
     Prat!Inside, Prat!Awake, Prat!Goto
<1>1. ASSUME NEW t \in Locker, Prat!LockCall(t) PROVE Prat!IInv'
  BY <1>1 DEF Prat!LockCall
<1>2. ASSUME NEW t \in Locker, Prat!TestAndSet(t) PROVE Prat!IInv'
  BY <1>2 DEF Prat!TestAndSet
<1>3. ASSUME NEW t \in Locker, Prat!Wait(t) PROVE Prat!IInv'
  BY <1>3 DEF Prat!Wait
<1>4. ASSUME NEW t \in Locker, Prat!SpuriousWakeup(t) PROVE Prat!IInv'
  BY <1>4 DEF Prat!SpuriousWakeup
<1>5. ASSUME NEW t \in Locker, Prat!Clear(t) PROVE Prat!IInv'
  BY <1>5 DEF Prat!Clear
<1>6. ASSUME NEW t \in Locker, Prat!Notify(t) PROVE Prat!IInv'
  BY <1>6 DEF Prat!Notify, Prat!Sleepers
<1>7. CASE UNCHANGED Prat!vars
  BY <1>7 DEF Prat!vars
<1> QED
  BY <1>1, <1>2, <1>3, <1>4, <1>5, <1>6, <1>7 DEF Prat!Next, Prat!Lock, Prat!Unlock

-----------------------------------------------------------------------------
(* exception::stack. *)

\* What holds of a thread while the nodes of s are linked.
StackThread(s, t) ==
  /\ stack_pc[t] \in {"push_cas", "pop_copy"} => ptr[t] \in alive \ Elements(s)
  /\ stack_pc[t] \in {"pop_next", "pop_cas"} => ptr[t] \in alive
  /\ stack_pc[t] = "pop_cas" => nxt[t] = next[ptr[t]]
  /\ stack_pc[t] \in {"pop_load", "pop_next", "pop_cas", "pop_copy"} => res[t] = None

\* What holds of two.
StackPair(t, u) ==
  /\ stack_pc[t] \in {"push_cas", "pop_copy"} /\ stack_pc[u] \in {"push_cas", "pop_copy"}
       => ptr[t] # ptr[u]
  /\ stack_pc[t] \in {"pop_next", "pop_cas"} /\ stack_pc[u] = "push_cas" => ptr[t] # ptr[u]

\* Types: what is allocated holds a value.
StackTypes ==
  /\ head \in Node \cup {Null}
  /\ next \in [Node -> Node \cup {Null}]
  /\ data \in [Node -> Value \cup {None}]
  /\ alive \subseteq Node
  /\ \A n \in alive : data[n] \in Value
  /\ ptr \in [Thread -> Node \cup {Null}]
  /\ nxt \in [Thread -> Node \cup {Null}]
  /\ res \in [Thread -> Value \cup {None, Empty}]
  /\ stack_pc \in [Thread -> {"idle", "push_cas", "pop_load", "pop_next", "pop_cas", "pop_copy"}]

\* The stack is the path s.
StackShape(s) ==
  /\ StackTypes
  /\ Path(Null, next, head, s)
  /\ Elements(s) \subseteq alive
  /\ \A t \in Thread : StackThread(s, t)
  /\ \A t, u \in Thread : t # u => StackPair(t, u)

\* There is such a path: an end, in particular.
StackInv == \E s : StackShape(s)

\* Null is no node, and there are finitely many nodes.
LEMMA StackNull == Null \notin Node /\ IsFiniteSet(Node)
BY Assumptions DEF Stack!NodeAssumption, Stack!IsFiniteSet, IsFiniteSet, Stack!Seq, Seq

\* Chain finds the path.
LEMMA StackChain ==
  ASSUME NEW s, StackShape(s)
  PROVE  Stack!Chain(head) = s /\ DOMAIN s = 1..Len(s) /\ Stack!Rng(s) = Elements(s)
<1>1. Links(Null, next, head) /\ DOMAIN next = Node
  BY DEF StackShape, StackTypes, Links
<1>2. Follow(Null, next, head, Cardinality(Node)) = s
  BY <1>1, StackNull, FollowIs DEF StackShape
<1>3. Stack!Chain(head) = Follow(Null, next, head, Cardinality(Node))
  BY DEF Stack!Chain, Follow, Stack!Cardinality, Cardinality
<1>4. s \in Seq(Node)
  BY <1>1, PathElements, StackNull DEF StackShape
<1>5. DOMAIN s = 1..Len(s)
  BY <1>4
<1> QED
  BY <1>2, <1>3, <1>5 DEF Stack!Rng, Elements

\* What each thread has got out of its last pop, as ImplementsStack maps it.
StackTaken == [t \in Thread |-> IF Stack!Unlinked(t) THEN data[ptr[t]] ELSE res[t]]

\* What a step that makes r of s does to the stack as its callers see it.
StackEffect(s, r) ==
  \/ DataOf(data', r) = DataOf(data, s) /\ StackTaken' = StackTaken
  \/ \E v \in Value : DataOf(data', r) = <<v>> \o DataOf(data, s) /\ StackTaken' = StackTaken
  \/ \E t \in Thread : /\ DataOf(data', r) = DataOf(data, s)
                       /\ StackTaken' = [StackTaken EXCEPT ![t] = None]
  \/ \E t \in Thread : /\ StackTaken[t] = None /\ DataOf(data, s) # <<>>
                       /\ DataOf(data', r) = Tail(DataOf(data, s))
                       /\ StackTaken' = [StackTaken EXCEPT ![t] = Head(DataOf(data, s))]
  \/ \E t \in Thread : /\ StackTaken[t] = None /\ DataOf(data, s) = <<>>
                       /\ DataOf(data', r) = DataOf(data, s)
                       /\ StackTaken' = [StackTaken EXCEPT ![t] = Empty]

\* A new node changes no link of the stack and belongs to the thread alone.
LEMMA StackPushCall ==
  ASSUME NEW s, StackShape(s), NEW t \in Thread, NEW v \in Value, Stack!Push(t, v)
  PROVE  StackShape(s)' /\ StackEffect(s, s)
<1> USE DEF StackShape, StackTypes
<1>1. PICK n \in Node \ alive :
        /\ stack_pc[t] = "idle"
        /\ alive' = alive \cup {n}
        /\ data' = [data EXCEPT ![n] = v]
        /\ next' = [next EXCEPT ![n] = head]
        /\ ptr' = [ptr EXCEPT ![t] = n]
        /\ stack_pc' = [stack_pc EXCEPT ![t] = "push_cas"]
        /\ UNCHANGED <<head, nxt, res>>
  BY DEF Stack!Push, Stack!PushCall, Stack!Goto
<1>2. n \notin Elements(s) /\ Elements(s) \subseteq Node /\ s \in Seq(Node)
  BY PathElements, StackNull
<1>3. StackTypes'
  BY <1>1
<1>4. Path(Null, next', head', s)
  <2>1. DOMAIN next' = DOMAIN next /\ \A m \in Elements(s) : next'[m] = next[m]
    BY <1>1, <1>2
  <2> QED
    BY <1>1, <2>1, PathKept
<1>5. ASSUME NEW u \in Thread PROVE StackThread(s, u)'
  <2>1. CASE u = t
    BY <1>1, <1>2, <2>1 DEF StackThread
  <2>2. CASE u # t
    <3>1. ptr'[u] = ptr[u] /\ stack_pc'[u] = stack_pc[u] /\ nxt'[u] = nxt[u] /\ res'[u] = res[u]
          /\ StackThread(s, u)
      BY <1>1, <2>2
    <3>2. ptr[u] \in alive => next'[ptr[u]] = next[ptr[u]] /\ ptr[u] \in alive'
      BY <1>1
    <3> QED
      BY <3>1, <3>2 DEF StackThread
  <2> QED
    BY <2>1, <2>2
<1>6. ASSUME NEW u \in Thread, NEW w \in Thread, u # w PROVE StackPair(u, w)'
  <2>1. StackThread(s, u) /\ StackThread(s, w) /\ StackPair(u, w)
    BY <1>6
  <2> QED
    BY <1>1, <1>6, <2>1 DEF StackThread, StackPair
<1>7. DataOf(data', s) = DataOf(data, s)
  <2>1. \A m \in Elements(s) : data'[m] = data[m]
    BY <1>1, <1>2
  <2> QED
    BY <2>1, DataKept
<1>8. StackTaken' = StackTaken
  <2> SUFFICES ASSUME NEW u \in Thread
               PROVE  /\ Stack!Unlinked(u)' = Stack!Unlinked(u)
                      /\ Stack!Unlinked(u) => data'[ptr'[u]] = data[ptr[u]]
                      /\ ~Stack!Unlinked(u) => res'[u] = res[u]
    BY DEF StackTaken
  <2>1. StackThread(s, u)
    OBVIOUS
  <2> QED
    BY <1>1, <2>1 DEF StackThread, Stack!Unlinked
<1>9. Elements(s) \subseteq alive'
  BY <1>1
<1> QED
  BY <1>3, <1>4, <1>5, <1>6, <1>7, <1>8, <1>9 DEF StackEffect

\* The exchange of push links its node in front; a failed one loads the head again.
LEMMA StackPushCas ==
  ASSUME NEW s, StackShape(s), NEW t \in Thread, Stack!PushCas(t)
  PROVE  \E r : StackShape(r)' /\ StackEffect(s, r)
<1> USE DEF StackShape, StackTypes
<1>1. /\ stack_pc[t] = "push_cas"
      /\ UNCHANGED <<data, alive, nxt, res>>
      /\ \/ /\ head = next[ptr[t]] /\ head' = ptr[t] /\ UNCHANGED next
            /\ stack_pc' = [stack_pc EXCEPT ![t] = "idle"] /\ ptr' = [ptr EXCEPT ![t] = Null]
         \/ /\ head # next[ptr[t]] /\ next' = [next EXCEPT ![ptr[t]] = head]
            /\ UNCHANGED <<head, stack_pc, ptr>>
  BY DEF Stack!PushCas, Stack!Goto, Stack!Return
<1>2. PICK n : n = ptr[t]
  OBVIOUS
<1>3. n \in alive /\ n \in Node /\ n \notin Elements(s) /\ Elements(s) \subseteq Node /\ s \in Seq(Node)
  BY <1>1, <1>2, PathElements, StackNull DEF StackThread
<1>4. StackTypes'
  BY <1>1, <1>2, <1>3
<1>5. StackTaken' = StackTaken
  BY <1>1 DEF StackTaken, Stack!Unlinked
<1>6. ASSUME NEW u \in Thread, NEW w \in Thread, u # w PROVE StackPair(u, w)'
  <2>1. StackPair(u, w)
    BY <1>6
  <2> QED
    BY <1>1, <1>6, <2>1 DEF StackPair
<1>7. CASE head = next[n]
  <2>1. head' = n /\ next' = next /\ stack_pc' = [stack_pc EXCEPT ![t] = "idle"]
        /\ ptr' = [ptr EXCEPT ![t] = Null]
    BY <1>1, <1>2, <1>7
  <2> DEFINE r == <<n>> \o s
  <2>2. Path(Null, next', head', r) /\ Elements(r) = Elements(s) \cup {n}
    BY <1>3, <1>7, <2>1, PathCons, StackNull
  <2>3. DataOf(data', r) = <<data[n]>> \o DataOf(data, s)
    BY <1>1, <1>3, DataCons
  <2> HIDE DEF r
  <2>4. ASSUME NEW u \in Thread PROVE StackThread(r, u)'
    <3>1. CASE u = t
      BY <2>1, <3>1 DEF StackThread
    <3>2. CASE u # t
      <4>1. StackThread(s, u) /\ StackPair(t, u)
        BY <3>2
      <4>2. stack_pc[u] \in {"push_cas", "pop_copy"} => ptr[u] # n
        BY <1>1, <1>2, <4>1 DEF StackPair
      <4> QED
        BY <1>1, <2>1, <2>2, <3>2, <4>1, <4>2 DEF StackThread
    <3> QED
      BY <3>1, <3>2
  <2>5. Elements(r) \subseteq alive'
    BY <1>1, <1>3, <2>2
  <2>6. StackShape(r)'
    BY <1>4, <1>6, <2>2, <2>4, <2>5
  <2>7. data[n] \in Value
    BY <1>3
  <2> QED
    <3>1. StackEffect(s, r)
      BY <1>5, <2>3, <2>7 DEF StackEffect
    <3> QED
      BY <2>6, <3>1
<1>8. CASE head # next[n]
  <2>1. next' = [next EXCEPT ![n] = head] /\ UNCHANGED <<head, stack_pc, ptr>>
    BY <1>1, <1>2, <1>8
  <2>2. Path(Null, next', head', s)
    <3>1. DOMAIN next' = DOMAIN next /\ \A m \in Elements(s) : next'[m] = next[m]
      BY <1>3, <2>1
    <3> QED
      BY <2>1, <3>1, PathKept
  <2>3. ASSUME NEW u \in Thread PROVE StackThread(s, u)'
    <3>1. StackThread(s, u) /\ (u # t => StackPair(u, t))
      OBVIOUS
    <3>2. stack_pc[u] = "pop_cas" => ptr[u] # n
      BY <1>1, <1>2, <3>1 DEF StackPair
    <3> QED
      BY <1>1, <2>1, <3>1, <3>2 DEF StackThread
  <2>4. DataOf(data', s) = DataOf(data, s) /\ Elements(s) \subseteq alive'
    BY <1>1
  <2>5. StackShape(s)'
    BY <1>4, <1>6, <2>2, <2>3, <2>4
  <2> QED
    BY <1>5, <2>4, <2>5 DEF StackEffect
<1> QED
  BY <1>7, <1>8

\* Loading the head, at first or after a failed exchange.
LEMMA StackSeeHead ==
  ASSUME NEW s, StackShape(s), NEW t \in Thread,
         stack_pc[t] \in {"pop_load", "pop_cas"},
         Stack!SeeHead(t, "pop_next", "idle"), UNCHANGED <<head, next, data, alive>>
  PROVE  StackShape(s)' /\ StackEffect(s, s)
<1> USE DEF StackShape, StackTypes
<1>1. /\ ptr' = [ptr EXCEPT ![t] = head] /\ nxt' = [nxt EXCEPT ![t] = Null]
      /\ \/ head # Null /\ stack_pc' = [stack_pc EXCEPT ![t] = "pop_next"] /\ res' = res
         \/ /\ head = Null /\ stack_pc' = [stack_pc EXCEPT ![t] = "idle"]
            /\ res' = [res EXCEPT ![t] = Empty]
  BY DEF Stack!SeeHead, Stack!Goto
<1>2. /\ s \in Seq(Node) /\ (head = Null => s = <<>>)
      /\ head # Null => head \in Elements(s) /\ head \in alive
  BY PathElements, StackNull
<1>3. StackTypes'
  BY <1>1
<1>4. ASSUME NEW u \in Thread PROVE StackThread(s, u)'
  <2>1. StackThread(s, u)
    OBVIOUS
  <2> QED
    BY <1>1, <1>2, <2>1 DEF StackThread
<1>5. ASSUME NEW u \in Thread, NEW w \in Thread, u # w PROVE StackPair(u, w)'
  <2>1. StackPair(u, w) /\ StackThread(s, w)
    BY <1>5
  <2> QED
    BY <1>1, <1>2, <1>5, <2>1 DEF StackPair, StackThread
<1>6. DataOf(data', s) = DataOf(data, s)
  OBVIOUS
<1>7. res[t] = None /\ StackTaken[t] = None
  BY DEF StackThread, StackTaken, Stack!Unlinked
<1>8. CASE head # Null
  <2>1. StackTaken' = StackTaken
    BY <1>1, <1>8 DEF StackTaken, Stack!Unlinked
  <2> QED
    BY <1>3, <1>4, <1>5, <1>6, <2>1 DEF StackEffect
<1>9. CASE head = Null
  <2>1. DataOf(data, s) = <<>>
    BY <1>2, <1>9 DEF DataOf
  <2>2. \A u \in Thread : StackTaken'[u] = [StackTaken EXCEPT ![t] = Empty][u]
    BY <1>1, <1>9 DEF StackTaken, Stack!Unlinked
  <2>3. StackTaken' = [StackTaken EXCEPT ![t] = Empty]
    BY <2>2 DEF StackTaken
  <2> QED
    BY <1>3, <1>4, <1>5, <1>6, <1>7, <2>1, <2>3 DEF StackEffect
<1> QED
  BY <1>8, <1>9

\* What only threads' own variables change leaves the stack.
LEMMA StackLocal ==
  ASSUME NEW s, StackShape(s), NEW t \in Thread,
         Stack!PopCall(t) \/ Stack!PopReadNext(t) \/ Stack!PopCopy(t)
  PROVE  StackShape(s)' /\ StackEffect(s, s)
<1> USE DEF StackShape, StackTypes
<1>0. UNCHANGED <<head, next, data, alive>>
  BY DEF Stack!PopCall, Stack!PopReadNext, Stack!PopCopy, Stack!nodeVars
<1>1. CASE Stack!PopCall(t)
  <2>1. /\ stack_pc[t] = "idle" /\ stack_pc' = [stack_pc EXCEPT ![t] = "pop_load"]
        /\ res' = [res EXCEPT ![t] = None] /\ UNCHANGED <<ptr, nxt>>
    BY <1>1 DEF Stack!PopCall, Stack!Goto
  <2>2. StackTypes'
    BY <1>0, <2>1
  <2>3. ASSUME NEW u \in Thread PROVE StackThread(s, u)'
    <3>1. StackThread(s, u)
      OBVIOUS
    <3> QED
      BY <1>0, <2>1, <3>1 DEF StackThread
  <2>4. ASSUME NEW u \in Thread, NEW w \in Thread, u # w PROVE StackPair(u, w)'
    <3>1. StackPair(u, w)
      BY <2>4
    <3> QED
      BY <2>1, <2>4, <3>1 DEF StackPair
  <2>5. \A u \in Thread : StackTaken'[u] = [StackTaken EXCEPT ![t] = None][u]
    BY <1>0, <2>1 DEF StackTaken, Stack!Unlinked
  <2>6. StackTaken' = [StackTaken EXCEPT ![t] = None]
    BY <2>5 DEF StackTaken
  <2> QED
    BY <1>0, <2>2, <2>3, <2>4, <2>6 DEF StackEffect
<1>2. CASE Stack!PopReadNext(t)
  <2>1. /\ stack_pc[t] = "pop_next" /\ stack_pc' = [stack_pc EXCEPT ![t] = "pop_cas"]
        /\ nxt' = [nxt EXCEPT ![t] = next[ptr[t]]] /\ UNCHANGED <<ptr, res>>
    BY <1>2 DEF Stack!PopReadNext, Stack!Goto
  <2>2. ptr[t] \in alive /\ res[t] = None
    BY <2>1 DEF StackThread
  <2>3. StackTypes'
    BY <1>0, <2>1, <2>2
  <2>4. ASSUME NEW u \in Thread PROVE StackThread(s, u)'
    <3>1. StackThread(s, u)
      OBVIOUS
    <3> QED
      BY <1>0, <2>1, <2>2, <3>1 DEF StackThread
  <2>5. ASSUME NEW u \in Thread, NEW w \in Thread, u # w PROVE StackPair(u, w)'
    <3>1. StackPair(u, w)
      BY <2>5
    <3> QED
      BY <2>1, <2>5, <3>1 DEF StackPair
  <2>6. StackTaken' = StackTaken
    BY <1>0, <2>1 DEF StackTaken, Stack!Unlinked
  <2> QED
    BY <1>0, <2>3, <2>4, <2>5, <2>6 DEF StackEffect
<1>3. CASE Stack!PopCopy(t)
  <2>1. /\ stack_pc[t] = "pop_copy" /\ stack_pc' = [stack_pc EXCEPT ![t] = "idle"]
        /\ \/ res' = [res EXCEPT ![t] = data[ptr[t]]]
           \/ res' = res
        /\ ptr' = [ptr EXCEPT ![t] = Null] /\ UNCHANGED nxt
    BY <1>3 DEF Stack!PopCopy, Stack!Goto, Stack!Return
  <2>2. ptr[t] \in alive /\ res[t] = None
    BY <2>1 DEF StackThread
  <2>3. data[ptr[t]] \in Value
    BY <2>2
  <2>4. StackTypes'
    BY <1>0, <2>1, <2>3
  <2>5. ASSUME NEW u \in Thread PROVE StackThread(s, u)'
    <3>1. StackThread(s, u)
      OBVIOUS
    <3> QED
      BY <1>0, <2>1, <3>1 DEF StackThread
  <2>6. ASSUME NEW u \in Thread, NEW w \in Thread, u # w PROVE StackPair(u, w)'
    <3>1. StackPair(u, w)
      BY <2>6
    <3> QED
      BY <2>1, <2>6, <3>1 DEF StackPair
  <2>7. CASE res' = [res EXCEPT ![t] = data[ptr[t]]]
    <3>1. StackTaken' = StackTaken
      BY <1>0, <2>1, <2>7 DEF StackTaken, Stack!Unlinked
    <3> QED
      BY <1>0, <2>4, <2>5, <2>6, <3>1 DEF StackEffect
  <2>8. CASE res' = res
    <3>1. \A u \in Thread : StackTaken'[u] = [StackTaken EXCEPT ![t] = None][u]
      BY <1>0, <2>1, <2>2, <2>8 DEF StackTaken, Stack!Unlinked
    <3>2. StackTaken' = [StackTaken EXCEPT ![t] = None]
      BY <3>1 DEF StackTaken
    <3> QED
      BY <1>0, <2>4, <2>5, <2>6, <3>2 DEF StackEffect
  <2> QED
    BY <2>1, <2>7, <2>8
<1> QED
  BY <1>1, <1>2, <1>3

\* The exchange of pop takes the node in front.
LEMMA StackUnlink ==
  ASSUME NEW s, StackShape(s), NEW t \in Thread, Stack!PopUnlink(t, "pop_copy")
  PROVE  StackShape(Tail(s))' /\ StackEffect(s, Tail(s))
<1> USE DEF StackShape, StackTypes
<1>1. /\ stack_pc[t] = "pop_cas" /\ head = ptr[t] /\ head' = nxt[t]
      /\ nxt' = [nxt EXCEPT ![t] = Null] /\ stack_pc' = [stack_pc EXCEPT ![t] = "pop_copy"]
      /\ UNCHANGED <<next, data, alive, ptr, res>>
  BY DEF Stack!PopUnlink, Stack!Goto
<1>2. /\ ptr[t] \in alive /\ nxt[t] = next[head] /\ res[t] = None /\ head \in Node /\ head # Null
  BY <1>1, StackNull DEF StackThread
<1> DEFINE r == Tail(s)
<1>3. /\ s # <<>> /\ head = s[1] /\ Path(Null, next', head', r)
      /\ Elements(r) = Elements(s) \ {head} /\ head \in Elements(s) /\ s \in Seq(Node)
  BY <1>1, <1>2, PathTail, PathElements, StackNull
<1>4. /\ DataOf(data, s) # <<>> /\ Head(DataOf(data, s)) = data[head]
      /\ DataOf(data', r) = Tail(DataOf(data, s))
  BY <1>1, <1>3, DataTail
<1> HIDE DEF r
<1>5. StackTypes'
  BY <1>1, <1>2
<1>6. ASSUME NEW u \in Thread PROVE StackThread(r, u)'
  <2>1. StackThread(s, u)
    OBVIOUS
  <2> QED
    BY <1>1, <1>2, <1>3, <2>1 DEF StackThread
<1>7. ASSUME NEW u \in Thread, NEW w \in Thread, u # w PROVE StackPair(u, w)'
  <2>1. StackPair(u, w) /\ StackPair(w, u) /\ StackThread(s, u) /\ StackThread(s, w)
    BY <1>7
  <2> QED
    <3>1. \A x \in Thread : stack_pc'[x] = IF x = t THEN "pop_copy" ELSE stack_pc[x]
      BY <1>1
    <3>2. CASE u = t
      BY <1>1, <1>3, <1>7, <2>1, <3>1, <3>2 DEF StackPair, StackThread
    <3>3. CASE w = t
      BY <1>1, <1>3, <1>7, <2>1, <3>1, <3>3 DEF StackPair, StackThread
    <3>4. CASE u # t /\ w # t
      BY <1>1, <2>1, <3>1, <3>4 DEF StackPair
    <3> QED
      BY <3>2, <3>3, <3>4
<1>8. StackTaken[t] = None /\ StackTaken' = [StackTaken EXCEPT ![t] = data[head]]
  <2>1. \A u \in Thread : StackTaken'[u] = [StackTaken EXCEPT ![t] = data[head]][u]
    BY <1>1, <1>2 DEF StackTaken, Stack!Unlinked
  <2>2. StackTaken[t] = None
    BY <1>1, <1>2 DEF StackTaken, Stack!Unlinked
  <2> QED
    BY <2>1, <2>2 DEF StackTaken
<1>9. Elements(r) \subseteq alive'
  BY <1>1, <1>3
<1>10. StackShape(r)'
  BY <1>3, <1>5, <1>6, <1>7, <1>9
<1>11. StackEffect(s, r)
  BY <1>4, <1>8 DEF StackEffect
<1> QED
  BY <1>10, <1>11 DEF r

\* Every step takes the stack to one that differs as AtomicStack allows.
LEMMA StackStep ==
  ASSUME NEW s, StackShape(s), [Stack!Next]_stackVars
  PROVE  \E r : StackShape(r)' /\ StackEffect(s, r)
<1>1. CASE UNCHANGED stackVars
  <2>1. UNCHANGED <<head, next, data, alive, stack_pc, ptr, nxt, res>>
    BY <1>1 DEF stackVars
  <2>2. StackShape(s)'
    BY <2>1 DEF StackShape, StackTypes, StackThread, StackPair
  <2>3. StackEffect(s, s)
    BY <2>1 DEF StackEffect, StackTaken, Stack!Unlinked
  <2> QED
    BY <2>2, <2>3
<1>2. CASE Stack!Next
  <2>1. PICK t \in Thread :
          \/ \E v \in Value : Stack!Push(t, v)
          \/ Stack!PushCas(t)
          \/ Stack!PopLoad(t) \/ Stack!PopMiss(t)
          \/ Stack!PopCall(t) \/ Stack!PopReadNext(t) \/ Stack!PopCopy(t)
          \/ Stack!PopUnlink(t, "pop_copy")
    BY <1>2 DEF Stack!Next, Stack!Pop
  <2>2. CASE \E v \in Value : Stack!Push(t, v)
    BY <2>2, StackPushCall
  <2>3. CASE Stack!PushCas(t)
    BY <2>3, StackPushCas
  <2>4. CASE Stack!PopLoad(t) \/ Stack!PopMiss(t)
    <3>1. /\ stack_pc[t] \in {"pop_load", "pop_cas"} /\ UNCHANGED <<head, next, data, alive>>
          /\ Stack!SeeHead(t, "pop_next", "idle")
      BY <2>4 DEF Stack!PopLoad, Stack!PopMiss, Stack!nodeVars
    <3> QED
      BY <3>1, StackSeeHead
  <2>5. CASE Stack!PopCall(t) \/ Stack!PopReadNext(t) \/ Stack!PopCopy(t)
    BY <2>5, StackLocal
  <2>6. CASE Stack!PopUnlink(t, "pop_copy")
    BY <2>6, StackUnlink
  <2> QED
    BY <2>1, <2>2, <2>3, <2>4, <2>5, <2>6
<1> QED
  BY <1>1, <1>2

\* The stack is empty at first.
LEMMA StackInit == Stack!Init => StackInv
<1> SUFFICES ASSUME Stack!Init PROVE StackInv
  OBVIOUS
<1>1. /\ head = Null /\ next = [n \in Node |-> Null] /\ data = [n \in Node |-> None]
      /\ alive = {} /\ stack_pc = [t \in Thread |-> "idle"] /\ ptr = [t \in Thread |-> Null]
      /\ nxt = [t \in Thread |-> Null] /\ res = [t \in Thread |-> None]
  BY DEF Stack!Init, Stack!StackInit
<1>2. StackShape(<<>>)
  BY <1>1, PathEmpty DEF StackShape, StackTypes, StackThread, StackPair
<1> QED
  BY <1>2 DEF StackInv

\* The invariant is inductive.
LEMMA StackInvStep == StackInv /\ [Stack!Next]_stackVars => StackInv'
BY StackStep DEF StackInv

\* The invariant says what OwnNodes does.
LEMMA StackOwnNodes == StackInv => OwnNodes
<1> SUFFICES ASSUME NEW s, StackShape(s) PROVE OwnNodes
  BY DEF StackInv
<1>1. Stack!Chain(head) = s /\ DOMAIN s = 1..Len(s) /\ Stack!Linked = Elements(s)
  BY StackChain DEF Stack!Linked
<1>2. \A t \in Thread : StackThread(s, t)
  BY DEF StackShape
<1>3. Stack!TypeOK
  <2>1. \A t \in Thread : stack_pc[t] \notin {"idle", "pop_load"} => ptr[t] # Null
    BY <1>2, StackNull DEF StackShape, StackTypes, StackThread
  <2> QED
    BY <2>1 DEF StackShape, StackTypes, Stack!TypeOK, Stack!StackTypeOK, Stack!Pointer
<1>4. Stack!NoRepeats(s)
  BY <1>1 DEF StackShape, Path, Segment, Stack!NoRepeats
<1>5. \A t, u \in Thread :
        t # u /\ (Stack!Pushing(t) \/ Stack!Unlinked(t)) /\ (Stack!Pushing(u) \/ Stack!Unlinked(u))
          => ptr[t] # ptr[u]
  BY DEF StackShape, StackPair, Stack!Pushing, Stack!Unlinked
<1>6. \A t \in Thread : Stack!Pushing(t) \/ Stack!Unlinked(t) => ptr[t] \in alive \ Elements(s)
  BY <1>2 DEF StackThread, Stack!Pushing, Stack!Unlinked
<1>7. Elements(s) \subseteq alive
  BY DEF StackShape
<1>8. Stack!OwnNodes
  BY <1>1, <1>4, <1>5, <1>6, <1>7 DEF Stack!OwnNodes
<1> QED
  BY <1>3, <1>8 DEF OwnNodes

\* The values that the path holds are the contents,
ContentsAre(s) == Stack!Contents = DataOf(data, s)

\* whatever path it is.
ContentsKnown == \A s : StackShape(s) => ContentsAre(s)

\* By StackChain.
LEMMA StackContents == ContentsKnown
<1> SUFFICES ASSUME NEW s, StackShape(s) PROVE ContentsAre(s)
  BY DEF ContentsKnown
<1>1. Stack!Chain(head) = s /\ DOMAIN s = 1..Len(s)
  BY StackChain
<1> QED
  BY <1>1 DEF ContentsAre, Stack!Contents, DataOf

\* Nothing has been pushed or popped at first.
LEMMA StackAtomicInit == Stack!Init => Stack!Atomic!Init
<1> SUFFICES ASSUME Stack!Init PROVE Stack!Atomic!Init
  OBVIOUS
<1>1. /\ head = Null /\ next = [n \in Node |-> Null] /\ data = [n \in Node |-> None]
      /\ alive = {} /\ stack_pc = [t \in Thread |-> "idle"] /\ ptr = [t \in Thread |-> Null]
      /\ nxt = [t \in Thread |-> Null] /\ res = [t \in Thread |-> None]
  BY DEF Stack!Init, Stack!StackInit
<1>2. StackShape(<<>>)
  BY <1>1, PathEmpty DEF StackShape, StackTypes, StackThread, StackPair
<1>3. Stack!Contents = DataOf(data, <<>>)
  BY <1>2, StackContents DEF ContentsKnown, ContentsAre
<1>4. Stack!Contents = <<>>
  BY <1>3 DEF DataOf
<1> QED
  BY <1>1, <1>4 DEF Stack!Atomic!Init, Stack!Unlinked

\* A step of the stack is a step of AtomicStack or none.
LEMMA StackRefines ==
  StackInv /\ [Stack!Next]_stackVars =>
    [Stack!Atomic!Next]_(Stack!Atomic!vars)
<1> SUFFICES ASSUME NEW s, StackShape(s), [Stack!Next]_stackVars
             PROVE  [Stack!Atomic!Next]_(Stack!Atomic!vars)
  BY DEF StackInv
<1>1. PICK r : StackShape(r)' /\ StackEffect(s, r)
  BY StackStep
<1>2. ContentsAre(s)
  BY StackContents DEF ContentsKnown
<1>3. ContentsKnown'
  BY StackContents, PTL
<1>4. Stack!Contents' = DataOf(data', r)
  BY <1>1, <1>3 DEF ContentsKnown, ContentsAre, DataOf
<1> QED
  BY <1>1, <1>2, <1>4 DEF ContentsAre, StackEffect, StackTaken, Stack!Atomic!Next,
     Stack!Atomic!vars, Stack!Atomic!Push, Stack!Atomic!PopCall, Stack!Atomic!Pop, Stack!Atomic!PopEmpty

-----------------------------------------------------------------------------
(* The program. *)

\* A step of the program is, for each component, a step of it or none.
LEMMA Steps ==
  [Next]_vars => /\ [Spsc!Next]_(Spsc!vars)
                 /\ [Queue!Next]_(Queue!vars)
                 /\ [Pool!Next]_(Pool!vars)
                 /\ [Stack!Next]_stackVars
                 /\ [Peterson!Next]_(Peterson!vars)
                 /\ [Tweaked!Next]_(Tweaked!vars)
                 /\ [Prat!Next]_(Prat!vars)
                 /\ [Fair!Next]_(Fair!vars)
                 /\ [RW!Next]_(RW!vars)
BY DEF Next, Rest, vars, spscVars, queueVars, poolVars, stackVars, petersonVars, tweakedVars,
  pratVars, fairVars, rwVars, Spsc!vars, Queue!vars, Pool!vars, Peterson!vars, Tweaked!vars, Prat!vars,
  Fair!vars, RW!vars

\* The inductive invariant: those of the components, each about its own variables.
IInv ==
  /\ SpscInv /\ QueueInv
  /\ PoolTypes /\ PoolCovered /\ PoolOnce /\ PoolCount
  /\ StackInv
  /\ PetersonInv /\ TweakedInv /\ Prat!IInv /\ FairInv /\ RWInv

\* Whatever component is used and however its threads interleave, the invariant holds.
THEOREM InvCorrect == Spec => []IInv
<1>1. Init => IInv
  BY SpscInit, QueueInit, PoolInit, StackInit, PetersonInit, TweakedInit, PratInit, FairInit,
    RWInit DEF Init, IInv
<1>2. IInv /\ [Next]_vars => IInv'
  BY SpscStep, QueueStep, PoolTypesStep, PoolCoveredStep, PoolOnceStep, PoolCountStep, StackInvStep,
    PetersonStep, TweakedStep, PratStep, FairStep, RWStep, Steps DEF IInv
<1> QED
  BY <1>1, <1>2, PTL DEF Spec

\* SPSC, for any capacity and number of pushes and with stale loads of the other
\* thread's counter: each live position has a slot of its own and exactly those slots
\* hold objects; the destructor leaves none.
THEOREM SlotsCorrect == Spec => []SlotInv
<1>1. IInv => SlotInv
  BY SpscSlots DEF IInv
<1> QED
  BY <1>1, InvCorrect, PTL

\* threadpool, for any workers, clients and jobs: while a worker sleeps, each queued job
\* has a worker or a notification on its way.
THEOREM JobsCoveredCorrect == Spec => []JobsCovered
<1>1. IInv => JobsCovered
  BY PoolCovers DEF IInv
<1> QED
  BY <1>1, InvCorrect, PTL

\* threadpool with at least one worker: every accepted job is queued, running or done,
\* once, and all are done when the destructor returns.  threadpool(0) is destroyed
\* with the jobs it has accepted.
THEOREM JobsKeptCorrect == ASSUME Worker # {} PROVE Spec => []JobsKept
<1>1. IInv => JobsKept
  BY PoolKeeps DEF IInv
<1> QED
  BY <1>1, InvCorrect, PTL

\* Peterson's lock, prat::mutex and the ticket lock admit one thread at a time, and the
\* reader/writer lock a writer alone, for any number of threads.
THEOREM ExclusionCorrect == Spec => []Exclusion
<1>1. PetersonInv => Peterson!MutualExclusion
  BY DEF PetersonInv, Peterson!MutualExclusion
<1>2. IInv => Exclusion
  BY <1>1, FairServes, RWExcludes DEF IInv, Exclusion
<1> QED
  BY <1>2, InvCorrect, PTL

\* In both versions of Peterson's algorithm a waiting process is overtaken at most once.
THEOREM BoundedWaitCorrect == Spec => []BoundedWait
<1>1. IInv => BoundedWait
  BY DEF IInv, PetersonInv, TweakedInv, BoundedWait, Peterson!BoundedWait,
    Tweaked!BoundedWait, Peterson!Process, Tweaked!Process
<1> QED
  BY <1>1, InvCorrect, PTL

\* fairlock::mutex serves threads in the order of their tickets, for any width of the
\* counters that the number of threads does not exceed.
THEOREM ServedInOrderCorrect == Spec => []ServedInOrder
<1>1. IInv => ServedInOrder
  BY FairServes DEF IInv, ServedInOrder
<1> QED
  BY <1>1, InvCorrect, PTL

\* SPSC hands out the values in the order they came, until it is destroyed: by the
\* mapping of InOrder it implements the bounded queue of capacity_ places.
THEOREM SpscFifoCorrect == Spec => Spsc!ImplementsFifo
<1>1. Init => Spsc!Fifo!Init
  BY SpscFifoInit DEF Init
<1>2. IInv /\ [Next]_vars => [Spsc!Fifo!Next \/ Spsc!DestructorCall]_(Spsc!Fifo!vars)
  BY SpscFifoStep, Steps DEF IInv
<1> QED
  BY <1>1, <1>2, InvCorrect, PTL DEF Spec, Spsc!ImplementsFifo

\* thread_safe_queue does, for any adders and removers, spurious wake-ups and moves
\* that throw; it never needs more room than for one element of each adder.
THEOREM QueueFifoCorrect == Spec => Queue!ImplementsFifo
<1>1. Init => Queue!Fifo!Init
  BY QueueFifoInit DEF Init
<1>2. IInv /\ [Next]_vars => [Queue!Fifo!Next]_(Queue!Fifo!vars)
  BY QueueStep, Steps DEF IInv
<1> QED
  BY <1>1, <1>2, InvCorrect, PTL DEF Spec, Queue!ImplementsFifo

\* prat::mutex, for any threads: none is left asleep in lk.wait with the lock free and
\* nobody awake who will take it or wake a sleeper.
THEOREM NoLostWakeup == Spec => []Prat!SleepersCovered
<1>1. IInv => Prat!SleepersCovered
  BY DEF IInv, Prat!IInv
<1> QED
  BY <1>1, InvCorrect, PTL

\* exception::stack, for any threads, nodes and values: the linked nodes, those being
\* pushed and those just unlinked are different allocated nodes.
THEOREM OwnNodesCorrect == Spec => []OwnNodes
<1>1. IInv => OwnNodes
  BY StackOwnNodes DEF IInv
<1> QED
  BY <1>1, InvCorrect, PTL

\* exception::stack: pushes and pops take effect in one step each, last in first out,
\* a copy of the value that throws included.
THEOREM StackCorrect == Spec => Stack!ImplementsStack
<1>1. Init => Stack!Atomic!Init
  BY StackAtomicInit DEF Init
<1>2. IInv /\ [Next]_vars => [Stack!Atomic!Next]_(Stack!Atomic!vars)
  BY StackRefines, Steps DEF IInv
<1> QED
  BY <1>1, <1>2, InvCorrect, PTL DEF Spec, Stack!ImplementsStack, Stack!Atomic!Spec

\* The two queues and the stack hand out what they were given, once and in order.
THEOREM InOrderCorrect == Spec => InOrder
BY SpscFifoCorrect, QueueFifoCorrect, StackCorrect DEF InOrder
=============================================================================
