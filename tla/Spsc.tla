-------------------------------- MODULE Spsc --------------------------------
(***************************************************************************)
(* The single-producer single-consumer queue of                            *)
(* concurrent_structures/spsc_lockfree.cpp: raw storage in which push      *)
(* constructs an object and pop moves it out and destroys it.  One step is *)
(* one access to the ring or to an atomic of the other thread.             *)
(*                                                                         *)
(* head_ and tail_ are 64-bit in the code.  They are natural numbers here: *)
(* push survives a wrap, but `head < tail` in pop does not.                *)
(***************************************************************************)
EXTENDS Naturals, Sequences

CONSTANTS
  Value, None,
  Raw,                \* a slot that holds no object
  capacity_,
  MaxPos              \* bound: the number of objects pushed

CapacityAssumption == capacity_ \in Nat \ {0} /\ MaxPos \in Nat

ValueAssumption == Raw \notin Value /\ None \notin Value

VARIABLES
  ring_, head_, tail_,
  producer, consumer, \* control of the two threads, then of the destructor
  val, place          \* the argument of push; the object pop moves into

vars == <<ring_, head_, tail_, producer, consumer, val, place>>

Index(p) == p % capacity_

Init ==
  /\ ring_ = [i \in 0..(capacity_ - 1) |-> Raw]
  /\ head_ = 0
  /\ tail_ = 0
  /\ producer = "idle"
  /\ consumer = "idle"
  /\ val = None
  /\ place = None

\* What an acquire load may return: the producer knows that the head is at most
\* capacity_ behind its tail, the consumer that the tail is not behind its head.
LoadHead == {h \in 0..head_ : tail_ <= h + capacity_}
LoadTail == head_..tail_

-----------------------------------------------------------------------------
(* bool push(const T &val) *)

\* Faulty variant: one object too many is accepted.
PushCallOver(v) ==
  /\ producer = "idle"
  /\ tail_ < MaxPos
  /\ \E head \in LoadHead : producer' = IF tail_ - head # capacity_ + 1 THEN "construct" ELSE "idle"
  /\ val' = v
  /\ UNCHANGED <<ring_, head_, tail_, consumer, place>>

PushCall(v) ==
  /\ producer = "idle"
  /\ tail_ < MaxPos
  /\ \E head \in LoadHead : producer' = IF tail_ - head # capacity_ THEN "construct" ELSE "idle"
  /\ val' = v
  /\ UNCHANGED <<ring_, head_, tail_, consumer, place>>

PushConstruct ==
  /\ producer = "construct"
  /\ ring_' = [ring_ EXCEPT ![Index(tail_)] = val]
  /\ producer' = "publish"
  /\ UNCHANGED <<head_, tail_, consumer, val, place>>

PushPublish ==
  /\ producer = "publish"
  /\ tail_' = tail_ + 1
  /\ producer' = "idle"
  /\ UNCHANGED <<ring_, head_, consumer, val, place>>

-----------------------------------------------------------------------------
(* bool pop(T &place) *)

\* Faulty variant: an empty queue is popped too.
PopCallEmpty ==
  /\ consumer = "idle"
  /\ \E tail \in LoadTail : consumer' = IF head_ <= tail THEN "move" ELSE "idle"
  /\ UNCHANGED <<ring_, head_, tail_, producer, val, place>>

PopCall ==
  /\ consumer = "idle"
  /\ \E tail \in LoadTail : consumer' = IF head_ < tail THEN "move" ELSE "idle"
  /\ UNCHANGED <<ring_, head_, tail_, producer, val, place>>

PopMove ==
  /\ consumer = "move"
  /\ place' = ring_[Index(head_)]
  /\ consumer' = "destroy"
  /\ UNCHANGED <<ring_, head_, tail_, producer, val>>

\* Faulty variant: the object is moved from but not destroyed.
PopDestroySkipped ==
  /\ consumer = "destroy"
  /\ consumer' = "release"
  /\ UNCHANGED <<ring_, head_, tail_, producer, val, place>>

PopDestroy ==
  /\ consumer = "destroy"
  /\ ring_' = [ring_ EXCEPT ![Index(head_)] = Raw]
  /\ consumer' = "release"
  /\ UNCHANGED <<head_, tail_, producer, val, place>>

PopRelease ==
  /\ consumer = "release"
  /\ head_' = head_ + 1
  /\ consumer' = "idle"
  /\ UNCHANGED <<ring_, tail_, producer, val, place>>

-----------------------------------------------------------------------------
\* ~SPSC(), once both threads are done: destroy what was never popped.
DestructorCall ==
  /\ producer = "idle"
  /\ consumer = "idle"
  /\ producer' = "destructor"
  /\ consumer' = "destructor"
  /\ UNCHANGED <<ring_, head_, tail_, val, place>>

Destructor ==
  /\ producer = "destructor"
  /\ \/ /\ tail_ # head_
        /\ ring_' = [ring_ EXCEPT ![Index(head_)] = Raw]
        /\ head_' = head_ + 1
        /\ UNCHANGED producer
     \/ /\ tail_ = head_
        /\ producer' = "destroyed"
        /\ UNCHANGED <<ring_, head_>>
  /\ UNCHANGED <<tail_, consumer, val, place>>

-----------------------------------------------------------------------------
Push == PushConstruct \/ PushPublish \/ \E v \in Value : PushCall(v)

Pop == PopCall \/ PopMove \/ PopDestroy \/ PopRelease

Next == Push \/ Pop \/ DestructorCall \/ Destructor

Spec == Init /\ [][Next]_vars

-----------------------------------------------------------------------------
(***************************************************************************)
(* Properties.                                                             *)
(***************************************************************************)

\* The positions whose slots hold an object: those between head and tail, less
\* the one pop has just destroyed, plus the one push has just constructed.
Live ==
  (head_..(tail_ - 1) \ (IF consumer = "release" THEN {head_} ELSE {}))
    \cup (IF producer = "publish" THEN {tail_} ELSE {})

\* Exactly the slots of those positions hold objects, each position a slot of its
\* own: no object is constructed over another, moved from twice or leaked, and
\* the destructor, which destroys the rest, leaves none.
SlotInv ==
  /\ head_ <= tail_
  /\ tail_ <= head_ + capacity_
  /\ \A p, q \in Live : p # q => Index(p) # Index(q)
  /\ {i \in 0..(capacity_ - 1) : ring_[i] # Raw} = {Index(p) : p \in Live}
  /\ producer = "construct" => ring_[Index(tail_)] = Raw
  /\ consumer \in {"move", "destroy"} => ring_[Index(head_)] # Raw
  /\ producer = "destroyed" => \A i \in 0..(capacity_ - 1) : ring_[i] = Raw

\* A push takes effect when it publishes the tail; a pop when it moves the object
\* out, which the head follows two steps later.
Front == IF consumer \in {"destroy", "release"} THEN head_ + 1 ELSE head_

Consumers == {"consumer"}

Fifo == INSTANCE BoundedFifo WITH
  Consumer <- Consumers,
  Capacity <- capacity_,
  queue <- IF producer \in {"destructor", "destroyed"} THEN <<>>
           ELSE [k \in 1..(tail_ - Front) |-> ring_[Index(Front + k - 1)]],
  taken <- [c \in Consumers |-> place]

\* Until it is destroyed the queue hands out the values in the order they came.
ImplementsFifo ==
  Fifo!Init /\ [][Fifo!Next \/ DestructorCall]_Fifo!vars
=============================================================================
