-------------------------- MODULE MpmcBoundedQueue --------------------------
(***************************************************************************)
(* The lock-free bounded queue of concurrent_structures/mpmc_lockfree.cpp. *)
(* One step is one access to shared memory; what a thread does to its own  *)
(* variables between two accesses belongs to the step before.  A thread    *)
(* that both produces and consumes is one Producer and one Consumer that   *)
(* are never busy together, so the two sets are disjoint.                  *)
(*                                                                         *)
(* The position counters are read memory_order_relaxed and a sequence      *)
(* number may be read before a newer one becomes visible.  With StaleReads *)
(* a load returns any value the location held, no older for a counter than *)
(* the one the thread last used; a compare-exchange always acts on the     *)
(* newest value.  Without StaleReads every load is current.                *)
(***************************************************************************)
EXTENDS Integers, Sequences

CONSTANTS
  Producer, Consumer,  \* the threads that call enqueue and dequeue
  Value, None,         \* the values queued; None before the first dequeue
  Capacity,            \* buffer_size
  StaleReads,          \* may loads return older values?
  MaxPos               \* bound: no enqueue starts at or past this position

ASSUME ThreadAssumption == Producer \cap Consumer = {}

\* assert((buffer_size >= 2) && ((buffer_size & (buffer_size - 1)) == 0))
ASSUME CapacityAssumption ==
  /\ Capacity \in Nat
  /\ Capacity >= 2
  /\ \E k \in 1..Capacity : Capacity = 2^k

ASSUME BoundAssumption == MaxPos \in Nat /\ StaleReads \in BOOLEAN

VARIABLES
  sequence_, data_,              \* the cells, by index
  enqueue_pos_, dequeue_pos_,
  pc, pos,                       \* per thread: control and local `pos`
  data                           \* per thread: the parameter `data`

shared == <<sequence_, data_, enqueue_pos_, dequeue_pos_>>
vars == <<sequence_, data_, enqueue_pos_, dequeue_pos_, pc, pos, data>>

Thread == Producer \cup Consumer

\* pos & buffer_mask_, for a capacity that is a power of two.
Cell(p) == p % Capacity

Cells == 0..(Capacity - 1)

\* The values a load of a counter can return to a thread that last used `last`.
LoadPos(last, current) == IF StaleReads THEN last..current ELSE {current}

\* The values a load of the sequence number of cell i can return.
LoadSeq(i) ==
  IF StaleReads
  THEN {s \in 0..sequence_[i] : Cell(s) = i \/ (s > 0 /\ Cell(s - 1) = i)}
  ELSE {sequence_[i]}

Goto(t, label) == pc' = [pc EXCEPT ![t] = label]

Init ==
  /\ sequence_ = [i \in Cells |-> i]
  /\ data_ = [i \in Cells |-> None]
  /\ enqueue_pos_ = 0
  /\ dequeue_pos_ = 0
  /\ pc = [t \in Thread |-> "idle"]
  /\ pos = [t \in Thread |-> 0]
  /\ data = [t \in Thread |-> None]

-----------------------------------------------------------------------------
(* bool enqueue(T const &data) *)

EnqueueCall(p, v) ==
  /\ pc[p] = "idle"
  /\ enqueue_pos_ < MaxPos
  /\ \E x \in LoadPos(pos[p], enqueue_pos_) : pos' = [pos EXCEPT ![p] = x]
  /\ data' = [data EXCEPT ![p] = v]
  /\ Goto(p, "enq_seq")
  /\ UNCHANGED shared

\* Faulty variant: `dif <= 0` is taken for a free slot.
EnqueueSeqFullIsFree(p) ==
  /\ pc[p] = "enq_seq"
  /\ \E seq \in LoadSeq(Cell(pos[p])) :
       \/ seq <= pos[p] /\ Goto(p, "enq_cas")
       \/ seq > pos[p] /\ Goto(p, "enq_reload")
  /\ UNCHANGED <<shared, pos, data>>

\* Faulty variant: a slot taken by another producer is reported as a full queue.
EnqueueSeqNoReload(p) ==
  /\ pc[p] = "enq_seq"
  /\ \E seq \in LoadSeq(Cell(pos[p])) :
       \/ seq = pos[p] /\ Goto(p, "enq_cas")
       \/ seq # pos[p] /\ Goto(p, "idle")
  /\ UNCHANGED <<shared, pos, data>>

\* dif = seq - pos: claim the slot, report a full queue, or reload.
EnqueueSeq(p) ==
  /\ pc[p] = "enq_seq"
  /\ \E seq \in LoadSeq(Cell(pos[p])) :
       \/ seq = pos[p] /\ Goto(p, "enq_cas")
       \/ seq < pos[p] /\ Goto(p, "idle")
       \/ seq > pos[p] /\ Goto(p, "enq_reload")
  /\ UNCHANGED <<shared, pos, data>>

\* Faulty variant: the position is stored without comparing.
EnqueueCasBlind(p) ==
  /\ pc[p] = "enq_cas"
  /\ enqueue_pos_' = pos[p] + 1
  /\ Goto(p, "enq_write")
  /\ UNCHANGED <<sequence_, data_, dequeue_pos_, pos, data>>

EnqueueCas(p) ==
  /\ pc[p] = "enq_cas"
  /\ \/ /\ enqueue_pos_ = pos[p]
        /\ enqueue_pos_' = pos[p] + 1
        /\ Goto(p, "enq_write")
        /\ UNCHANGED pos
     \/ /\ enqueue_pos_ # pos[p]
        /\ pos' = [pos EXCEPT ![p] = enqueue_pos_]
        /\ Goto(p, "enq_seq")
        /\ UNCHANGED enqueue_pos_
  /\ UNCHANGED <<sequence_, data_, dequeue_pos_, data>>

\* compare_exchange_weak fails although it found enqueue_pos_ = pos.
EnqueueSpuriousFailure(p) ==
  /\ pc[p] = "enq_cas"
  /\ enqueue_pos_ = pos[p]
  /\ Goto(p, "enq_seq")
  /\ UNCHANGED <<shared, pos, data>>

EnqueueReload(p) ==
  /\ pc[p] = "enq_reload"
  /\ \E x \in LoadPos(pos[p], enqueue_pos_) : pos' = [pos EXCEPT ![p] = x]
  /\ Goto(p, "enq_seq")
  /\ UNCHANGED <<shared, data>>

EnqueueWrite(p) ==
  /\ pc[p] = "enq_write"
  /\ data_' = [data_ EXCEPT ![Cell(pos[p])] = data[p]]
  /\ Goto(p, "enq_publish")
  /\ UNCHANGED <<sequence_, enqueue_pos_, dequeue_pos_, pos, data>>

\* Faulty variant: the cell is published with the position, not with pos + 1.
EnqueuePublishSame(p) ==
  /\ pc[p] = "enq_publish"
  /\ sequence_' = [sequence_ EXCEPT ![Cell(pos[p])] = pos[p]]
  /\ Goto(p, "idle")
  /\ UNCHANGED <<data_, enqueue_pos_, dequeue_pos_, pos, data>>

EnqueuePublish(p) ==
  /\ pc[p] = "enq_publish"
  /\ sequence_' = [sequence_ EXCEPT ![Cell(pos[p])] = pos[p] + 1]
  /\ Goto(p, "idle")
  /\ UNCHANGED <<data_, enqueue_pos_, dequeue_pos_, pos, data>>

-----------------------------------------------------------------------------
(* bool dequeue(T &data) *)

DequeueCall(c) ==
  /\ pc[c] = "idle"
  /\ \E x \in LoadPos(pos[c], dequeue_pos_) : pos' = [pos EXCEPT ![c] = x]
  /\ Goto(c, "deq_seq")
  /\ UNCHANGED <<shared, data>>

\* Faulty variant: an item taken by another consumer is reported as an empty queue.
DequeueSeqNoReload(c) ==
  /\ pc[c] = "deq_seq"
  /\ \E seq \in LoadSeq(Cell(pos[c])) :
       \/ seq = pos[c] + 1 /\ Goto(c, "deq_cas")
       \/ seq # pos[c] + 1 /\ Goto(c, "idle")
  /\ UNCHANGED <<shared, pos, data>>

\* dif = seq - (pos + 1): claim the item, report an empty queue, or reload.
DequeueSeq(c) ==
  /\ pc[c] = "deq_seq"
  /\ \E seq \in LoadSeq(Cell(pos[c])) :
       \/ seq = pos[c] + 1 /\ Goto(c, "deq_cas")
       \/ seq < pos[c] + 1 /\ Goto(c, "idle")
       \/ seq > pos[c] + 1 /\ Goto(c, "deq_reload")
  /\ UNCHANGED <<shared, pos, data>>

DequeueCas(c) ==
  /\ pc[c] = "deq_cas"
  /\ \/ /\ dequeue_pos_ = pos[c]
        /\ dequeue_pos_' = pos[c] + 1
        /\ Goto(c, "deq_read")
        /\ UNCHANGED pos
     \/ /\ dequeue_pos_ # pos[c]
        /\ pos' = [pos EXCEPT ![c] = dequeue_pos_]
        /\ Goto(c, "deq_seq")
        /\ UNCHANGED dequeue_pos_
  /\ UNCHANGED <<sequence_, data_, enqueue_pos_, data>>

\* compare_exchange_weak fails although it found dequeue_pos_ = pos.
DequeueSpuriousFailure(c) ==
  /\ pc[c] = "deq_cas"
  /\ dequeue_pos_ = pos[c]
  /\ Goto(c, "deq_seq")
  /\ UNCHANGED <<shared, pos, data>>

DequeueReload(c) ==
  /\ pc[c] = "deq_reload"
  /\ \E x \in LoadPos(pos[c], dequeue_pos_) : pos' = [pos EXCEPT ![c] = x]
  /\ Goto(c, "deq_seq")
  /\ UNCHANGED <<shared, data>>

DequeueRead(c) ==
  /\ pc[c] = "deq_read"
  /\ data' = [data EXCEPT ![c] = data_[Cell(pos[c])]]
  /\ Goto(c, "deq_release")
  /\ UNCHANGED <<shared, pos>>

\* Faulty variant: the mask is taken for the size, and the cell skips a number.
DequeueReleaseLate(c) ==
  /\ pc[c] = "deq_release"
  /\ sequence_' = [sequence_ EXCEPT ![Cell(pos[c])] = pos[c] + Capacity + 1]
  /\ Goto(c, "idle")
  /\ UNCHANGED <<data_, enqueue_pos_, dequeue_pos_, pos, data>>

\* pos + buffer_mask_ + 1
DequeueRelease(c) ==
  /\ pc[c] = "deq_release"
  /\ sequence_' = [sequence_ EXCEPT ![Cell(pos[c])] = pos[c] + Capacity]
  /\ Goto(c, "idle")
  /\ UNCHANGED <<data_, enqueue_pos_, dequeue_pos_, pos, data>>

-----------------------------------------------------------------------------
Enqueue(p) ==
  \/ EnqueueSeq(p) \/ EnqueueCas(p) \/ EnqueueReload(p)
  \/ EnqueueWrite(p) \/ EnqueuePublish(p)

Dequeue(c) ==
  \/ DequeueSeq(c) \/ DequeueCas(c) \/ DequeueReload(c)
  \/ DequeueRead(c) \/ DequeueRelease(c)

Next ==
  \/ \E p \in Producer : \/ \E v \in Value : EnqueueCall(p, v)
                         \/ Enqueue(p) \/ EnqueueSpuriousFailure(p)
  \/ \E c \in Consumer : DequeueCall(c) \/ Dequeue(c) \/ DequeueSpuriousFailure(c)

Spec == Init /\ [][Next]_vars

\* Every thread finishes the call it is in and consumers poll for ever;
\* producers may stop calling.  compare_exchange_weak may fail spuriously any
\* number of times, but a thread that keeps trying meets an honest answer.
Fairness ==
  /\ \A p \in Producer : WF_vars(Enqueue(p)) /\ SF_vars(EnqueueCas(p))
  /\ \A c \in Consumer : /\ WF_vars(DequeueCall(c) \/ Dequeue(c))
                         /\ SF_vars(DequeueCas(c))

FairSpec == Spec /\ Fairness

-----------------------------------------------------------------------------
(***************************************************************************)
(* Properties.                                                             *)
(***************************************************************************)

Producing == {"idle", "enq_seq", "enq_cas", "enq_reload", "enq_write", "enq_publish"}
Consuming == {"idle", "deq_seq", "deq_cas", "deq_reload", "deq_read", "deq_release"}

\* The types of the cells, the counters and the threads' variables.
TypeOK ==
  /\ sequence_ \in [Cells -> Nat]
  /\ data_ \in [Cells -> Value \cup {None}]
  /\ enqueue_pos_ \in Nat
  /\ dequeue_pos_ \in Nat
  /\ pc \in [Thread -> Producing \cup Consuming]
  /\ \A p \in Producer : pc[p] \in Producing
  /\ \A c \in Consumer : pc[c] \in Consuming
  /\ pos \in [Thread -> Nat]
  /\ data \in [Thread -> Value \cup {None}]

\* The threads that own a cell, and those about to touch its data.
Writing(t) == pc[t] \in {"enq_write", "enq_publish"}
Reading(t) == pc[t] \in {"deq_read", "deq_release"}
Accessing(t) == pc[t] \in {"enq_write", "deq_read"}

\* "single producer owns this cell", "single consumer owns this cell": data_
\* is a plain T, so two threads touching one cell at once would be a race.
CellExclusive ==
  \A t, u \in Thread :
    t # u /\ Accessing(t) /\ Accessing(u) => Cell(pos[t]) # Cell(pos[u])

\* The positions in the queue, and those a producer may claim before another
\* item is dequeued.  Together they name every cell exactly once.
Queued == dequeue_pos_..(enqueue_pos_ - 1)
Claimable == enqueue_pos_..(dequeue_pos_ + Capacity - 1)

(***************************************************************************)
(* Why no two owners ever meet: the inductive invariant.  Each part is a   *)
(* line of the file's ALGORITHM OVERVIEW made exact.                       *)
(***************************************************************************)

\* The counters never drift further apart than the buffer is long, and no
\* thread remembers a position that has not been reached.
WindowInv ==
  /\ dequeue_pos_ <= enqueue_pos_
  /\ enqueue_pos_ <= dequeue_pos_ + Capacity
  /\ \A p \in Producer : pos[p] <= enqueue_pos_
  /\ \A c \in Consumer : pos[c] <= dequeue_pos_

\* "seq == pos + 1: slot is FULL", unless its producer is still at work;
\* "seq == pos: slot is EMPTY", unless its consumer is.
SequenceInv ==
  /\ \A q \in Queued :
       \/ sequence_[Cell(q)] = q + 1
       \/ sequence_[Cell(q)] = q
  /\ \A q \in Claimable :
       \/ sequence_[Cell(q)] = q
       \/ sequence_[Cell(q)] = q - Capacity + 1

\* An owner's position lies in the window, its cell is not published or
\* released under it, and no other thread owns the same position.
OwnerInv ==
  /\ \A p \in Producer : Writing(p) =>
       /\ pos[p] \in Queued
       /\ sequence_[Cell(pos[p])] = pos[p]
       /\ \A q \in Producer : Writing(q) /\ pos[q] = pos[p] => q = p
  /\ \A c \in Consumer : Reading(c) =>
       /\ pos[c] < dequeue_pos_
       /\ pos[c] + Capacity \in Claimable
       /\ sequence_[Cell(pos[c])] = pos[c] + 1
       /\ \A d \in Consumer : Reading(d) /\ pos[d] = pos[c] => d = c

\* A compare-exchange that succeeds finds the cell in the state the thread saw.
ClaimInv ==
  /\ \A p \in Producer :
       pc[p] = "enq_cas" /\ enqueue_pos_ = pos[p] => sequence_[Cell(pos[p])] = pos[p]
  /\ \A c \in Consumer :
       pc[c] = "deq_cas" /\ dequeue_pos_ = pos[c] => sequence_[Cell(pos[c])] = pos[c] + 1

\* The inductive invariant from which CellExclusive and ImplementsFifo follow.
IInv == TypeOK /\ WindowInv /\ SequenceInv /\ OwnerInv /\ ClaimInv

(***************************************************************************)
(* The queue is a bounded FIFO.  An enqueue takes effect when it claims    *)
(* its position, a dequeue when it claims its own; until the producer of   *)
(* a position has written the cell, the value is still its parameter.      *)
(***************************************************************************)
ValueAt(q) ==
  IF \E p \in Producer : pc[p] = "enq_write" /\ pos[p] = q
  THEN data[CHOOSE p \in Producer : pc[p] = "enq_write" /\ pos[p] = q]
  ELSE data_[Cell(q)]

Fifo == INSTANCE BoundedFifo WITH
  queue <- [k \in 1..(enqueue_pos_ - dequeue_pos_) |-> ValueAt(dequeue_pos_ + k - 1)],
  taken <- [c \in Consumer |-> IF pc[c] = "deq_read"
                               THEN data_[Cell(pos[c])] ELSE data[c]]

\* No value is lost, duplicated, overwritten or reordered, and never more
\* than Capacity are held, however the calls interleave.
ImplementsFifo == Fifo!Spec

Refused(t, label) == pc[t] = label /\ pc'[t] = "idle"

\* The cell's newest sequence number lies behind as well, so that a load which returned
\* an older one has not made the difference.
EnqueueBehind(p) == sequence_[Cell(pos[p])] < pos[p]
DequeueBehind(c) == sequence_[Cell(pos[c])] < pos[c] + 1

\* enqueue answers false only when the queue is full, or a consumer that has claimed
\* the same cell a round ago has not released it yet, or (with stale loads) the number
\* it read was not the cell's newest.
EnqueueRefusal ==
  [][\A p \in Producer : Refused(p, "enq_seq") /\ (StaleReads => EnqueueBehind(p)) =>
       \/ enqueue_pos_ - dequeue_pos_ = Capacity
       \/ \E c \in Consumer : Reading(c) /\ Cell(pos[c]) = Cell(pos[p])]_vars

\* dequeue answers false only when the queue is empty, or the producer that has
\* claimed the cell at the head has not published it yet, or (with stale loads) the
\* number it read was not the cell's newest.  In the second case items behind that
\* cell may be published, although the code's comment says "Queue is empty".
DequeueRefusal ==
  [][\A c \in Consumer : Refused(c, "deq_seq") /\ (StaleReads => DequeueBehind(c)) =>
       \/ enqueue_pos_ = dequeue_pos_
       \/ \E p \in Producer : Writing(p) /\ Cell(pos[p]) = Cell(pos[c])]_vars

\* Every position a producer claims is eventually claimed by a consumer.
Delivered ==
  \A q \in 0..(MaxPos + 2) : enqueue_pos_ > q ~> dequeue_pos_ > q
=============================================================================
