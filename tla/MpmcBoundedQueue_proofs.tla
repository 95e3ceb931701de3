----------------------- MODULE MpmcBoundedQueue_proofs -----------------------
(***************************************************************************)
(* Proofs about MpmcBoundedQueue.  The argument: positions that lie less   *)
(* than Capacity apart have different cells (CellInjective), the invariant *)
(* keeps the owners' positions inside such a window, so two owners share a *)
(* cell only if they share a position (OwnersApart), and the compare-      *)
(* exchange gives each position to one thread.                             *)
(***************************************************************************)
EXTENDS MpmcBoundedQueue, Lemmas, TLAPS

\* pos & buffer_mask_ is an index of buffer_.
LEMMA CellType == \A q \in Nat : Cell(q) \in Cells
BY CapacityAssumption DEF Cell, Cells

\* The constructor's buffer_[i] is the cell of position i.
LEMMA CellOfIndex == \A i \in Cells : Cell(i) = i
BY CapacityAssumption DEF Cell, Cells

\* pos + buffer_mask_ + 1, which dequeue stores, names the cell that pos names.
LEMMA CellPeriod == \A q \in Nat : Cell(q + Capacity) = Cell(q)
<1>1. Capacity \in Nat \ {0}
  BY CapacityAssumption
<1> QED
  BY <1>1, RingPeriod DEF Cell

\* Positions less than one round apart have different cells.
LEMMA CellInjective ==
  \A q, r \in Nat : q < r /\ r < q + Capacity => Cell(q) # Cell(r)
<1>1. Capacity \in Nat \ {0}
  BY CapacityAssumption
<1> QED
  BY <1>1, RingInjective DEF Cell

\* Every cell is that of one of the next Capacity positions.
LEMMA CellOnto ==
  \A q \in Nat, i \in Cells : \E r \in q..(q + Capacity - 1) : Cell(r) = i
<1>1. Capacity \in Nat \ {0}
  BY CapacityAssumption
<1> QED
  BY <1>1, RingOnto DEF Cell, Cells

-----------------------------------------------------------------------------
\* Every step of enqueue and dequeue keeps the types.
LEMMA TypeInductive == TypeOK /\ [Next]_vars => TypeOK'
<1> SUFFICES ASSUME TypeOK, [Next]_vars PROVE TypeOK'
  OBVIOUS
<1> USE CapacityAssumption, ThreadAssumption, CellType
    DEF TypeOK, Thread, Goto, shared, Producing, Consuming, LoadPos
<1>1. ASSUME NEW p \in Producer, NEW v \in Value, EnqueueCall(p, v) PROVE TypeOK'
  BY <1>1 DEF EnqueueCall
<1>2. ASSUME NEW p \in Producer, EnqueueSeq(p) PROVE TypeOK'
  BY <1>2 DEF EnqueueSeq
<1>3. ASSUME NEW p \in Producer, EnqueueCas(p) PROVE TypeOK'
  BY <1>3 DEF EnqueueCas
<1>4. ASSUME NEW p \in Producer, EnqueueSpuriousFailure(p) PROVE TypeOK'
  BY <1>4 DEF EnqueueSpuriousFailure
<1>5. ASSUME NEW p \in Producer, EnqueueReload(p) PROVE TypeOK'
  BY <1>5 DEF EnqueueReload
<1>6. ASSUME NEW p \in Producer, EnqueueWrite(p) PROVE TypeOK'
  BY <1>6 DEF EnqueueWrite
<1>7. ASSUME NEW p \in Producer, EnqueuePublish(p) PROVE TypeOK'
  BY <1>7 DEF EnqueuePublish
<1>8. ASSUME NEW c \in Consumer, DequeueCall(c) PROVE TypeOK'
  BY <1>8 DEF DequeueCall
<1>9. ASSUME NEW c \in Consumer, DequeueSeq(c) PROVE TypeOK'
  BY <1>9 DEF DequeueSeq
<1>10. ASSUME NEW c \in Consumer, DequeueCas(c) PROVE TypeOK'
  BY <1>10 DEF DequeueCas
<1>11. ASSUME NEW c \in Consumer, DequeueSpuriousFailure(c) PROVE TypeOK'
  BY <1>11 DEF DequeueSpuriousFailure
<1>12. ASSUME NEW c \in Consumer, DequeueReload(c) PROVE TypeOK'
  BY <1>12 DEF DequeueReload
<1>13. ASSUME NEW c \in Consumer, DequeueRead(c) PROVE TypeOK'
  BY <1>13 DEF DequeueRead
<1>14. ASSUME NEW c \in Consumer, DequeueRelease(c) PROVE TypeOK'
  BY <1>14 DEF DequeueRelease
<1>15. CASE UNCHANGED vars
  BY <1>15 DEF vars
<1> QED
  BY <1>1, <1>2, <1>3, <1>4, <1>5, <1>6, <1>7, <1>8, <1>9, <1>10, <1>11, <1>12, <1>13, <1>14, <1>15 DEF Next, Enqueue, Dequeue

-----------------------------------------------------------------------------
\* The index of a cell lies between zero and the capacity.
LEMMA CellBounds ==
  /\ Capacity \in Nat
  /\ Capacity >= 2
BY CapacityAssumption

\* The positions queued and claimable name different cells: at most one position
\* of the window lies in any cell of buffer_.
LEMMA WindowInjective ==
  ASSUME IInv, NEW q \in Queued \cup Claimable, NEW r \in Queued \cup Claimable,
         Cell(q) = Cell(r)
  PROVE  q = r
<1>1. /\ q \in Nat /\ r \in Nat
      /\ q < r + Capacity /\ r < q + Capacity
  BY CellBounds DEF IInv, TypeOK, WindowInv, Queued, Claimable
<1> QED
  BY <1>1, CellInjective

\* The positions queued and claimable are natural numbers.
LEMMA WindowType ==
  ASSUME TypeOK PROVE Queued \subseteq Nat /\ Claimable \subseteq Nat
BY CellBounds DEF TypeOK, Queued, Claimable

\* The cell that the next enqueue will claim is free, or still held by the
\* consumer of one round ago.
LEMMA TailSequence ==
  ASSUME IInv PROVE sequence_[Cell(enqueue_pos_)] <= enqueue_pos_
<1> USE CellBounds DEF IInv, TypeOK
<1>1. CASE enqueue_pos_ = dequeue_pos_ + Capacity
  <2>1. Cell(enqueue_pos_) = Cell(dequeue_pos_)
    BY <1>1, CellPeriod
  <2>2. dequeue_pos_ \in Queued
    BY <1>1 DEF Queued
  <2> QED
    BY <1>1, <2>1, <2>2 DEF SequenceInv
<1>2. CASE enqueue_pos_ # dequeue_pos_ + Capacity
  <2>1. enqueue_pos_ \in Claimable
    BY <1>2 DEF WindowInv, Claimable
  <2> QED
    BY <2>1 DEF SequenceInv
<1> QED
  BY <1>1, <1>2

\* The cell that the next dequeue will claim is published, or its producer is
\* still at work.
LEMMA HeadSequence ==
  ASSUME IInv PROVE sequence_[Cell(dequeue_pos_)] <= dequeue_pos_ + 1
<1> USE CellBounds DEF IInv, TypeOK
<1>1. dequeue_pos_ \in Queued \/ dequeue_pos_ \in Claimable
  BY DEF WindowInv, Queued, Claimable
<1> QED
  BY <1>1 DEF SequenceInv

\* The cell a consumer holds is that of a claimable position, one round later.
LEMMA ReaderCell ==
  ASSUME IInv, NEW c \in Consumer, Reading(c)
  PROVE  /\ pos[c] + Capacity \in Claimable
         /\ Cell(pos[c] + Capacity) = Cell(pos[c])
         /\ sequence_[Cell(pos[c])] = pos[c] + 1
<1>1. pos[c] \in Nat
  BY DEF IInv, TypeOK, Thread
<1> QED
  BY <1>1, CellPeriod DEF IInv, OwnerInv

\* The cell a producer holds is that of a queued position.
LEMMA WriterCell ==
  ASSUME IInv, NEW p \in Producer, Writing(p)
  PROVE  /\ pos[p] \in Queued
         /\ sequence_[Cell(pos[p])] = pos[p]
BY DEF IInv, OwnerInv

\* A compare-exchange of enqueue that succeeds finds room: dequeue_pos_ has left
\* the cell behind, so the counters stay within one round of each other.
LEMMA EnqueueRoom ==
  ASSUME IInv, NEW p \in Producer, pc[p] = "enq_cas", enqueue_pos_ = pos[p]
  PROVE  enqueue_pos_ < dequeue_pos_ + Capacity
<1> USE CellBounds DEF IInv, TypeOK, Thread
<1> SUFFICES ASSUME enqueue_pos_ = dequeue_pos_ + Capacity PROVE FALSE
  BY DEF WindowInv
<1>1. sequence_[Cell(enqueue_pos_)] = enqueue_pos_
  BY DEF ClaimInv
<1>2. Cell(enqueue_pos_) = Cell(dequeue_pos_)
  BY CellPeriod
<1>3. dequeue_pos_ \in Queued
  BY DEF Queued
<1> QED
  BY <1>1, <1>2, <1>3 DEF SequenceInv

\* A compare-exchange of dequeue that succeeds finds an item: dequeue_pos_ does
\* not pass enqueue_pos_.
LEMMA DequeueItem ==
  ASSUME IInv, NEW c \in Consumer, pc[c] = "deq_cas", dequeue_pos_ = pos[c]
  PROVE  dequeue_pos_ < enqueue_pos_
<1> USE CellBounds DEF IInv, TypeOK, Thread
<1> SUFFICES ASSUME enqueue_pos_ = dequeue_pos_ PROVE FALSE
  BY DEF WindowInv
<1>1. sequence_[Cell(dequeue_pos_)] = dequeue_pos_ + 1
  BY DEF ClaimInv
<1>2. dequeue_pos_ \in Claimable
  BY DEF Claimable
<1> QED
  BY <1>1, <1>2 DEF SequenceInv

\* The invariant is inductive: every step of enqueue and dequeue keeps it, with
\* any number of threads, any capacity, and with stale reads.
LEMMA InvInductive == IInv /\ [Next]_vars => IInv'
<1> SUFFICES ASSUME IInv, [Next]_vars PROVE IInv'
  OBVIOUS
<1>t. TypeOK'
  BY TypeInductive DEF IInv
<1> USE CellBounds, CellType, ThreadAssumption, <1>t
    DEF IInv, TypeOK, Thread, Goto, Producing, Consuming
<1>1. ASSUME NEW p \in Producer, NEW v \in Value, EnqueueCall(p, v) PROVE IInv'
  <2>1. WindowInv'
    BY <1>1 DEF EnqueueCall, LoadPos, shared, WindowInv
  <2>2. SequenceInv'
    BY <1>1 DEF EnqueueCall, LoadPos, shared, SequenceInv, Queued, Claimable
  <2>3. OwnerInv'
    BY <1>1 DEF EnqueueCall, LoadPos, shared, OwnerInv, Queued, Claimable, Writing, Reading
  <2>4. ClaimInv'
    BY <1>1 DEF EnqueueCall, LoadPos, shared, ClaimInv
  <2> QED
    BY <2>1, <2>2, <2>3, <2>4
<1>2. ASSUME NEW p \in Producer, EnqueueSeq(p) PROVE IInv'
  <2>1. WindowInv'
    BY <1>2 DEF EnqueueSeq, LoadSeq, shared, WindowInv
  <2>2. SequenceInv'
    BY <1>2 DEF EnqueueSeq, LoadSeq, shared, SequenceInv, Queued, Claimable
  <2>3. OwnerInv'
    BY <1>2 DEF EnqueueSeq, LoadSeq, shared, OwnerInv, Queued, Claimable, Writing, Reading
  <2>4. ClaimInv'
    <3>1. \A x \in LoadSeq(Cell(pos[p])) : x <= sequence_[Cell(pos[p])]
      BY DEF LoadSeq
    <3>2. enqueue_pos_ = pos[p] /\ pc'[p] = "enq_cas" => sequence_[Cell(pos[p])] = pos[p]
      BY <1>2, <3>1, TailSequence DEF EnqueueSeq
    <3> QED
      BY <1>2, <3>2 DEF EnqueueSeq, shared, ClaimInv
  <2> QED
    BY <2>1, <2>2, <2>3, <2>4
<1>3. ASSUME NEW p \in Producer, EnqueueCas(p) PROVE IInv'
  <2>1. CASE enqueue_pos_ # pos[p]
    <3>1. WindowInv'
      BY <1>3, <2>1 DEF EnqueueCas, WindowInv
    <3>2. SequenceInv'
      BY <1>3, <2>1 DEF EnqueueCas, SequenceInv, Queued, Claimable
    <3>3. OwnerInv'
      BY <1>3, <2>1 DEF EnqueueCas, OwnerInv, Queued, Claimable, Writing, Reading
    <3>4. ClaimInv'
      BY <1>3, <2>1 DEF EnqueueCas, ClaimInv
    <3> QED
      BY <3>1, <3>2, <3>3, <3>4
  <2>2. CASE enqueue_pos_ = pos[p]
    <3>1. WindowInv'
      BY <1>3, <2>2, EnqueueRoom DEF EnqueueCas, WindowInv
    <3>2. SequenceInv'
      BY <1>3, <2>2 DEF EnqueueCas, SequenceInv, Queued, Claimable, ClaimInv
    <3>3. OwnerInv'
      <4>1. \A c \in Consumer : Reading(c) => pos[c] + Capacity # enqueue_pos_
        BY <1>3, <2>2, ReaderCell DEF EnqueueCas, ClaimInv
      <4> QED
        BY <1>3, <2>2, <3>1, <4>1 DEF EnqueueCas, OwnerInv, Queued, Claimable, Writing, Reading, WindowInv, ClaimInv
    <3>4. ClaimInv'
      BY <1>3, <2>2, <3>1 DEF EnqueueCas, ClaimInv, WindowInv
    <3> QED
      BY <3>1, <3>2, <3>3, <3>4
  <2> QED
    BY <2>1, <2>2
<1>4. ASSUME NEW p \in Producer, EnqueueSpuriousFailure(p) PROVE IInv'
  <2>1. WindowInv'
    BY <1>4 DEF EnqueueSpuriousFailure, shared, WindowInv
  <2>2. SequenceInv'
    BY <1>4 DEF EnqueueSpuriousFailure, shared, SequenceInv, Queued, Claimable
  <2>3. OwnerInv'
    BY <1>4 DEF EnqueueSpuriousFailure, shared, OwnerInv, Queued, Claimable, Writing, Reading
  <2>4. ClaimInv'
    BY <1>4 DEF EnqueueSpuriousFailure, shared, ClaimInv
  <2> QED
    BY <2>1, <2>2, <2>3, <2>4
<1>5. ASSUME NEW p \in Producer, EnqueueReload(p) PROVE IInv'
  <2>1. WindowInv'
    BY <1>5 DEF EnqueueReload, LoadPos, shared, WindowInv
  <2>2. SequenceInv'
    BY <1>5 DEF EnqueueReload, LoadPos, shared, SequenceInv, Queued, Claimable
  <2>3. OwnerInv'
    BY <1>5 DEF EnqueueReload, LoadPos, shared, OwnerInv, Queued, Claimable, Writing, Reading
  <2>4. ClaimInv'
    BY <1>5 DEF EnqueueReload, LoadPos, shared, ClaimInv
  <2> QED
    BY <2>1, <2>2, <2>3, <2>4
<1>6. ASSUME NEW p \in Producer, EnqueueWrite(p) PROVE IInv'
  <2>1. WindowInv'
    BY <1>6 DEF EnqueueWrite, WindowInv
  <2>2. SequenceInv'
    BY <1>6 DEF EnqueueWrite, SequenceInv, Queued, Claimable
  <2>3. OwnerInv'
    BY <1>6 DEF EnqueueWrite, OwnerInv, Queued, Claimable, Writing, Reading
  <2>4. ClaimInv'
    BY <1>6 DEF EnqueueWrite, ClaimInv
  <2> QED
    BY <2>1, <2>2, <2>3, <2>4
<1>7. ASSUME NEW p \in Producer, EnqueuePublish(p) PROVE IInv'
  <2> DEFINE at == Cell(pos[p])
  <2>p. /\ pos[p] \in Queued
        /\ sequence_[at] = pos[p]
        /\ Queued' = Queued /\ Claimable' = Claimable
        /\ at \in Cells
    BY <1>7, WriterCell DEF EnqueuePublish, Writing, Queued, Claimable
  <2>s. /\ sequence_'[at] = pos[p] + 1
        /\ \A i \in Cells : i # at => sequence_'[i] = sequence_[i]
    BY <1>7, <2>p DEF EnqueuePublish
  <2>1. WindowInv'
    BY <1>7 DEF EnqueuePublish, WindowInv
  <2>2. SequenceInv'
    <3>1. \A q \in Queued \cup Claimable : q \in Nat /\ (Cell(q) = at => q = pos[p])
      <4>1. ASSUME NEW q \in Queued \cup Claimable, Cell(q) = at PROVE q = pos[p]
        BY <2>p, <4>1, WindowInjective
      <4> QED
        BY <4>1, WindowType
    <3>2. pos[p] \notin Claimable
      BY <2>p DEF Queued, Claimable
    <3> QED
      BY <2>p, <2>s, <3>1, <3>2 DEF SequenceInv
  <2>3. OwnerInv'
    <3>1. \A t \in Thread : t # p => Writing(t)' = Writing(t) /\ Reading(t)' = Reading(t)
      BY <1>7 DEF EnqueuePublish, Writing, Reading
    <3>2. ~Writing(p)' /\ pos' = pos /\ enqueue_pos_' = enqueue_pos_ /\ dequeue_pos_' = dequeue_pos_
      BY <1>7 DEF EnqueuePublish, Writing
    <3>3. \A q \in Producer : q # p /\ Writing(q) => Cell(pos[q]) # at
      BY <1>7, <2>p, WindowInjective, WriterCell DEF EnqueuePublish, Writing, OwnerInv
    <3>4. \A c \in Consumer : Reading(c) => Cell(pos[c]) # at
      <4>1. Queued \cap Claimable = {}
        BY DEF Queued, Claimable
      <4> QED
        BY <2>p, <4>1, WindowInjective, ReaderCell
    <3> QED
      BY <2>p, <2>s, <3>1, <3>2, <3>3, <3>4 DEF OwnerInv
  <2>4. ClaimInv'
    <3>1. \A q \in Producer : pc[q] = "enq_cas" /\ enqueue_pos_ = pos[q] => Cell(pos[q]) # at
      <4> SUFFICES ASSUME NEW q \in Producer, pc[q] = "enq_cas", enqueue_pos_ = pos[q], Cell(pos[q]) = at
                   PROVE  FALSE
        OBVIOUS
      <4>1. pos[q] \in Claimable /\ pos[q] \notin Queued
        BY EnqueueRoom DEF Claimable, Queued
      <4> QED
        BY <2>p, <4>1, WindowInjective
    <3>2. \A c \in Consumer : pc[c] = "deq_cas" /\ dequeue_pos_ = pos[c] => Cell(pos[c]) # at
      <4> SUFFICES ASSUME NEW c \in Consumer, pc[c] = "deq_cas", dequeue_pos_ = pos[c], Cell(pos[c]) = at
                   PROVE  FALSE
        OBVIOUS
      <4>1. pos[c] \in Queued
        BY DequeueItem DEF Queued
      <4>2. pos[c] = pos[p]
        BY <2>p, <4>1, WindowInjective
      <4> QED
        BY <2>p, <4>2 DEF ClaimInv
    <3> QED
      BY <1>7, <2>s, <3>1, <3>2 DEF EnqueuePublish, ClaimInv
  <2> QED
    BY <2>1, <2>2, <2>3, <2>4
<1>8. ASSUME NEW c \in Consumer, DequeueCall(c) PROVE IInv'
  <2>1. WindowInv'
    BY <1>8 DEF DequeueCall, LoadPos, shared, WindowInv
  <2>2. SequenceInv'
    BY <1>8 DEF DequeueCall, LoadPos, shared, SequenceInv, Queued, Claimable
  <2>3. OwnerInv'
    BY <1>8 DEF DequeueCall, LoadPos, shared, OwnerInv, Queued, Claimable, Writing, Reading
  <2>4. ClaimInv'
    BY <1>8 DEF DequeueCall, LoadPos, shared, ClaimInv
  <2> QED
    BY <2>1, <2>2, <2>3, <2>4
<1>9. ASSUME NEW c \in Consumer, DequeueSeq(c) PROVE IInv'
  <2>1. WindowInv'
    BY <1>9 DEF DequeueSeq, LoadSeq, shared, WindowInv
  <2>2. SequenceInv'
    BY <1>9 DEF DequeueSeq, LoadSeq, shared, SequenceInv, Queued, Claimable
  <2>3. OwnerInv'
    BY <1>9 DEF DequeueSeq, LoadSeq, shared, OwnerInv, Queued, Claimable, Writing, Reading
  <2>4. ClaimInv'
    <3>1. \A x \in LoadSeq(Cell(pos[c])) : x <= sequence_[Cell(pos[c])]
      BY DEF LoadSeq
    <3>2. dequeue_pos_ = pos[c] /\ pc'[c] = "deq_cas" => sequence_[Cell(pos[c])] = pos[c] + 1
      BY <1>9, <3>1, HeadSequence DEF DequeueSeq
    <3> QED
      BY <1>9, <3>2 DEF DequeueSeq, shared, ClaimInv
  <2> QED
    BY <2>1, <2>2, <2>3, <2>4
<1>10. ASSUME NEW c \in Consumer, DequeueCas(c) PROVE IInv'
  <2>1. CASE dequeue_pos_ # pos[c]
    <3>1. WindowInv'
      <4>1. /\ enqueue_pos_' = enqueue_pos_ /\ dequeue_pos_' = dequeue_pos_
            /\ \A p \in Producer : pos'[p] = pos[p]
            /\ \A d \in Consumer : pos'[d] = pos[d] \/ pos'[d] = dequeue_pos_
        BY <1>10, <2>1 DEF DequeueCas
      <4> QED
        BY <4>1 DEF WindowInv
    <3>2. SequenceInv'
      BY <1>10, <2>1 DEF DequeueCas, SequenceInv, Queued, Claimable
    <3>3. OwnerInv'
      BY <1>10, <2>1 DEF DequeueCas, OwnerInv, Queued, Claimable, Writing, Reading
    <3>4. ClaimInv'
      BY <1>10, <2>1 DEF DequeueCas, ClaimInv
    <3> QED
      BY <3>1, <3>2, <3>3, <3>4
  <2>2. CASE dequeue_pos_ = pos[c]
    <3>1. WindowInv'
      BY <1>10, <2>2, DequeueItem DEF DequeueCas, WindowInv
    <3>2. SequenceInv'
      <4>1. sequence_[Cell(dequeue_pos_ + Capacity)] = dequeue_pos_ + 1
        BY <1>10, <2>2, CellPeriod DEF DequeueCas, ClaimInv
      <4>2. Queued' \subseteq Queued /\ Claimable' \subseteq Claimable \cup {dequeue_pos_ + Capacity}
        BY <1>10, <2>2 DEF DequeueCas, Queued, Claimable
      <4> QED
        BY <1>10, <2>2, <4>1, <4>2 DEF DequeueCas, SequenceInv
    <3>3. OwnerInv'
      BY <1>10, <2>2, <3>1 DEF DequeueCas, OwnerInv, Queued, Claimable, Writing, Reading, WindowInv, ClaimInv
    <3>4. ClaimInv'
      BY <1>10, <2>2, <3>1 DEF DequeueCas, ClaimInv, WindowInv
    <3> QED
      BY <3>1, <3>2, <3>3, <3>4
  <2> QED
    BY <2>1, <2>2
<1>11. ASSUME NEW c \in Consumer, DequeueSpuriousFailure(c) PROVE IInv'
  <2>1. WindowInv'
    BY <1>11 DEF DequeueSpuriousFailure, shared, WindowInv
  <2>2. SequenceInv'
    BY <1>11 DEF DequeueSpuriousFailure, shared, SequenceInv, Queued, Claimable
  <2>3. OwnerInv'
    BY <1>11 DEF DequeueSpuriousFailure, shared, OwnerInv, Queued, Claimable, Writing, Reading
  <2>4. ClaimInv'
    BY <1>11 DEF DequeueSpuriousFailure, shared, ClaimInv
  <2> QED
    BY <2>1, <2>2, <2>3, <2>4
<1>12. ASSUME NEW c \in Consumer, DequeueReload(c) PROVE IInv'
  <2>1. WindowInv'
    BY <1>12 DEF DequeueReload, LoadPos, shared, WindowInv
  <2>2. SequenceInv'
    BY <1>12 DEF DequeueReload, LoadPos, shared, SequenceInv, Queued, Claimable
  <2>3. OwnerInv'
    BY <1>12 DEF DequeueReload, LoadPos, shared, OwnerInv, Queued, Claimable, Writing, Reading
  <2>4. ClaimInv'
    BY <1>12 DEF DequeueReload, LoadPos, shared, ClaimInv
  <2> QED
    BY <2>1, <2>2, <2>3, <2>4
<1>13. ASSUME NEW c \in Consumer, DequeueRead(c) PROVE IInv'
  <2>1. WindowInv'
    BY <1>13 DEF DequeueRead, shared, WindowInv
  <2>2. SequenceInv'
    BY <1>13 DEF DequeueRead, shared, SequenceInv, Queued, Claimable
  <2>3. OwnerInv'
    BY <1>13 DEF DequeueRead, shared, OwnerInv, Queued, Claimable, Writing, Reading
  <2>4. ClaimInv'
    BY <1>13 DEF DequeueRead, shared, ClaimInv
  <2> QED
    BY <2>1, <2>2, <2>3, <2>4
<1>14. ASSUME NEW c \in Consumer, DequeueRelease(c) PROVE IInv'
  <2> DEFINE at == Cell(pos[c])
  <2> DEFINE next == pos[c] + Capacity
  <2>p. /\ next \in Claimable
        /\ Cell(next) = at
        /\ sequence_[at] = pos[c] + 1
        /\ Queued' = Queued /\ Claimable' = Claimable
        /\ at \in Cells
    BY <1>14, ReaderCell DEF DequeueRelease, Reading, Queued, Claimable
  <2>s. /\ sequence_'[at] = next
        /\ \A i \in Cells : i # at => sequence_'[i] = sequence_[i]
    BY <1>14, <2>p DEF DequeueRelease
  <2>d. Queued \cap Claimable = {}
    BY DEF Queued, Claimable
  <2>1. WindowInv'
    BY <1>14 DEF DequeueRelease, WindowInv
  <2>2. SequenceInv'
    <3>1. \A q \in Queued \cup Claimable : q \in Nat /\ (Cell(q) = at => q = next)
      <4>1. ASSUME NEW q \in Queued \cup Claimable, Cell(q) = at PROVE q = next
        BY <2>p, <4>1, WindowInjective
      <4> QED
        BY <4>1, WindowType
    <3> QED
      BY <2>p, <2>s, <2>d, <3>1 DEF SequenceInv
  <2>3. OwnerInv'
    <3>1. \A t \in Thread : t # c => Writing(t)' = Writing(t) /\ Reading(t)' = Reading(t)
      BY <1>14 DEF DequeueRelease, Writing, Reading
    <3>2. ~Reading(c)' /\ pos' = pos /\ enqueue_pos_' = enqueue_pos_ /\ dequeue_pos_' = dequeue_pos_
      BY <1>14 DEF DequeueRelease, Reading
    <3>3. \A q \in Producer : Writing(q) => Cell(pos[q]) # at
      BY <2>p, <2>d, WindowInjective, WriterCell
    <3>4. \A d \in Consumer : d # c /\ Reading(d) => Cell(pos[d]) # at
      <4> SUFFICES ASSUME NEW d \in Consumer, d # c, Reading(d), Cell(pos[d]) = at PROVE FALSE
        OBVIOUS
      <4>1. pos[d] + Capacity \in Claimable /\ Cell(pos[d] + Capacity) = at
        BY ReaderCell
      <4>2. pos[d] + Capacity = next
        BY <2>p, <4>1, WindowInjective
      <4>3. pos[d] = pos[c]
        BY <4>2
      <4> QED
        BY <1>14, <4>3 DEF DequeueRelease, Reading, OwnerInv
    <3> QED
      BY <2>p, <2>s, <3>1, <3>2, <3>3, <3>4 DEF OwnerInv
  <2>4. ClaimInv'
    <3>1. \A p \in Producer : pc[p] = "enq_cas" /\ enqueue_pos_ = pos[p] => Cell(pos[p]) # at
      <4> SUFFICES ASSUME NEW p \in Producer, pc[p] = "enq_cas", enqueue_pos_ = pos[p], Cell(pos[p]) = at
                   PROVE  FALSE
        OBVIOUS
      <4>1. pos[p] \in Claimable
        BY EnqueueRoom DEF Claimable
      <4>2. pos[p] = next
        BY <2>p, <4>1, WindowInjective
      <4> QED
        BY <2>p, <4>2 DEF ClaimInv
    <3>2. \A d \in Consumer : pc[d] = "deq_cas" /\ dequeue_pos_ = pos[d] => Cell(pos[d]) # at
      <4> SUFFICES ASSUME NEW d \in Consumer, pc[d] = "deq_cas", dequeue_pos_ = pos[d], Cell(pos[d]) = at
                   PROVE  FALSE
        OBVIOUS
      <4>1. pos[d] \in Queued
        BY DequeueItem DEF Queued
      <4> QED
        BY <2>p, <2>d, <4>1, WindowInjective
    <3> QED
      BY <1>14, <2>s, <3>1, <3>2 DEF DequeueRelease, ClaimInv
  <2> QED
    BY <2>1, <2>2, <2>3, <2>4
<1>15. CASE UNCHANGED vars
  BY <1>15 DEF vars, WindowInv, SequenceInv, OwnerInv, ClaimInv, Queued, Claimable, Writing, Reading
<1> QED
  BY <1>1, <1>2, <1>3, <1>4, <1>5, <1>6, <1>7, <1>8, <1>9, <1>10, <1>11, <1>12, <1>13, <1>14, <1>15 DEF Next, Enqueue, Dequeue

-----------------------------------------------------------------------------
\* The constructor establishes the invariant.
LEMMA InvInitial == Init => IInv
<1> USE CellBounds, CellOfIndex DEF Init, IInv, TypeOK, Cells, Thread, Producing, Consuming
<1> SUFFICES ASSUME Init PROVE IInv
  OBVIOUS
<1>1. TypeOK
  OBVIOUS
<1>2. WindowInv
  BY DEF WindowInv
<1>3. SequenceInv
  BY DEF SequenceInv, Queued, Claimable
<1>4. OwnerInv /\ ClaimInv
  BY DEF OwnerInv, ClaimInv, Writing, Reading
<1> QED
  BY <1>1, <1>2, <1>3, <1>4

\* The types hold in every state of every run.
THEOREM TypeCorrect == Spec => []TypeOK
<1>1. Init => TypeOK
  BY InvInitial DEF IInv
<1> QED
  BY <1>1, TypeInductive, PTL DEF Spec

\* The window, the sequence numbers, the owners and the pending claims agree in
\* every state: "seq == pos" and "seq == pos + 1" mean what the file says.
THEOREM InvCorrect == Spec => []IInv
BY InvInitial, InvInductive, PTL DEF Spec

\* Under the invariant two owners are never at the data of the same cell.
LEMMA OwnersApart == IInv => CellExclusive
<1> SUFFICES ASSUME IInv, NEW t \in Thread, NEW u \in Thread,
                    t # u, Accessing(t), Accessing(u), Cell(pos[t]) = Cell(pos[u])
             PROVE  FALSE
  BY DEF CellExclusive
<1> USE DEF IInv, Accessing
<1>d. Queued \cap Claimable = {}
  BY DEF Queued, Claimable, TypeOK
<1>p. \A x \in Producer : Accessing(x) => Writing(x)
  BY DEF TypeOK, Producing, Writing
<1>c. \A x \in Consumer : Accessing(x) => Reading(x)
  BY DEF TypeOK, Consuming, Reading
<1>1. ASSUME NEW p \in Producer, NEW c \in Consumer, Accessing(p), Accessing(c),
             Cell(pos[p]) = Cell(pos[c])
      PROVE FALSE
  BY <1>1, <1>d, <1>p, <1>c, WriterCell, ReaderCell, WindowInjective
<1>2. CASE t \in Producer /\ u \in Producer
  <2>1. pos[t] = pos[u]
    BY <1>2, <1>p, WriterCell, WindowInjective
  <2> QED
    BY <1>2, <1>p, <2>1 DEF OwnerInv
<1>3. CASE t \in Consumer /\ u \in Consumer
  <2>1. pos[t] + Capacity = pos[u] + Capacity
    BY <1>3, <1>c, ReaderCell, WindowInjective
  <2>2. pos[t] = pos[u]
    BY <2>1, CellBounds DEF TypeOK
  <2> QED
    BY <1>3, <1>c, <2>2 DEF OwnerInv
<1> QED
  BY <1>1, <1>2, <1>3 DEF Thread

\* "single producer owns this cell", "single consumer owns this cell": enqueue and
\* dequeue never touch the plain member data_ of one cell at once.
THEOREM CellsExclusive == Spec => []CellExclusive
BY InvCorrect, OwnersApart, PTL

-----------------------------------------------------------------------------
(* What the answers of the calls mean. *)

\* What a thread that is refused relies on: a slot that is queued and not published
\* has its producer at work, one that may be claimed and is not free its consumer.
HeldInv ==
  /\ \A q \in Queued : sequence_[Cell(q)] = q =>
       \E p \in Producer : Writing(p) /\ pos[p] = q
  /\ \A q \in Claimable : sequence_[Cell(q)] # q =>
       \E c \in Consumer : Reading(c) /\ pos[c] + Capacity = q

\* What a producer brings is a value until it has written it.
DataInv ==
  \A p \in Producer :
    pc[p] \in {"enq_seq", "enq_cas", "enq_reload", "enq_write"} => data[p] \in Value

\* The constructor's cells are free.
LEMMA HeldInitial == Init => HeldInv /\ DataInv
<1> SUFFICES ASSUME Init PROVE HeldInv /\ DataInv
  OBVIOUS
<1> USE CellBounds DEF Init, Thread
<1>1. Queued = {} /\ \A q \in Claimable : q \in Cells
  BY DEF Queued, Claimable, Cells
<1>2. HeldInv
  BY <1>1, CellOfIndex DEF HeldInv
<1> QED
  BY <1>2 DEF DataInv

\* What a producer brings stays a value until it is written.
LEMMA DataInductive == TypeOK /\ DataInv /\ [Next]_vars => DataInv'
<1> SUFFICES ASSUME TypeOK, DataInv, [Next]_vars PROVE DataInv'
  OBVIOUS
<1> USE ThreadAssumption DEF TypeOK, Thread, Goto, Producing, Consuming, shared, DataInv
<1>1. ASSUME NEW p \in Producer, NEW v \in Value, EnqueueCall(p, v) PROVE DataInv'
  BY <1>1 DEF EnqueueCall
<1>2. ASSUME NEW p \in Producer, \/ EnqueueSeq(p) \/ EnqueueCas(p) \/ EnqueueReload(p)
                                 \/ EnqueueWrite(p) \/ EnqueuePublish(p)
                                 \/ EnqueueSpuriousFailure(p)
      PROVE  DataInv'
  BY <1>2 DEF EnqueueSeq, EnqueueCas, EnqueueReload, EnqueueWrite, EnqueuePublish,
    EnqueueSpuriousFailure
<1>3. ASSUME NEW c \in Consumer, DequeueRead(c) PROVE DataInv'
  BY <1>3 DEF DequeueRead
<1>4. ASSUME NEW c \in Consumer, \/ DequeueCall(c) \/ DequeueSeq(c) \/ DequeueCas(c)
                                 \/ DequeueReload(c) \/ DequeueRelease(c)
                                 \/ DequeueSpuriousFailure(c)
      PROVE  DataInv'
  BY <1>4 DEF DequeueCall, DequeueSeq, DequeueCas, DequeueReload, DequeueRelease,
    DequeueSpuriousFailure
<1>5. CASE UNCHANGED vars
  BY <1>5 DEF vars
<1> QED
  BY <1>1, <1>2, <1>3, <1>4, <1>5 DEF Next, Enqueue, Dequeue

\* A cell that is not ready keeps its owner until the owner makes it ready.
LEMMA HeldInductive == IInv /\ HeldInv /\ [Next]_vars => HeldInv'
<1> SUFFICES ASSUME IInv, HeldInv, [Next]_vars PROVE HeldInv'
  OBVIOUS
<1> USE CellBounds, CellType, ThreadAssumption
    DEF IInv, TypeOK, Thread, Goto, Producing, Consuming
\* A step that moves no counter, readies no cell and lets no owner go.
<1>s. ASSUME UNCHANGED <<sequence_, enqueue_pos_, dequeue_pos_>>,
             \A t \in Thread : /\ Writing(t) => Writing(t)' /\ pos'[t] = pos[t]
                               /\ Reading(t) => Reading(t)' /\ pos'[t] = pos[t]
      PROVE  HeldInv'
  BY <1>s DEF HeldInv, Queued, Claimable
<1>1. ASSUME NEW p \in Producer, EnqueueCas(p), enqueue_pos_ = pos[p] PROVE HeldInv'
  <2>1. /\ Queued' = Queued \cup {pos[p]} /\ Claimable' \subseteq Claimable
        /\ Writing(p)' /\ pos' = pos /\ sequence_' = sequence_
        /\ \A t \in Thread : (Writing(t) => Writing(t)') /\ (Reading(t) => Reading(t)')
    BY <1>1 DEF EnqueueCas, Queued, Claimable, Writing, Reading, WindowInv
  <2> QED
    BY <2>1 DEF HeldInv
<1>2. ASSUME NEW p \in Producer, EnqueuePublish(p) PROVE HeldInv'
  <2>1. /\ pos[p] \in Queued /\ sequence_' = [sequence_ EXCEPT ![Cell(pos[p])] = pos[p] + 1]
        /\ pos' = pos /\ Queued' = Queued /\ Claimable' = Claimable
        /\ \A t \in Thread : t # p => (Writing(t) => Writing(t)')
        /\ \A t \in Thread : Reading(t) => Reading(t)'
    BY <1>2, WriterCell DEF EnqueuePublish, Writing, Reading, Queued, Claimable
  <2>2. \A q \in Queued \cup Claimable :
          q \in Nat /\ (q # pos[p] => sequence_'[Cell(q)] = sequence_[Cell(q)])
    <3>1. \A q \in Queued \cup Claimable : Cell(q) = Cell(pos[p]) => q = pos[p]
      BY <2>1, WindowInjective
    <3>2. \A q \in Queued \cup Claimable : q \in Nat
      BY WindowType
    <3> QED
      BY <2>1, <3>1, <3>2
  <2>3. sequence_'[Cell(pos[p])] = pos[p] + 1 /\ pos[p] \in Nat /\ pos[p] \notin Claimable
    BY <2>1 DEF Queued, Claimable
  <2> QED
    BY <2>1, <2>2, <2>3 DEF HeldInv
<1>3. ASSUME NEW c \in Consumer, DequeueCas(c), dequeue_pos_ = pos[c] PROVE HeldInv'
  <2>1. /\ Queued' \subseteq Queued /\ Claimable' \subseteq Claimable \cup {pos[c] + Capacity}
        /\ Reading(c)' /\ pos' = pos /\ sequence_' = sequence_
        /\ \A t \in Thread : (Writing(t) => Writing(t)') /\ (Reading(t) => Reading(t)')
    BY <1>3 DEF DequeueCas, Queued, Claimable, Writing, Reading, WindowInv
  <2> QED
    BY <2>1 DEF HeldInv
<1>4. ASSUME NEW c \in Consumer, DequeueRelease(c) PROVE HeldInv'
  <2> DEFINE next == pos[c] + Capacity
  <2>1. /\ next \in Claimable /\ Cell(next) = Cell(pos[c])
        /\ sequence_' = [sequence_ EXCEPT ![Cell(next)] = next]
        /\ pos' = pos /\ Queued' = Queued /\ Claimable' = Claimable
        /\ \A t \in Thread : t # c => (Reading(t) => Reading(t)')
        /\ \A t \in Thread : Writing(t) => Writing(t)'
    BY <1>4, ReaderCell DEF DequeueRelease, Writing, Reading, Queued, Claimable
  <2>2. \A q \in Queued \cup Claimable :
          q \in Nat /\ (q # next => sequence_'[Cell(q)] = sequence_[Cell(q)])
    <3>1. \A q \in Queued \cup Claimable : Cell(q) = Cell(next) => q = next
      BY <2>1, WindowInjective
    <3>2. \A q \in Queued \cup Claimable : q \in Nat
      BY WindowType
    <3> QED
      BY <2>1, <3>1, <3>2
  <2>3. sequence_'[Cell(next)] = next /\ next \in Nat /\ next \notin Queued
    <3>1. next \in Nat /\ next \notin Queued
      <4>1. next \in Nat
        BY <2>1, WindowType
      <4>2. Queued \cap Claimable = {}
        BY DEF Queued, Claimable
      <4> QED
        BY <2>1, <4>1, <4>2
    <3>2. Cell(next) \in Cells
      BY <3>1
    <3> QED
      BY <2>1, <3>1, <3>2
  <2> QED
    BY <2>1, <2>2, <2>3 DEF HeldInv
<1>5. ASSUME NEW p \in Producer, \/ \E v \in Value : EnqueueCall(p, v)
                                 \/ EnqueueSeq(p) \/ EnqueueSpuriousFailure(p)
                                 \/ EnqueueCas(p) /\ enqueue_pos_ # pos[p]
                                 \/ EnqueueReload(p) \/ EnqueueWrite(p)
      PROVE  HeldInv'
  BY <1>5, <1>s DEF EnqueueCall, EnqueueSeq, EnqueueSpuriousFailure, EnqueueCas,
    EnqueueReload, EnqueueWrite, shared, Writing, Reading
<1>6. ASSUME NEW c \in Consumer, \/ DequeueCall(c) \/ DequeueSeq(c)
                                 \/ DequeueSpuriousFailure(c)
                                 \/ DequeueCas(c) /\ dequeue_pos_ # pos[c]
                                 \/ DequeueReload(c) \/ DequeueRead(c)
      PROVE  HeldInv'
  BY <1>6, <1>s DEF DequeueCall, DequeueSeq, DequeueSpuriousFailure, DequeueCas,
    DequeueReload, DequeueRead, shared, Writing, Reading
<1>7. CASE UNCHANGED vars
  BY <1>7, <1>s DEF vars, Writing, Reading
<1> QED
  BY <1>1, <1>2, <1>3, <1>4, <1>5, <1>6, <1>7 DEF Next, Enqueue, Dequeue

-----------------------------------------------------------------------------
\* The cell of a position that lies behind the window has a number beyond it.
LEMMA BehindWindow ==
  ASSUME IInv, NEW q \in Nat, q < dequeue_pos_
  PROVE  sequence_[Cell(q)] > q
<1> USE CellBounds DEF IInv, TypeOK
<1>1. PICK r \in dequeue_pos_..(dequeue_pos_ + Capacity - 1) : Cell(r) = Cell(q)
  BY CellType, CellOnto
<1>2. r \in Nat /\ r >= q + Capacity
  BY <1>1, CellInjective
<1>3. r \in Queued \/ r \in Claimable
  BY <1>1 DEF Queued, Claimable, WindowInv
<1>4. sequence_[Cell(r)] \in {r, r + 1, r - Capacity + 1}
  BY <1>3 DEF SequenceInv
<1> QED
  BY <1>1, <1>2, <1>4

\* With current loads, a step by which enqueue answers false is its reading of a
\* sequence number that lies behind; the same for dequeue.
LEMMA RefusalSteps ==
  ASSUME TypeOK, StaleReads = FALSE, [Next]_vars
  PROVE  /\ \A p \in Producer : Refused(p, "enq_seq") =>
              sequence_[Cell(pos[p])] < pos[p]
         /\ \A c \in Consumer : Refused(c, "deq_seq") =>
              sequence_[Cell(pos[c])] < pos[c] + 1
<1> USE ThreadAssumption
    DEF TypeOK, Thread, Goto, Producing, Consuming, shared, Refused
<1>1. ASSUME NEW t \in Thread, pc'[t] = pc[t]
      PROVE  ~Refused(t, "enq_seq") /\ ~Refused(t, "deq_seq")
  BY <1>1
<1>2. ASSUME NEW p \in Producer, EnqueueSeq(p), Refused(p, "enq_seq")
      PROVE  sequence_[Cell(pos[p])] < pos[p]
  BY <1>2 DEF EnqueueSeq, LoadSeq
<1>3. ASSUME NEW c \in Consumer, DequeueSeq(c), Refused(c, "deq_seq")
      PROVE  sequence_[Cell(pos[c])] < pos[c] + 1
  BY <1>3 DEF DequeueSeq, LoadSeq
<1>4. ASSUME NEW p \in Producer, NEW t \in Thread, t # p,
             (\E v \in Value : EnqueueCall(p, v)) \/ Enqueue(p) \/ EnqueueSpuriousFailure(p)
      PROVE  pc'[t] = pc[t]
  BY <1>4 DEF EnqueueCall, Enqueue, EnqueueSeq, EnqueueCas, EnqueueReload, EnqueueWrite,
    EnqueuePublish, EnqueueSpuriousFailure
<1>5. ASSUME NEW c \in Consumer, NEW t \in Thread, t # c,
             DequeueCall(c) \/ Dequeue(c) \/ DequeueSpuriousFailure(c)
      PROVE  pc'[t] = pc[t]
  BY <1>5 DEF DequeueCall, Dequeue, DequeueSeq, DequeueCas, DequeueReload, DequeueRead,
    DequeueRelease, DequeueSpuriousFailure
<1>6. ASSUME NEW p \in Producer,
             \/ \E v \in Value : EnqueueCall(p, v)
             \/ EnqueueCas(p) \/ EnqueueReload(p) \/ EnqueueWrite(p)
             \/ EnqueuePublish(p) \/ EnqueueSpuriousFailure(p)
      PROVE  ~Refused(p, "enq_seq")
  BY <1>6 DEF EnqueueCall, EnqueueCas, EnqueueReload, EnqueueWrite, EnqueuePublish,
    EnqueueSpuriousFailure
<1>7. ASSUME NEW c \in Consumer,
             \/ DequeueCall(c) \/ DequeueCas(c) \/ DequeueReload(c) \/ DequeueRead(c)
             \/ DequeueRelease(c) \/ DequeueSpuriousFailure(c)
      PROVE  ~Refused(c, "deq_seq")
  BY <1>7 DEF DequeueCall, DequeueCas, DequeueReload, DequeueRead, DequeueRelease,
    DequeueSpuriousFailure
<1>8. CASE UNCHANGED vars
  BY <1>1, <1>8 DEF vars
<1>9. ASSUME NEW p \in Producer, Refused(p, "enq_seq"), Next
      PROVE  sequence_[Cell(pos[p])] < pos[p]
  <2> HIDE DEF Refused
  <2>1. Enqueue(p) \/ (\E v \in Value : EnqueueCall(p, v)) \/ EnqueueSpuriousFailure(p)
    BY <1>1, <1>4, <1>5, <1>9 DEF Next
  <2> QED
    BY <1>2, <1>6, <1>9, <2>1 DEF Enqueue
<1>10. ASSUME NEW c \in Consumer, Refused(c, "deq_seq"), Next
      PROVE  sequence_[Cell(pos[c])] < pos[c] + 1
  <2> HIDE DEF Refused
  <2>1. Dequeue(c) \/ DequeueCall(c) \/ DequeueSpuriousFailure(c)
    BY <1>1, <1>4, <1>5, <1>10 DEF Next
  <2> QED
    BY <1>3, <1>7, <1>10, <2>1 DEF Dequeue
<1> QED
  BY <1>8, <1>9, <1>10

\* The cell at which enqueue finds an older number than its position belongs to a
\* full queue or to a consumer at work.
LEMMA EnqueueRefused ==
  ASSUME IInv, HeldInv, NEW p \in Producer, sequence_[Cell(pos[p])] < pos[p]
  PROVE  \/ enqueue_pos_ - dequeue_pos_ = Capacity
         \/ \E c \in Consumer : Reading(c) /\ Cell(pos[c]) = Cell(pos[p])
<1> USE CellBounds DEF IInv, TypeOK, Thread
<1>1. pos[p] \in Nat /\ pos[p] <= enqueue_pos_ /\ pos[p] >= dequeue_pos_
  BY BehindWindow, CellType DEF WindowInv
<1>2. pos[p] \notin Queued
  BY <1>1 DEF SequenceInv
<1>3. CASE pos[p] \in Claimable
  <2>1. PICK c \in Consumer : Reading(c) /\ pos[c] + Capacity = pos[p]
    BY <1>3 DEF HeldInv
  <2>2. Cell(pos[p]) = Cell(pos[c])
    BY <2>1, CellPeriod
  <2> QED
    BY <2>1, <2>2
<1>4. CASE pos[p] \notin Claimable
  BY <1>1, <1>2, <1>4 DEF Queued, Claimable, WindowInv
<1> QED
  BY <1>3, <1>4

\* The cell at which dequeue finds an older number than it needs belongs to an empty
\* queue or to a producer at work.
LEMMA DequeueRefused ==
  ASSUME IInv, HeldInv, NEW c \in Consumer, sequence_[Cell(pos[c])] < pos[c] + 1
  PROVE  \/ enqueue_pos_ = dequeue_pos_
         \/ \E p \in Producer : Writing(p) /\ Cell(pos[p]) = Cell(pos[c])
<1> USE CellBounds DEF IInv, TypeOK, Thread
<1>1. pos[c] \in Nat /\ pos[c] = dequeue_pos_
  BY BehindWindow, CellType DEF WindowInv
<1>2. CASE pos[c] \in Queued
  <2>1. sequence_[Cell(pos[c])] = pos[c]
    BY <1>1, <1>2 DEF SequenceInv
  <2> QED
    BY <1>2, <2>1 DEF HeldInv
<1>3. CASE pos[c] \notin Queued
  BY <1>1, <1>3 DEF Queued, WindowInv
<1> QED
  BY <1>2, <1>3

\* The invariant with the parts that the answers of the calls rest on.
LEMMA MoreCorrect == Spec => [](IInv /\ HeldInv /\ DataInv)
<1>1. Init => IInv /\ HeldInv /\ DataInv
  BY InvInitial, HeldInitial
<1>2. IInv /\ HeldInv /\ DataInv /\ [Next]_vars => (IInv /\ HeldInv /\ DataInv)'
  BY InvInductive, HeldInductive, DataInductive DEF IInv
<1> QED
  BY <1>1, <1>2, PTL DEF Spec

\* Whatever the loads return: enqueue answers false only when the queue is full, or the
\* last round's consumer of the cell has not released it, or the number read was stale;
\* for any number of threads and any capacity.
THEOREM EnqueueRefusalCorrect == Spec => EnqueueRefusal
<1>1. IInv /\ HeldInv /\ [Next]_vars =>
        [\A p \in Producer : Refused(p, "enq_seq") /\ (StaleReads => EnqueueBehind(p)) =>
           \/ enqueue_pos_ - dequeue_pos_ = Capacity
           \/ \E c \in Consumer : Reading(c) /\ Cell(pos[c]) = Cell(pos[p])]_vars
  <2> SUFFICES ASSUME IInv, HeldInv, [Next]_vars, NEW p \in Producer,
                      Refused(p, "enq_seq"), StaleReads => EnqueueBehind(p)
               PROVE  \/ enqueue_pos_ - dequeue_pos_ = Capacity
                      \/ \E c \in Consumer : Reading(c) /\ Cell(pos[c]) = Cell(pos[p])
    OBVIOUS
  <2>1. sequence_[Cell(pos[p])] < pos[p]
    BY BoundAssumption, RefusalSteps DEF IInv, EnqueueBehind
  <2> QED
    BY <2>1, EnqueueRefused
<1> QED
  BY <1>1, MoreCorrect, PTL DEF Spec, EnqueueRefusal

\* And dequeue only when the queue is empty, or the producer of the cell at its head
\* is still at work (behind which published items may wait), or the number was stale.
THEOREM DequeueRefusalCorrect == Spec => DequeueRefusal
<1>1. IInv /\ HeldInv /\ [Next]_vars =>
        [\A c \in Consumer : Refused(c, "deq_seq") /\ (StaleReads => DequeueBehind(c)) =>
           \/ enqueue_pos_ = dequeue_pos_
           \/ \E p \in Producer : Writing(p) /\ Cell(pos[p]) = Cell(pos[c])]_vars
  <2> SUFFICES ASSUME IInv, HeldInv, [Next]_vars, NEW c \in Consumer,
                      Refused(c, "deq_seq"), StaleReads => DequeueBehind(c)
               PROVE  \/ enqueue_pos_ = dequeue_pos_
                      \/ \E p \in Producer : Writing(p) /\ Cell(pos[p]) = Cell(pos[c])
    OBVIOUS
  <2>1. sequence_[Cell(pos[c])] < pos[c] + 1
    BY BoundAssumption, RefusalSteps DEF IInv, DequeueBehind
  <2> QED
    BY <2>1, DequeueRefused
<1> QED
  BY <1>1, MoreCorrect, PTL DEF Spec, DequeueRefusal

-----------------------------------------------------------------------------
(* The queue is a bounded FIFO. *)

\* A producer that has claimed the position and has still to write the cell.
WriterAt(p, q) == pc[p] = "enq_write" /\ pos[p] = q

\* What the queued positions hold: what the producer that is still to write it brings,
\* and when there is none what the cell holds.
Held == [q \in Queued |-> ValueAt(q)]

\* Where the held values come from.
HeldValues ==
  \A q \in Queued :
    /\ Held[q] \in Value \cup {None}
    /\ \A p \in Producer : WriterAt(p, q) => Held[q] = data[p]
    /\ (\A p \in Producer : ~WriterAt(p, q)) => Held[q] = data_[Cell(q)]

\* Under the invariant the mapping's ValueAt is that: a position has one writer.
LEMMA HeldCorrect == IInv => HeldValues
<1> SUFFICES ASSUME IInv, NEW q \in Queued
             PROVE  /\ Held[q] \in Value \cup {None}
                    /\ \A p \in Producer : WriterAt(p, q) => Held[q] = data[p]
                    /\ (\A p \in Producer : ~WriterAt(p, q)) => Held[q] = data_[Cell(q)]
  BY DEF HeldValues
<1>1. ASSUME NEW p \in Producer, WriterAt(p, q) PROVE Held[q] = data[p]
  <2>1. \A r \in Producer : WriterAt(r, q) => r = p
    BY <1>1 DEF IInv, OwnerInv, Writing, WriterAt
  <2>2. (CHOOSE r \in Producer : pc[r] = "enq_write" /\ pos[r] = q) = p
    BY <1>1, <2>1 DEF WriterAt
  <2> QED
    BY <1>1, <2>2 DEF Held, ValueAt, WriterAt
<1>2. ASSUME \A p \in Producer : ~WriterAt(p, q) PROVE Held[q] = data_[Cell(q)]
  BY <1>2 DEF Held, ValueAt, WriterAt
<1>3. q \in Nat
  BY WindowType DEF IInv
<1> QED
  BY <1>1, <1>2, <1>3, CellType DEF IInv, TypeOK, Thread

\* A position keeps what it holds while it is queued.
LEMMA HeldKept ==
  ASSUME IInv, IInv', [Next]_vars, NEW q \in Queued, q \in Queued'
  PROVE  Held'[q] = Held[q]
<1> USE CellBounds, ThreadAssumption DEF IInv, TypeOK, Thread, Goto
<1>q. q \in Nat /\ Cell(q) \in Cells
  BY WindowType, CellType
<1>v. /\ \A p \in Producer : WriterAt(p, q)' => Held'[q] = data'[p]
      /\ (\A p \in Producer : ~WriterAt(p, q)') => Held'[q] = data_'[Cell(q)]
  <2>1. IInv' => HeldValues'
    BY HeldCorrect, PTL
  <2> QED
    BY <2>1 DEF HeldValues
<1>w. /\ \A p \in Producer : WriterAt(p, q) => Held[q] = data[p]
      /\ (\A p \in Producer : ~WriterAt(p, q)) => Held[q] = data_[Cell(q)]
  BY HeldCorrect DEF HeldValues
\* A step that leaves the cell and its writer alone.
<1>s. ASSUME data_'[Cell(q)] = data_[Cell(q)],
             \A p \in Producer : /\ WriterAt(p, q)' <=> WriterAt(p, q)
                                 /\ WriterAt(p, q) => data'[p] = data[p]
      PROVE  Held'[q] = Held[q]
  BY <1>s, <1>v, <1>w
<1>1. ASSUME NEW p \in Producer, EnqueueWrite(p) PROVE Held'[q] = Held[q]
  <2>1. /\ pos' = pos /\ data' = data /\ Writing(p) /\ pos[p] \in Queued
        /\ data_' = [data_ EXCEPT ![Cell(pos[p])] = data[p]]
        /\ ~WriterAt(p, q)'
        /\ \A r \in Producer : r # p => (WriterAt(r, q)' <=> WriterAt(r, q))
    BY <1>1, WriterCell DEF EnqueueWrite, Writing, WriterAt
  <2>2. CASE pos[p] = q
    <3>1. WriterAt(p, q) /\ \A r \in Producer : WriterAt(r, q) => r = p
      BY <1>1, <2>2 DEF EnqueueWrite, WriterAt, OwnerInv, Writing
    <3> QED
      BY <1>q, <1>v, <2>1, <2>2, <3>1, <1>w
  <2>3. CASE pos[p] # q
    <3>1. Cell(pos[p]) # Cell(q)
      BY <2>1, <2>3, WindowInjective
    <3>2. ~WriterAt(p, q)
      BY <2>3 DEF WriterAt
    <3> QED
      BY <1>q, <1>s, <2>1, <3>1, <3>2
  <2> QED
    BY <2>2, <2>3
<1>2. ASSUME NEW p \in Producer, EnqueueCas(p) PROVE Held'[q] = Held[q]
  <2>1. pos[p] = enqueue_pos_ => q # pos[p]
    BY DEF Queued
  <2> QED
    BY <1>2, <1>s, <2>1 DEF EnqueueCas, WriterAt
<1>3. ASSUME NEW p \in Producer, \/ \E v \in Value : EnqueueCall(p, v)
                                 \/ EnqueueSeq(p) \/ EnqueueSpuriousFailure(p)
                                 \/ EnqueueReload(p) \/ EnqueuePublish(p)
      PROVE  Held'[q] = Held[q]
  BY <1>3, <1>s DEF EnqueueCall, EnqueueSeq, EnqueueSpuriousFailure, EnqueueReload,
    EnqueuePublish, shared, WriterAt
<1>4. ASSUME NEW c \in Consumer, \/ DequeueCall(c) \/ DequeueSeq(c) \/ DequeueCas(c)
                                 \/ DequeueSpuriousFailure(c) \/ DequeueReload(c)
                                 \/ DequeueRead(c) \/ DequeueRelease(c)
      PROVE  Held'[q] = Held[q]
  <2>1. data_' = data_
    BY <1>4 DEF DequeueCall, DequeueSeq, DequeueCas, DequeueSpuriousFailure,
      DequeueReload, DequeueRead, DequeueRelease, shared
  <2>2. \A p \in Producer : data'[p] = data[p] /\ pos'[p] = pos[p] /\ pc'[p] = pc[p]
    BY <1>4 DEF DequeueCall, DequeueSeq, DequeueCas, DequeueSpuriousFailure,
      DequeueReload, DequeueRead, DequeueRelease, shared
  <2> QED
    BY <1>s, <2>1, <2>2 DEF WriterAt
<1>5. CASE UNCHANGED vars
  BY <1>5, <1>s DEF vars, WriterAt
<1> QED
  BY <1>1, <1>2, <1>3, <1>4, <1>5 DEF Next, Enqueue, Dequeue

\* The refinement mapping, under names.
FifoQueue == [k \in 1..(enqueue_pos_ - dequeue_pos_) |-> Held[dequeue_pos_ + k - 1]]
FifoTaken == [c \in Consumer |-> IF pc[c] = "deq_read"
                                 THEN data_[Cell(pos[c])] ELSE data[c]]

\* The mapped queue as a function on its indices.
FifoIndices ==
  /\ enqueue_pos_ - dequeue_pos_ \in Nat
  /\ FifoQueue \in [1..(enqueue_pos_ - dequeue_pos_) -> Value \cup {None}]
  /\ \A k \in 1..(enqueue_pos_ - dequeue_pos_) :
       /\ dequeue_pos_ + k - 1 \in Queued
       /\ FifoQueue[k] = Held[dequeue_pos_ + k - 1]

\* The counters are never further apart than the queue is long.
LEMMA FifoQueueType == IInv => FifoIndices
<1> SUFFICES ASSUME IInv PROVE FifoIndices
  OBVIOUS
<1>1. enqueue_pos_ - dequeue_pos_ \in Nat
  BY DEF IInv, TypeOK, WindowInv
<1>2. \A k \in 1..(enqueue_pos_ - dequeue_pos_) : dequeue_pos_ + k - 1 \in Queued
  BY <1>1 DEF IInv, TypeOK, Queued
<1> QED
  BY <1>1, <1>2, HeldCorrect DEF FifoQueue, FifoIndices, HeldValues

\* The mapping of ImplementsFifo is the one named here.
LEMMA FifoMapping ==
  IInv => Fifo!vars = <<FifoQueue, FifoTaken>>
<1> SUFFICES ASSUME IInv PROVE Fifo!vars = <<FifoQueue, FifoTaken>>
  OBVIOUS
<1>1. \A k \in 1..(enqueue_pos_ - dequeue_pos_) :
        Held[dequeue_pos_ + k - 1] = ValueAt(dequeue_pos_ + k - 1)
  BY FifoQueueType DEF Held, FifoIndices
<1>2. FifoQueue = [k \in 1..(enqueue_pos_ - dequeue_pos_) |-> ValueAt(dequeue_pos_ + k - 1)]
  BY <1>1 DEF FifoQueue
<1> QED
  BY <1>2 DEF Fifo!vars, FifoTaken

\* A successful compare-exchange of enqueue appends what its caller brought.
LEMMA EnqueueClaims ==
  ASSUME IInv, IInv', DataInv, [Next]_vars, NEW p \in Producer, EnqueueCas(p),
         enqueue_pos_ = pos[p]
  PROVE  /\ data[p] \in Value /\ Len(FifoQueue) < Capacity
         /\ FifoQueue' = Append(FifoQueue, data[p]) /\ FifoTaken' = FifoTaken
<1> DEFINE n == enqueue_pos_ - dequeue_pos_
<1> USE CellBounds DEF Thread
<1>1. /\ enqueue_pos_' = enqueue_pos_ + 1 /\ dequeue_pos_' = dequeue_pos_
      /\ data' = data /\ data_' = data_ /\ pos' = pos /\ pc[p] = "enq_cas"
      /\ pc' = [pc EXCEPT ![p] = "enq_write"] /\ data[p] \in Value
      /\ enqueue_pos_ \in Nat /\ dequeue_pos_ \in Nat
      /\ pc \in [Thread -> Producing \cup Consuming]
  BY DEF EnqueueCas, Goto, DataInv, IInv, TypeOK
<1>2. /\ n \in Nat /\ FifoQueue \in [1..n -> Value \cup {None}]
      /\ \A k \in 1..n : /\ dequeue_pos_ + k - 1 \in Queued
                         /\ FifoQueue[k] = Held[dequeue_pos_ + k - 1]
  BY FifoQueueType DEF FifoIndices
<1>3. /\ FifoQueue' \in [1..(n + 1) -> Value \cup {None}]
      /\ \A k \in 1..(n + 1) : /\ dequeue_pos_ + k - 1 \in Queued'
                               /\ FifoQueue'[k] = Held'[dequeue_pos_ + k - 1]
  <2>1. IInv' => FifoIndices'
    BY FifoQueueType, PTL
  <2>2. enqueue_pos_' - dequeue_pos_' = n + 1
    BY <1>1
  <2> QED
    BY <1>1, <2>1, <2>2 DEF FifoIndices
<1>4. \A k \in 1..n : FifoQueue'[k] = FifoQueue[k]
  <2> SUFFICES ASSUME NEW k \in 1..n PROVE FifoQueue'[k] = FifoQueue[k]
    OBVIOUS
  <2>1. k \in 1..(n + 1)
    BY <1>2
  <2>2. /\ dequeue_pos_ + k - 1 \in Queued /\ dequeue_pos_ + k - 1 \in Queued'
    BY <1>2, <1>3, <2>1
  <2> QED
    BY <1>2, <1>3, <2>1, <2>2, HeldKept
<1>5. FifoQueue'[n + 1] = data[p]
  <2>1. dequeue_pos_ + (n + 1) - 1 = enqueue_pos_ /\ n + 1 \in 1..(n + 1)
    BY <1>1, <1>2
  <2>2. PICK q \in Nat : q = enqueue_pos_
    BY <1>1
  <2>3. q \in Queued' /\ FifoQueue'[n + 1] = Held'[q]
    BY <1>3, <2>1, <2>2
  <2>4. WriterAt(p, q)'
    BY <1>1, <2>2 DEF WriterAt
  <2>5. IInv' => HeldValues'
    BY HeldCorrect, PTL
  <2> QED
    BY <1>1, <2>3, <2>4, <2>5 DEF HeldValues
<1>6. Len(FifoQueue) = n /\ FifoQueue' = Append(FifoQueue, data[p])
  <2> HIDE DEF n
  <2> QED
    BY <1>1, <1>2, <1>3, <1>4, <1>5, SeqOfIndices, SeqAppend
<1>7. n < Capacity
  BY <1>1, EnqueueRoom
<1>8. FifoTaken' = FifoTaken
  BY <1>1, ThreadAssumption DEF FifoTaken
<1> QED
  BY <1>1, <1>6, <1>7, <1>8

\* A successful compare-exchange of dequeue takes the value at the head, which its
\* producer has written.
LEMMA DequeueClaims ==
  ASSUME IInv, IInv', [Next]_vars, NEW c \in Consumer, DequeueCas(c),
         dequeue_pos_ = pos[c]
  PROVE  /\ FifoQueue # <<>> /\ FifoQueue' = Tail(FifoQueue)
         /\ FifoTaken' = [FifoTaken EXCEPT ![c] = Head(FifoQueue)]
<1> DEFINE n == enqueue_pos_ - dequeue_pos_ - 1
<1> USE CellBounds DEF Thread
<1>1. /\ enqueue_pos_' = enqueue_pos_ /\ dequeue_pos_' = dequeue_pos_ + 1
      /\ data' = data /\ data_' = data_ /\ pos' = pos /\ pc[c] = "deq_cas"
      /\ pc' = [pc EXCEPT ![c] = "deq_read"]
      /\ enqueue_pos_ \in Nat /\ dequeue_pos_ \in Nat
      /\ pc \in [Thread -> Producing \cup Consuming]
      /\ sequence_[Cell(dequeue_pos_)] = dequeue_pos_ + 1
  BY DEF DequeueCas, Goto, IInv, TypeOK, ClaimInv
<1>n. n \in Nat /\ enqueue_pos_ - dequeue_pos_ = n + 1 /\ enqueue_pos_' - dequeue_pos_' = n
  BY <1>1, DequeueItem
<1>2. /\ FifoQueue \in [1..(n + 1) -> Value \cup {None}]
      /\ \A k \in 1..(n + 1) : /\ dequeue_pos_ + k - 1 \in Queued
                               /\ FifoQueue[k] = Held[dequeue_pos_ + k - 1]
  <2> HIDE DEF n
  <2> QED
    BY <1>n, FifoQueueType DEF FifoIndices
<1>3. /\ FifoQueue' \in [1..n -> Value \cup {None}]
      /\ \A k \in 1..n : /\ dequeue_pos_ + 1 + k - 1 \in Queued'
                         /\ FifoQueue'[k] = Held'[dequeue_pos_ + 1 + k - 1]
  <2>1. IInv' => FifoIndices'
    BY FifoQueueType, PTL
  <2> HIDE DEF n
  <2> QED
    BY <1>1, <1>n, <2>1 DEF FifoIndices
<1>4. \A k \in 1..n : FifoQueue'[k] = FifoQueue[k + 1]
  <2> SUFFICES ASSUME NEW k \in 1..n PROVE FifoQueue'[k] = FifoQueue[k + 1]
    OBVIOUS
  <2>1. k + 1 \in 1..(n + 1) /\ dequeue_pos_ + 1 + k - 1 = dequeue_pos_ + (k + 1) - 1
    BY <1>1, <1>n
  <2>2. /\ dequeue_pos_ + (k + 1) - 1 \in Queued /\ dequeue_pos_ + (k + 1) - 1 \in Queued'
        /\ FifoQueue[k + 1] = Held[dequeue_pos_ + (k + 1) - 1]
        /\ FifoQueue'[k] = Held'[dequeue_pos_ + (k + 1) - 1]
    BY <1>2, <1>3, <2>1
  <2> QED
    BY <2>2, HeldKept
<1>5. FifoQueue[1] = data_[Cell(dequeue_pos_)]
  <2>1. 1 \in 1..(n + 1) /\ dequeue_pos_ + 1 - 1 = dequeue_pos_
    BY <1>1, <1>n
  <2>2. dequeue_pos_ \in Queued /\ FifoQueue[1] = Held[dequeue_pos_]
    BY <1>2, <2>1
  <2>3. \A p \in Producer : ~WriterAt(p, dequeue_pos_)
    BY <1>1, WriterCell DEF WriterAt, Writing
  <2> QED
    BY <2>2, <2>3, HeldCorrect DEF HeldValues
<1>6. FifoQueue # <<>> /\ FifoQueue' = Tail(FifoQueue) /\ Head(FifoQueue) = FifoQueue[1]
  <2> HIDE DEF n
  <2> QED
    BY <1>n, <1>2, <1>3, <1>4, SeqTail
<1>7. FifoTaken' = [FifoTaken EXCEPT ![c] = data_[Cell(dequeue_pos_)]]
  BY <1>1, ThreadAssumption DEF FifoTaken
<1> QED
  BY <1>5, <1>6, <1>7

\* A step that moves no counter leaves the queue alone.
LEMMA OthersStutter ==
  ASSUME IInv, IInv', [Next]_vars,
         UNCHANGED <<enqueue_pos_, dequeue_pos_>>
  PROVE  FifoQueue' = FifoQueue
<1>1. IInv' => FifoIndices'
  BY FifoQueueType, PTL
<1>2. FifoIndices /\ FifoIndices'
  BY <1>1, FifoQueueType
<1>3. \A k \in 1..(enqueue_pos_ - dequeue_pos_) :
        /\ dequeue_pos_ + k - 1 \in Queued /\ dequeue_pos_ + k - 1 \in Queued'
        /\ FifoQueue'[k] = Held'[dequeue_pos_ + k - 1]
        /\ FifoQueue[k] = Held[dequeue_pos_ + k - 1]
  BY <1>2 DEF FifoIndices
<1>4. \A k \in 1..(enqueue_pos_ - dequeue_pos_) : FifoQueue'[k] = FifoQueue[k]
  BY <1>3, HeldKept
<1> QED
  BY <1>2, <1>4 DEF FifoIndices

\* What a consumer has is the value it claimed, before and after it reads the cell:
\* nobody writes the cell meanwhile.
LEMMA OthersTake ==
  ASSUME IInv, Next,
         \A c \in Consumer : ~(DequeueCas(c) /\ dequeue_pos_ = pos[c])
  PROVE  FifoTaken' = FifoTaken
<1> USE ThreadAssumption, CellType DEF IInv, TypeOK, Thread, Goto, shared, FifoTaken
<1>1. ASSUME NEW p \in Producer, EnqueueWrite(p) PROVE FifoTaken' = FifoTaken
  <2>1. \A c \in Consumer : pc[c] = "deq_read" => Cell(pos[c]) # Cell(pos[p])
    BY <1>1, OwnersApart DEF EnqueueWrite, CellExclusive, Accessing
  <2>2. \A c \in Consumer : data'[c] = data[c] /\ pos'[c] = pos[c] /\ pc'[c] = pc[c]
    BY <1>1 DEF EnqueueWrite
  <2>3. \A c \in Consumer : pc[c] = "deq_read" => data_'[Cell(pos[c])] = data_[Cell(pos[c])]
    BY <1>1, <2>1 DEF EnqueueWrite
  <2> QED
    BY <2>2, <2>3
<1>2. ASSUME data_' = data_, \A c \in Consumer : data'[c] = data[c],
             \A c \in Consumer : /\ pc'[c] = "deq_read" <=> pc[c] = "deq_read"
                                 /\ pc[c] = "deq_read" => pos'[c] = pos[c]
      PROVE  FifoTaken' = FifoTaken
  BY <1>2
<1>3. ASSUME NEW p \in Producer, \/ \E v \in Value : EnqueueCall(p, v)
                                 \/ EnqueueSeq(p) \/ EnqueueSpuriousFailure(p)
                                 \/ EnqueueCas(p) \/ EnqueueReload(p) \/ EnqueuePublish(p)
      PROVE  FifoTaken' = FifoTaken
  BY <1>2, <1>3 DEF EnqueueCall, EnqueueSeq, EnqueueSpuriousFailure, EnqueueCas,
    EnqueueReload, EnqueuePublish
<1>4. ASSUME NEW c \in Consumer, \/ DequeueCall(c) \/ DequeueSeq(c)
                                 \/ DequeueCas(c) /\ dequeue_pos_ # pos[c]
                                 \/ DequeueSpuriousFailure(c) \/ DequeueReload(c)
                                 \/ DequeueRelease(c)
      PROVE  FifoTaken' = FifoTaken
  BY <1>2, <1>4 DEF DequeueCall, DequeueSeq, DequeueCas, DequeueSpuriousFailure,
    DequeueReload, DequeueRelease
<1>5. ASSUME NEW c \in Consumer, DequeueRead(c) PROVE FifoTaken' = FifoTaken
  BY <1>5 DEF DequeueRead
<1> QED
  BY <1>1, <1>3, <1>4, <1>5 DEF Next, Enqueue, Dequeue

\* Which steps move the counters.
LEMMA CounterSteps ==
  Next => \/ UNCHANGED <<enqueue_pos_, dequeue_pos_>>
          \/ \E p \in Producer : EnqueueCas(p) /\ enqueue_pos_ = pos[p]
          \/ \E c \in Consumer : DequeueCas(c) /\ dequeue_pos_ = pos[c]
<1>1. ASSUME NEW p \in Producer, (\E v \in Value : EnqueueCall(p, v))
               \/ Enqueue(p) \/ EnqueueSpuriousFailure(p)
      PROVE  \/ UNCHANGED <<enqueue_pos_, dequeue_pos_>>
             \/ EnqueueCas(p) /\ enqueue_pos_ = pos[p]
  BY <1>1 DEF EnqueueCall, Enqueue, EnqueueSeq, EnqueueCas, EnqueueReload, EnqueueWrite,
    EnqueuePublish, EnqueueSpuriousFailure, shared
<1>2. ASSUME NEW c \in Consumer, DequeueCall(c) \/ Dequeue(c) \/ DequeueSpuriousFailure(c)
      PROVE  \/ UNCHANGED <<enqueue_pos_, dequeue_pos_>>
             \/ DequeueCas(c) /\ dequeue_pos_ = pos[c]
  BY <1>2 DEF DequeueCall, Dequeue, DequeueSeq, DequeueCas, DequeueReload, DequeueRead,
    DequeueRelease, DequeueSpuriousFailure, shared
<1> QED
  BY <1>1, <1>2 DEF Next

\* Each step is one of the bounded queue, or none: the successful compare-exchanges
\* are where enqueue and dequeue take effect.
LEMMA FifoStep ==
  IInv /\ IInv' /\ DataInv /\ [Next]_vars => [Fifo!Next]_(Fifo!vars)
<1> SUFFICES ASSUME IInv, IInv', DataInv, [Next]_vars PROVE [Fifo!Next]_(Fifo!vars)
  OBVIOUS
<1>m. Fifo!vars = <<FifoQueue, FifoTaken>> /\ Fifo!vars' = <<FifoQueue', FifoTaken'>>
  <2>1. IInv' => (Fifo!vars = <<FifoQueue, FifoTaken>>)'
    BY FifoMapping, PTL
  <2> QED
    BY <2>1, FifoMapping
<1>1. ASSUME NEW p \in Producer, EnqueueCas(p), enqueue_pos_ = pos[p] PROVE Fifo!Next
  <2>1. Fifo!Enqueue(data[p])
    BY <1>1, <1>m, EnqueueClaims DEF Fifo!Enqueue, Fifo!vars
  <2> QED
    BY <1>1, <2>1, EnqueueClaims DEF Fifo!Next
<1>2. ASSUME NEW c \in Consumer, DequeueCas(c), dequeue_pos_ = pos[c] PROVE Fifo!Next
  <2>1. Fifo!Dequeue(c)
    BY <1>2, <1>m, DequeueClaims DEF Fifo!Dequeue, Fifo!vars
  <2> QED
    BY <2>1 DEF Fifo!Next
<1>3. ASSUME Next, UNCHANGED <<enqueue_pos_, dequeue_pos_>> PROVE UNCHANGED Fifo!vars
  <2>1. \A c \in Consumer : ~(DequeueCas(c) /\ dequeue_pos_ = pos[c])
    BY <1>3 DEF DequeueCas, IInv, TypeOK
  <2> QED
    BY <1>3, <1>m, <2>1, OthersStutter, OthersTake
<1>4. CASE UNCHANGED vars
  BY <1>4, <1>m DEF vars, FifoQueue, FifoTaken, Held, Queued, ValueAt
<1> QED
  BY <1>1, <1>2, <1>3, <1>4, CounterSteps

\* The constructor makes an empty queue.
LEMMA FifoInitial == Init => Fifo!Init
<1> SUFFICES ASSUME Init PROVE Fifo!Init
  OBVIOUS
<1>1. 1..(enqueue_pos_ - dequeue_pos_) = {}
  BY DEF Init
<1> QED
  BY <1>1, ThreadAssumption DEF Init, Fifo!Init, Thread

\* No value is lost, duplicated, overwritten or reordered and never more than
\* Capacity are held: with any number of threads, any capacity and stale loads the
\* code implements the bounded queue.
THEOREM FifoCorrect == Spec => ImplementsFifo
<1>1. IInv /\ IInv' /\ DataInv /\ [Next]_vars => [Fifo!Next]_(Fifo!vars)
  BY FifoStep
<1> QED
  BY <1>1, FifoInitial, MoreCorrect, PTL DEF Spec, ImplementsFifo, Fifo!Spec
=============================================================================
