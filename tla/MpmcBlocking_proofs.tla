------------------------- MODULE MpmcBlocking_proofs -------------------------
(***************************************************************************)
(* Proofs about MpmcBlocking.  The counters wrap at a multiple of the      *)
(* buffer's size that is at least twice as large, so their difference      *)
(* tells full from empty and consecutive positions have consecutive slots, *)
(* also where a counter wraps.  The two wake-up invariants are inductive   *)
(* once types are known: a put adds an item and wakes a consumer, a get    *)
(* adds room and wakes a producer.                                         *)
(***************************************************************************)
EXTENDS MpmcBlocking, Lemmas, FiniteSetTheorems, TLAPS

-----------------------------------------------------------------------------
(* Counters and slots. *)

\* The buffer has a slot, and the counters count at least two buffers.
LEMMA Sizes ==
  /\ MAXSIZE \in Nat \ {0} /\ Modulus \in Nat \ {0} /\ Modulus > MAXSIZE
  /\ \E k \in Nat : Modulus = MAXSIZE * k
<1>1. PICK k \in 2..Modulus : Modulus = k * MAXSIZE
  BY SizeAssumption
<1>2. MAXSIZE \in Nat \ {0} /\ Modulus \in Nat /\ k \in Nat
  BY <1>1, SizeAssumption
<1>3. k * MAXSIZE = MAXSIZE * k /\ k * MAXSIZE = MAXSIZE + (k - 1) * MAXSIZE
  BY <1>2
<1>4. (k - 1) * MAXSIZE >= MAXSIZE
  <2>1. k - 1 \in Nat /\ k - 1 >= 1
    BY <1>1
  <2> QED
    BY <1>2, <2>1
<1> QED
  BY <1>1, <1>2, <1>3, <1>4

\* (in_ + size) has wrapped if out_ has.
LEMMA SizeIs ==
  in_ \in 0..(Modulus - 1) /\ out_ \in 0..(Modulus - 1) =>
    size = IF out_ >= in_ THEN out_ - in_ ELSE out_ + Modulus - in_
<1> SUFFICES ASSUME in_ \in 0..(Modulus - 1), out_ \in 0..(Modulus - 1)
             PROVE  size = IF out_ >= in_ THEN out_ - in_ ELSE out_ + Modulus - in_
  OBVIOUS
<1> USE Sizes
<1>c. out_ + Modulus - in_ \in Nat
  OBVIOUS
<1>1. CASE out_ >= in_
  <2>1. /\ out_ + Modulus - in_ = Modulus * 1 + (out_ - in_)
        /\ out_ - in_ \in 0..(Modulus - 1)
    BY <1>1
  <2>2. (out_ + Modulus - in_) % Modulus = out_ - in_
    BY <1>c, <2>1, RingUnique
  <2> QED
    BY <1>1, <2>2 DEF size
<1>2. CASE out_ < in_
  <2>1. /\ out_ + Modulus - in_ = Modulus * 0 + (out_ + Modulus - in_)
        /\ out_ + Modulus - in_ \in 0..(Modulus - 1)
    BY <1>2
  <2>2. (out_ + Modulus - in_) % Modulus = out_ + Modulus - in_
    BY <1>c, <2>1, RingUnique
  <2> QED
    BY <1>2, <2>2 DEF size
<1> QED
  BY <1>1, <1>2

\* in_++ and out_++.
LEMMA AdvanceIs ==
  \A x \in 0..(Modulus - 1) : Advance(x) = IF x + 1 = Modulus THEN 0 ELSE x + 1
<1> SUFFICES ASSUME NEW x \in 0..(Modulus - 1)
             PROVE  Advance(x) = IF x + 1 = Modulus THEN 0 ELSE x + 1
  OBVIOUS
<1> USE Sizes
<1>1. CASE x + 1 = Modulus
  <2>1. x + 1 = Modulus * 1 + 0 /\ x + 1 \in Nat /\ 0 \in 0..(Modulus - 1)
    BY <1>1
  <2>2. (x + 1) % Modulus = 0
    BY <2>1, RingUnique
  <2> QED
    BY <1>1, <2>2 DEF Advance
<1>2. CASE x + 1 # Modulus
  <2>1. x + 1 = Modulus * 0 + (x + 1) /\ x + 1 \in Nat /\ x + 1 \in 0..(Modulus - 1)
    BY <1>2
  <2>2. (x + 1) % Modulus = x + 1
    BY <2>1, RingUnique
  <2> QED
    BY <1>2, <2>2 DEF Advance
<1> QED
  BY <1>1, <1>2

\* A position's slot.
LEMMA MaskType == \A p \in Nat : mask(p) \in 0..(MAXSIZE - 1)
BY Sizes, RingRounds DEF mask

\* Wrapping a counter does not change its slot.
LEMMA MaskWraps == \A p \in Nat : mask(p + Modulus) = mask(p)
<1> SUFFICES ASSUME NEW p \in Nat PROVE mask(p + Modulus) = mask(p)
  OBVIOUS
<1>1. PICK k \in Nat : Modulus = MAXSIZE * k
  BY Sizes
<1>2. PICK x \in Int, i \in 0..(MAXSIZE - 1) : p = MAXSIZE * x + i /\ p % MAXSIZE = i
  BY Sizes, RingRounds
<1>3. MAXSIZE * x \in Int /\ MAXSIZE * (k - (0 - x)) = MAXSIZE * k - MAXSIZE * (0 - x)
      /\ MAXSIZE * (0 - x) = 0 - MAXSIZE * x
  BY Sizes, Distribute
<1>4. p + Modulus = MAXSIZE * (k + x) + i /\ k + x \in Int /\ p + Modulus \in Nat
  BY <1>1, <1>2, <1>3, Sizes
<1>5. (p + Modulus) % MAXSIZE = i
  BY <1>4, Sizes, RingUnique
<1> QED
  BY <1>2, <1>5 DEF mask

\* Positions less than a buffer apart have slots of their own.
LEMMA MaskInjective ==
  \A p, q \in Nat : p < q /\ q < p + MAXSIZE => mask(p) # mask(q)
BY Sizes, RingInjective DEF mask

\* The counters.
Counters ==
  /\ in_ \in 0..(Modulus - 1) /\ out_ \in 0..(Modulus - 1)
  /\ size \in 0..MAXSIZE

\* out_ names the slot after the last item, whichever counter has wrapped.
LEMMA NextSlot == Counters => mask(in_ + size) = mask(out_)
<1> SUFFICES ASSUME Counters PROVE mask(in_ + size) = mask(out_)
  OBVIOUS
<1> USE Sizes DEF Counters
<1>1. CASE out_ >= in_
  <2>1. in_ + size = out_
    BY <1>1, SizeIs
  <2> QED
    BY <2>1
<1>2. CASE out_ < in_
  <2>1. in_ + size = out_ + Modulus /\ out_ \in Nat
    BY <1>2, SizeIs
  <2> QED
    BY <2>1, MaskWraps
<1> QED
  BY <1>1, <1>2

\* The slot of an item, counted from in_ after in_++.
LEMMA SlotsAdvance ==
  \A x \in 0..(Modulus - 1), k \in Nat : mask(Advance(x) + k) = mask(x + 1 + k)
<1> SUFFICES ASSUME NEW x \in 0..(Modulus - 1), NEW k \in Nat
             PROVE  mask(Advance(x) + k) = mask(x + 1 + k)
  OBVIOUS
<1> USE Sizes
<1>1. CASE x + 1 = Modulus
  <2>1. Advance(x) + k = k /\ x + 1 + k = k + Modulus
    BY <1>1, AdvanceIs
  <2> QED
    BY <2>1, MaskWraps
<1>2. CASE x + 1 # Modulus
  BY <1>2, AdvanceIs
<1> QED
  BY <1>1, <1>2

\* A put when not full adds one.
LEMMA PutSize ==
  ASSUME Counters, ~full, out_' = Advance(out_), in_' = in_
  PROVE  Counters' /\ size' = size + 1
<1> USE Sizes DEF Counters, full
<1>1. out_' \in 0..(Modulus - 1)
  BY AdvanceIs
<1>2. size' = IF out_' >= in_' THEN out_' - in_' ELSE out_' + Modulus - in_'
  <2>1. (in_ \in 0..(Modulus - 1) /\ out_ \in 0..(Modulus - 1))' =>
          (size = IF out_ >= in_ THEN out_ - in_ ELSE out_ + Modulus - in_)'
    BY SizeIs, PTL
  <2> QED
    BY <1>1, <2>1
<1>3. size' = size + 1
  BY <1>2, SizeIs, AdvanceIs
<1> QED
  BY <1>1, <1>3

\* A get when not empty takes one.
LEMMA GetSize ==
  ASSUME Counters, ~empty, in_' = Advance(in_), out_' = out_
  PROVE  Counters' /\ size' = size - 1
<1> USE Sizes DEF Counters, empty
<1>1. in_' \in 0..(Modulus - 1)
  BY AdvanceIs
<1>2. size' = IF out_' >= in_' THEN out_' - in_' ELSE out_' + Modulus - in_'
  <2>1. (in_ \in 0..(Modulus - 1) /\ out_ \in 0..(Modulus - 1))' =>
          (size = IF out_ >= in_ THEN out_ - in_ ELSE out_ + Modulus - in_)'
    BY SizeIs, PTL
  <2> QED
    BY <1>1, <2>1
<1>3. size' = size - 1
  BY <1>2, SizeIs, AdvanceIs
<1> QED
  BY <1>1, <1>3, SizeIs

\* The code's empty() is a size of zero.
LEMMA EmptySize == Counters => (empty <=> size = 0)
BY Sizes, SizeIs DEF Counters, empty

-----------------------------------------------------------------------------
(* The invariant. *)

\* Where a call can be, and what produce brings.
Calls ==
  /\ \A p \in Producer : /\ pc[p] \in {"idle", "produce", "full_wait"}
                         /\ pc[p] # "idle" => obj[p] \in Value
  /\ \A c \in Consumer : pc[c] \in {"idle", "consume", "empty_wait"}

\* The inductive invariant.
IInv == TypeOK /\ Calls /\ ConsumersAwake /\ ProducersAwake

\* The threads that are on their way to an item, and to a free slot.
Consuming == {c \in Consumer : pc[c] = "consume"}
Producing == {p \in Producer : pc[p] = "produce"}

\* There are finitely many.
LEMMA ThreadsFinite ==
  /\ IsFiniteSet(Consuming) /\ Cardinality(Consuming) \in Nat
  /\ IsFiniteSet(Producing) /\ Cardinality(Producing) \in Nat
BY ThreadAssumption, FS_Subset, FS_CardinalityType DEF Consuming, Producing

\* The types give the counters' relation.
LEMMA TypeCounters == TypeOK => Counters
BY Sizes, SizeIs DEF TypeOK, Counters

\* A put: produce or try_produce that finds room.
PutStep(p, v) ==
  /\ pc[p] \in {"idle", "produce"} /\ v \in Value
  /\ pc[p] = "produce" \/ useTry
  /\ ~full /\ Put(v) /\ NotifyOne(p, "idle", EmptyWaiters, "consume")
  /\ obj' \in {obj, [obj EXCEPT ![p] = None]}

\* A put whose assignment throws.
ThrowStep(p) ==
  /\ pc[p] \in {"idle", "produce"}
  /\ pc[p] = "produce" \/ useTry
  /\ PutThrows /\ pc' = [pc EXCEPT ![p] = "idle"]
  /\ obj' \in {obj, [obj EXCEPT ![p] = None]}

\* A get: consume that finds an item, and notifies, or try_consume, which does not.
GetStep(c) ==
  /\ ~empty /\ Get(c)
  /\ \/ pc[c] = "consume" /\ NotifyOne(c, "idle", FullWaiters, "produce")
     \/ pc[c] = "idle" /\ useTry /\ pc' = pc

\* Any other step leaves the buffer alone and moves one thread, or none.
MoveStep(t) ==
  /\ UNCHANGED <<buffer_, in_, out_>>
  /\ \A c \in Consumer : obj'[c] = obj[c]
  /\ \/ /\ t \in Producer /\ pc[t] = "idle" /\ pc' = [pc EXCEPT ![t] = "produce"]
        /\ \E v \in Value : obj' = [obj EXCEPT ![t] = v]
     \/ /\ obj' = obj
        /\ \/ pc' = pc
           \/ t \in Producer /\ pc[t] = "produce" /\ full /\ pc' = [pc EXCEPT ![t] = "full_wait"]
           \/ t \in Producer /\ pc[t] = "full_wait" /\ pc' = [pc EXCEPT ![t] = "produce"]
           \/ t \in Consumer /\ pc[t] = "idle" /\ pc' = [pc EXCEPT ![t] = "consume"]
           \/ t \in Consumer /\ pc[t] = "consume" /\ empty /\ pc' = [pc EXCEPT ![t] = "empty_wait"]
           \/ t \in Consumer /\ pc[t] = "empty_wait" /\ pc' = [pc EXCEPT ![t] = "consume"]
           \/ t \in Consumer /\ pc[t] = "consume" /\ copyThrows /\ pc' = [pc EXCEPT ![t] = "idle"]

\* Every step is one of these; the calls that are left are counted down.
LEMMA StepKinds ==
  ASSUME TypeOK, Calls, Next
  PROVE  /\ toProduce' \in 0..Quota /\ toConsume' \in 0..Quota
         /\ UNCHANGED workload
         /\ \/ \E p \in Producer, v \in Value : PutStep(p, v)
            \/ \E p \in Producer : ThrowStep(p)
            \/ \E c \in Consumer : GetStep(c)
            \/ \E t \in Thread : MoveStep(t)
<1> USE ThreadAssumption, BoundAssumption DEF TypeOK, Thread
<1>0. UNCHANGED workload
  BY DEF Next
<1>1. ASSUME NEW p \in Producer, NEW v \in Value, ProduceCall(p, v)
      PROVE  toProduce' \in 0..Quota /\ toConsume' \in 0..Quota /\ MoveStep(p)
  <2>1. toProduce' \in 0..Quota /\ toConsume' \in 0..Quota
    BY <1>1 DEF ProduceCall, ProducerCalls
  <2>2. /\ pc[p] = "idle" /\ pc' = [pc EXCEPT ![p] = "produce"]
        /\ obj' = [obj EXCEPT ![p] = v] /\ UNCHANGED <<buffer_, in_, out_>>
    BY <1>1 DEF ProduceCall
  <2>3. \A c \in Consumer : obj'[c] = obj[c]
    BY <2>2
  <2> QED
    BY <2>1, <2>2, <2>3 DEF MoveStep
<1>2. ASSUME NEW p \in Producer, NEW v \in Value, TryProduce(p, v)
      PROVE  /\ toProduce' \in 0..Quota /\ toConsume' \in 0..Quota
             /\ MoveStep(p) \/ PutStep(p, v) \/ ThrowStep(p)
  BY <1>2 DEF TryProduce, ProducerCalls, MoveStep, PutStep, ThrowStep
<1>3. ASSUME NEW p \in Producer, Produce(p)
      PROVE  /\ toProduce' \in 0..Quota /\ toConsume' \in 0..Quota
             /\ obj[p] \in Value
             /\ MoveStep(p) \/ PutStep(p, obj[p])
  BY <1>3 DEF Produce, MoveStep, PutStep, Calls
<1>9. ASSUME NEW p \in Producer, ProduceThrows(p)
      PROVE  toProduce' \in 0..Quota /\ toConsume' \in 0..Quota /\ ThrowStep(p)
  BY <1>9 DEF ProduceThrows, ThrowStep
<1>4. ASSUME NEW c \in Consumer, ConsumeCall(c)
      PROVE  toProduce' \in 0..Quota /\ toConsume' \in 0..Quota /\ MoveStep(c)
  BY <1>4 DEF ConsumeCall, ConsumerCalls, MoveStep
<1>5. ASSUME NEW c \in Consumer, TryConsume(c)
      PROVE  /\ toProduce' \in 0..Quota /\ toConsume' \in 0..Quota
             /\ MoveStep(c) \/ GetStep(c)
  BY <1>5 DEF TryConsume, ConsumerCalls, MoveStep, GetStep
<1>6. ASSUME NEW c \in Consumer, Consume(c)
      PROVE  /\ toProduce' \in 0..Quota /\ toConsume' \in 0..Quota
             /\ MoveStep(c) \/ GetStep(c)
  BY <1>6 DEF Consume, MoveStep, GetStep
<1>7. ASSUME NEW c \in Consumer, ConsumeThrows(c)
      PROVE  toProduce' \in 0..Quota /\ toConsume' \in 0..Quota /\ MoveStep(c)
  BY <1>7 DEF ConsumeThrows, MoveStep
<1>8. ASSUME SpuriousWakeup
      PROVE  /\ toProduce' \in 0..Quota /\ toConsume' \in 0..Quota
             /\ \E t \in Thread : MoveStep(t)
  BY <1>8 DEF SpuriousWakeup, MoveStep, FullWaiters, EmptyWaiters
<1> QED
  BY <1>0, <1>1, <1>2, <1>3, <1>4, <1>5, <1>6, <1>7, <1>8, <1>9 DEF Next

\* One thread leaves for `label`, and one of the waiters, if there are any, follows
\* the call; what becomes of the two sets of threads on their way.
LEMMA PutWakes ==
  ASSUME TypeOK, Calls, NEW p \in Producer, NEW v \in Value, PutStep(p, v)
  PROVE  /\ pc' \in [Thread -> {"idle", "produce", "full_wait", "consume", "empty_wait"}]
         /\ Calls'
         /\ EmptyWaiters' # {} =>
              EmptyWaiters # {} /\ Cardinality(Consuming') = Cardinality(Consuming) + 1
         /\ FullWaiters' = FullWaiters
         /\ ~useTry => Cardinality(Producing') = Cardinality(Producing) - 1
<1> USE ThreadAssumption DEF TypeOK, Thread
<1>1. /\ pc[p] \in {"idle", "produce"} /\ (pc[p] = "produce" \/ useTry)
      /\ \A q \in Producer : q # p => obj'[q] = obj[q]
      /\ \/ EmptyWaiters = {} /\ pc' = [pc EXCEPT ![p] = "idle"]
         \/ \E w \in EmptyWaiters : pc' = [pc EXCEPT ![p] = "idle", ![w] = "consume"]
  BY DEF PutStep, NotifyOne
<1>2. /\ pc' \in [Thread -> {"idle", "produce", "full_wait", "consume", "empty_wait"}]
      /\ Calls' /\ FullWaiters' = FullWaiters /\ Producing' = Producing \ {p}
  BY <1>1 DEF Calls, FullWaiters, EmptyWaiters, Producing
<1>3. ASSUME ~useTry PROVE Cardinality(Producing \ {p}) = Cardinality(Producing) - 1
  <2>1. p \in Producing
    BY <1>1, <1>3 DEF Producing
  <2> QED
    BY <2>1, ThreadsFinite, FS_RemoveElement
<1>4. ASSUME EmptyWaiters' # {}
      PROVE  EmptyWaiters # {} /\ Cardinality(Consuming') = Cardinality(Consuming) + 1
  <2>1. EmptyWaiters # {}
    BY <1>1, <1>4 DEF EmptyWaiters
  <2>2. PICK w \in EmptyWaiters : pc' = [pc EXCEPT ![p] = "idle", ![w] = "consume"]
    BY <1>1, <2>1
  <2>3. Consuming' = Consuming \cup {w} /\ w \notin Consuming
    BY <2>2 DEF EmptyWaiters, Consuming
  <2>4. Cardinality(Consuming \cup {w}) = Cardinality(Consuming) + 1
    BY <2>3, ThreadsFinite, FS_AddElement
  <2> QED
    BY <2>1, <2>3, <2>4
<1> QED
  BY <1>2, <1>3, <1>4

\* A put that throws wakes nobody.
LEMMA ThrowWakes ==
  ASSUME TypeOK, Calls, NEW p \in Producer, ThrowStep(p)
  PROVE  /\ pc' \in [Thread -> {"idle", "produce", "full_wait", "consume", "empty_wait"}]
         /\ Calls'
         /\ FullWaiters' = FullWaiters
         /\ ~useTry => Cardinality(Producing') = Cardinality(Producing) - 1
<1> USE ThreadAssumption DEF TypeOK, Thread
<1>1. /\ pc[p] = "produce" \/ useTry
      /\ \A q \in Producer : q # p => obj'[q] = obj[q]
      /\ pc[p] \in {"idle", "produce"} /\ pc' = [pc EXCEPT ![p] = "idle"]
  BY DEF ThrowStep
<1>2. /\ pc' \in [Thread -> {"idle", "produce", "full_wait", "consume", "empty_wait"}]
      /\ Calls' /\ FullWaiters' = FullWaiters /\ Producing' = Producing \ {p}
  BY <1>1 DEF Calls, FullWaiters, Producing
<1>3. ASSUME ~useTry PROVE Cardinality(Producing \ {p}) = Cardinality(Producing) - 1
  <2>1. p \in Producing
    BY <1>1, <1>3 DEF Producing
  <2> QED
    BY <2>1, ThreadsFinite, FS_RemoveElement
<1> QED
  BY <1>2, <1>3

\* The same for a get, of which only consume wakes a producer.
LEMMA GetWakes ==
  ASSUME TypeOK, Calls, NEW c \in Consumer, GetStep(c)
  PROVE  /\ pc' \in [Thread -> {"idle", "produce", "full_wait", "consume", "empty_wait"}]
         /\ Calls'
         /\ EmptyWaiters' = EmptyWaiters
         /\ Cardinality(Consuming') >= Cardinality(Consuming) - 1
         /\ Cardinality(Consuming') \in Nat
         /\ ~useTry /\ FullWaiters' # {} =>
              FullWaiters # {} /\ Cardinality(Producing') = Cardinality(Producing) + 1
<1> USE ThreadAssumption DEF TypeOK, Thread
<1>1. /\ \A p \in Producer : obj'[p] = obj[p]
      /\ \/ /\ pc[c] = "consume"
            /\ \/ FullWaiters = {} /\ pc' = [pc EXCEPT ![c] = "idle"]
               \/ \E w \in FullWaiters : pc' = [pc EXCEPT ![c] = "idle", ![w] = "produce"]
         \/ pc[c] = "idle" /\ useTry /\ pc' = pc
  BY DEF GetStep, Get, NotifyOne
<1>2. /\ pc' \in [Thread -> {"idle", "produce", "full_wait", "consume", "empty_wait"}]
      /\ Calls' /\ EmptyWaiters' = EmptyWaiters
      /\ \/ Consuming' = Consuming
         \/ c \in Consuming /\ Consuming' = Consuming \ {c}
  BY <1>1 DEF Calls, FullWaiters, EmptyWaiters, Consuming
<1>3. c \in Consuming => Cardinality(Consuming \ {c}) = Cardinality(Consuming) - 1
  BY ThreadsFinite, FS_RemoveElement
<1>n. IsFiniteSet(Consuming \ {c}) /\ Cardinality(Consuming \ {c}) \in Nat
  BY ThreadsFinite, FS_RemoveElement, FS_CardinalityType
<1>4. ASSUME ~useTry, FullWaiters' # {}
      PROVE  FullWaiters # {} /\ Cardinality(Producing') = Cardinality(Producing) + 1
  <2>1. FullWaiters # {} /\ pc[c] = "consume"
    BY <1>1, <1>4 DEF FullWaiters
  <2>2. PICK w \in FullWaiters : pc' = [pc EXCEPT ![c] = "idle", ![w] = "produce"]
    BY <1>1, <2>1
  <2>3. Producing' = Producing \cup {w} /\ w \notin Producing
    BY <2>2 DEF FullWaiters, Producing
  <2>4. Cardinality(Producing \cup {w}) = Cardinality(Producing) + 1
    BY <2>3, ThreadsFinite, FS_AddElement
  <2> QED
    BY <2>1, <2>3, <2>4
<1>5. Cardinality(Consuming') >= Cardinality(Consuming) - 1 /\ Cardinality(Consuming') \in Nat
  <2>1. CASE Consuming' = Consuming
    BY <2>1, ThreadsFinite
  <2>2. CASE c \in Consuming /\ Consuming' = Consuming \ {c}
    BY <2>2, <1>3, <1>n, ThreadsFinite
  <2> QED
    BY <1>2, <2>1, <2>2
<1> QED
  BY <1>2, <1>4, <1>5

\* And for the other steps: who goes to sleep finds nothing to do.
LEMMA MoveWakes ==
  ASSUME TypeOK, Calls, NEW t \in Thread, MoveStep(t)
  PROVE  /\ pc' \in [Thread -> {"idle", "produce", "full_wait", "consume", "empty_wait"}]
         /\ Calls'
         /\ obj' \in [Thread -> Value \cup {None}]
         /\ \/ copyThrows \/ empty
            \/ /\ EmptyWaiters' \subseteq EmptyWaiters
               /\ Cardinality(Consuming') >= Cardinality(Consuming)
         /\ Cardinality(Consuming') \in Nat
         /\ \/ full
            \/ /\ FullWaiters' \subseteq FullWaiters
               /\ Cardinality(Producing') >= Cardinality(Producing)
         /\ Cardinality(Producing') \in Nat
<1> USE ThreadAssumption DEF TypeOK, Thread, MoveStep
<1>1. /\ pc' \in [Thread -> {"idle", "produce", "full_wait", "consume", "empty_wait"}]
      /\ Calls' /\ obj' \in [Thread -> Value \cup {None}]
  BY DEF Calls
<1>2. /\ copyThrows \/ empty \/ (EmptyWaiters' \subseteq EmptyWaiters /\ Consuming \subseteq Consuming')
      /\ full \/ (FullWaiters' \subseteq FullWaiters /\ Producing \subseteq Producing')
  BY DEF Calls, EmptyWaiters, FullWaiters, Consuming, Producing
<1> HIDE DEF TypeOK, Thread, MoveStep
<1>3. /\ IsFiniteSet(Consuming') /\ Cardinality(Consuming') \in Nat
      /\ IsFiniteSet(Producing') /\ Cardinality(Producing') \in Nat
  <2>1. Consuming' \subseteq Consumer /\ Producing' \subseteq Producer
    BY DEF Consuming, Producing
  <2> QED
    BY <2>1, ThreadAssumption, FS_Subset, FS_CardinalityType
<1>4. Consuming \subseteq Consuming' => Cardinality(Consuming') >= Cardinality(Consuming)
  BY <1>3, ThreadsFinite, FS_Subset
<1>5. Producing \subseteq Producing' => Cardinality(Producing') >= Cardinality(Producing)
  BY <1>3, ThreadsFinite, FS_Subset
<1> QED
  BY <1>1, <1>2, <1>3, <1>4, <1>5

\* The invariant is inductive.
LEMMA InvInductive == IInv /\ [Next]_vars => IInv'
<1> SUFFICES ASSUME IInv, [Next]_vars PROVE IInv'
  OBVIOUS
<1> USE Sizes, ThreadsFinite, TypeCounters DEF IInv
<1>a. /\ ConsumersAwake <=>
           (~copyThrows /\ ~moveThrows /\ EmptyWaiters # {} => size <= Cardinality(Consuming))
      /\ ProducersAwake <=>
           (~useTry /\ FullWaiters # {} => MAXSIZE - size <= Cardinality(Producing))
  BY DEF ConsumersAwake, ProducersAwake, Consuming, Producing
<1>b. /\ ConsumersAwake' <=>
           (~copyThrows' /\ ~moveThrows' /\ EmptyWaiters' # {} => size' <= Cardinality(Consuming'))
      /\ ProducersAwake' <=>
           (~useTry' /\ FullWaiters' # {} => MAXSIZE - size' <= Cardinality(Producing'))
  BY DEF ConsumersAwake, ProducersAwake, Consuming, Producing
<1>n. Counters /\ size \in Nat /\ size <= MAXSIZE
  BY DEF Counters
<1>1. ASSUME NEW p \in Producer, NEW v \in Value, PutStep(p, v), Next PROVE IInv'
  <2>1. Counters' /\ size' = size + 1
    BY <1>1, <1>n, PutSize DEF PutStep, Put
  <2>2. TypeOK'
    <3>1. /\ buffer_' \in [0..(MAXSIZE - 1) -> Value \cup {None}]
          /\ obj' \in [Thread -> Value \cup {None}]
      BY <1>1 DEF PutStep, Put, TypeOK
    <3> QED
      BY <1>1, <2>1, <3>1, PutWakes, StepKinds DEF TypeOK, Counters
  <2>3. UNCHANGED <<useTry, copyThrows, moveThrows>>
    BY <1>1, StepKinds DEF workload
  <2>4. ConsumersAwake'
    <3> SUFFICES ASSUME ~copyThrows', ~moveThrows', EmptyWaiters' # {}
                 PROVE  size' <= Cardinality(Consuming')
      BY <1>b
    <3>1. EmptyWaiters # {} /\ Cardinality(Consuming') = Cardinality(Consuming) + 1
      BY <1>1, PutWakes
    <3>2. size <= Cardinality(Consuming)
      BY <1>a, <2>3, <3>1
    <3> QED
      BY <1>n, <2>1, <3>1, <3>2
  <2>5. ProducersAwake'
    <3> SUFFICES ASSUME ~useTry', FullWaiters' # {}
                 PROVE  MAXSIZE - size' <= Cardinality(Producing')
      BY <1>b
    <3>1. FullWaiters # {} /\ Cardinality(Producing') = Cardinality(Producing) - 1
      BY <1>1, <2>3, PutWakes
    <3>2. MAXSIZE - size <= Cardinality(Producing)
      BY <1>a, <2>3, <3>1
    <3> QED
      BY <1>n, <2>1, <3>1, <3>2
  <2> QED
    BY <1>1, <2>2, <2>4, <2>5, PutWakes
<1>5. ASSUME NEW p \in Producer, ThrowStep(p), Next PROVE IInv'
  <2>1. Counters' /\ size' = size + 1
    BY <1>5, <1>n, PutSize DEF ThrowStep, PutThrows
  <2>2. TypeOK'
    <3>1. buffer_' = buffer_ /\ obj' \in [Thread -> Value \cup {None}]
      BY <1>5 DEF ThrowStep, PutThrows, TypeOK
    <3> QED
      BY <1>5, <2>1, <3>1, ThrowWakes, StepKinds DEF TypeOK, Counters
  <2>3. UNCHANGED <<useTry, copyThrows, moveThrows>> /\ moveThrows
    BY <1>5, StepKinds DEF workload, ThrowStep, PutThrows
  <2>4. ConsumersAwake'
    BY <2>3 DEF ConsumersAwake
  <2>5. ProducersAwake'
    <3> SUFFICES ASSUME ~useTry', FullWaiters' # {}
                 PROVE  MAXSIZE - size' <= Cardinality(Producing')
      BY <1>b
    <3>1. FullWaiters # {} /\ Cardinality(Producing') = Cardinality(Producing) - 1
      BY <1>5, <2>3, ThrowWakes
    <3>2. MAXSIZE - size <= Cardinality(Producing)
      BY <1>a, <2>3, <3>1
    <3> QED
      BY <1>n, <2>1, <3>1, <3>2
  <2> QED
    BY <1>5, <2>2, <2>4, <2>5, ThrowWakes
<1>2. ASSUME NEW c \in Consumer, GetStep(c), Next PROVE IInv'
  <2>1. Counters' /\ size' = size - 1
    BY <1>2, <1>n, GetSize DEF GetStep, Get
  <2>2. TypeOK'
    <3>1. buffer_' = buffer_ /\ obj' \in [Thread -> Value \cup {None}]
      <4>1. mask(in_) \in 0..(MAXSIZE - 1)
        <5>1. in_ \in Nat
          BY DEF TypeOK
        <5> QED
          BY <5>1, MaskType
      <4> QED
        BY <1>2, <4>1 DEF GetStep, Get, TypeOK, Thread
    <3> QED
      BY SMTT(20), <1>2, <2>1, <3>1, GetWakes, StepKinds DEF TypeOK, Counters
  <2>3. UNCHANGED <<useTry, copyThrows, moveThrows>>
    BY <1>2, StepKinds DEF workload
  <2>4. ConsumersAwake'
    BY <1>2, <1>a, <1>b, <1>n, <2>1, <2>3, GetWakes
  <2>5. ProducersAwake'
    <3> SUFFICES ASSUME ~useTry', FullWaiters' # {}
                 PROVE  MAXSIZE - size' <= Cardinality(Producing')
      BY <1>b
    <3>1. FullWaiters # {} /\ Cardinality(Producing') = Cardinality(Producing) + 1
      BY <1>2, <2>3, GetWakes
    <3>2. MAXSIZE - size <= Cardinality(Producing)
      BY <1>a, <2>3, <3>1
    <3> QED
      BY <1>n, <2>1, <3>1, <3>2
  <2> QED
    BY <1>2, <2>2, <2>4, <2>5, GetWakes
<1>3. ASSUME NEW t \in Thread, MoveStep(t), Next PROVE IInv'
  <2>1. UNCHANGED <<buffer_, in_, out_>> /\ size' = size
    BY <1>3 DEF MoveStep, size
  <2>2. TypeOK'
    BY <1>3, <2>1, MoveWakes, StepKinds DEF TypeOK
  <2>3. UNCHANGED <<useTry, copyThrows, moveThrows>>
    BY <1>3, StepKinds DEF workload
  <2>4. ConsumersAwake'
    <3>1. empty => size = 0
      BY <1>n, EmptySize
    <3> QED
      BY <1>3, <1>a, <1>b, <1>n, <2>1, <2>3, <3>1, MoveWakes
  <2>5. ProducersAwake'
    BY <1>3, <1>a, <1>b, <1>n, <2>1, <2>3, MoveWakes DEF full
  <2> QED
    BY <1>3, <2>2, <2>4, <2>5, MoveWakes
<1>4. CASE UNCHANGED vars
  BY <1>4 DEF vars, workload, TypeOK, Calls, ConsumersAwake, ProducersAwake, size,
    EmptyWaiters, FullWaiters
<1> QED
  BY <1>1, <1>2, <1>3, <1>4, <1>5, StepKinds

\* The constructor makes an empty queue and nobody has called.
LEMMA InvInitial == Init => IInv
<1> SUFFICES ASSUME Init PROVE IInv
  OBVIOUS
<1> USE Sizes, ThreadAssumption, BoundAssumption DEF Init, Thread
<1>1. in_ = 0 /\ out_ = 0 /\ size = 0
  BY SizeIs
<1>2. TypeOK /\ Calls
  BY <1>1 DEF TypeOK, Calls
<1>3. EmptyWaiters = {} /\ FullWaiters = {}
  BY DEF EmptyWaiters, FullWaiters
<1> QED
  BY <1>2, <1>3 DEF IInv, ConsumersAwake, ProducersAwake

\* In every state the variables have their types, the counters are at most a buffer
\* apart, each thread is where its call can be with a value in hand, and no wake-up is
\* lost in the programs that the two wake-up invariants speak of.  (What the buffer
\* holds is the business of FifoCorrect.)
THEOREM InvCorrect == Spec => []IInv
BY InvInitial, InvInductive, PTL DEF Spec

\* The counters wrap and are never further apart than the buffer is long.
THEOREM TypeCorrect == Spec => []TypeOK
<1>1. IInv => TypeOK
  BY DEF IInv
<1> QED
  BY <1>1, InvCorrect, PTL

\* No wake-up of a consumer is lost while neither make_shared nor T's move assignment
\* throws.
THEOREM ConsumersAwakeCorrect == Spec => []ConsumersAwake
<1>1. IInv => ConsumersAwake
  BY DEF IInv
<1> QED
  BY <1>1, InvCorrect, PTL

\* No wake-up of a producer is lost while try_consume is not called, whatever throws.
THEOREM ProducersAwakeCorrect == Spec => []ProducersAwake
<1>1. IInv => ProducersAwake
  BY DEF IInv
<1> QED
  BY <1>1, InvCorrect, PTL

-----------------------------------------------------------------------------
(* The queue is a bounded FIFO. *)

\* The refinement mapping, under names.
FifoQueue == [k \in 1..size |-> buffer_[mask(in_ + k - 1)]]
FifoTaken == [c \in Consumer |-> obj[c]]

\* The queue as a function on its indices.
FifoIndices ==
  /\ size \in Nat
  /\ FifoQueue \in [1..size -> Value \cup {None}]
  /\ \A k \in 1..size : FifoQueue[k] = buffer_[mask(in_ + k - 1)]

\* Every item has a slot.
LEMMA FifoQueueType == TypeOK => FifoIndices
<1> SUFFICES ASSUME TypeOK PROVE FifoIndices
  OBVIOUS
<1>1. size \in Nat /\ in_ \in Nat
  BY TypeCounters, Sizes DEF Counters
<1>2. \A k \in 1..size : mask(in_ + k - 1) \in 0..(MAXSIZE - 1)
  BY <1>1, MaskType
<1> QED
  BY <1>1, <1>2 DEF TypeOK, FifoQueue, FifoIndices

\* A put appends what out_'s slot then holds: the other items' slots are not out_'s.
LEMMA PutAppends ==
  ASSUME IInv, IInv', NEW v \in Content, ~full, in_' = in_, out_' = Advance(out_),
         buffer_' = [buffer_ EXCEPT ![mask(out_)] = v],
         \A c \in Consumer : obj'[c] = obj[c]
  PROVE  /\ Fifo!Enqueue(v)
         /\ size \in Nat /\ size' = size + 1
         /\ \A k \in 1..size : FifoQueue'[k] = FifoQueue[k]
         /\ FifoQueue'[size + 1] = v
<1> DEFINE n == size
<1> USE Sizes
<1>1. /\ ~full /\ Counters /\ in_' = in_ /\ out_' = Advance(out_)
      /\ buffer_' = [buffer_ EXCEPT ![mask(out_)] = v] /\ in_ \in Nat /\ out_ \in Nat
      /\ buffer_ \in [0..(MAXSIZE - 1) -> Value \cup {None}]
  BY TypeCounters DEF IInv, TypeOK, Counters
<1>2. n \in Nat /\ n < MAXSIZE /\ size' = n + 1
  BY <1>1, PutSize DEF Counters, full
<1>3. /\ FifoQueue \in [1..n -> Value \cup {None}]
      /\ \A k \in 1..n : FifoQueue[k] = buffer_[mask(in_ + k - 1)]
  BY FifoQueueType DEF FifoIndices, IInv
<1>4. /\ FifoQueue' \in [1..(n + 1) -> Value \cup {None}]
      /\ \A k \in 1..(n + 1) : FifoQueue'[k] = buffer_'[mask(in_ + k - 1)]
  <2>1. TypeOK' => FifoIndices'
    BY FifoQueueType, PTL
  <2> HIDE DEF n
  <2>2. FifoIndices'
    BY <2>1 DEF IInv
  <2>3. /\ FifoQueue' \in [1..size' -> Value \cup {None}]
        /\ \A k \in 1..size' : FifoQueue'[k] = buffer_'[mask(in_' + k - 1)]
    BY <2>2 DEF FifoIndices, mask
  <2> QED
    BY <1>1, <1>2, <2>3
<1>5. mask(in_ + n) = mask(out_) /\ mask(out_) \in 0..(MAXSIZE - 1)
  BY <1>1, NextSlot, MaskType
<1> HIDE DEF n
<1>6. \A k \in 1..n : FifoQueue'[k] = FifoQueue[k]
  <2> SUFFICES ASSUME NEW k \in 1..n PROVE FifoQueue'[k] = FifoQueue[k]
    OBVIOUS
  <2>1. /\ k \in 1..(n + 1) /\ in_ + k - 1 \in Nat /\ in_ + n \in Nat
        /\ in_ + k - 1 < in_ + n /\ in_ + n < in_ + k - 1 + MAXSIZE
    BY <1>1, <1>2
  <2>2. mask(in_ + k - 1) # mask(out_)
    BY <1>5, <2>1, MaskInjective
  <2>3. mask(in_ + k - 1) \in 0..(MAXSIZE - 1)
    BY <2>1, MaskType
  <2>4. buffer_'[mask(in_ + k - 1)] = buffer_[mask(in_ + k - 1)]
    BY <1>1, <2>2, <2>3
  <2> QED
    BY <1>3, <1>4, <2>1, <2>4
<1>7. FifoQueue'[n + 1] = v
  <2>1. n + 1 \in 1..(n + 1) /\ in_ + (n + 1) - 1 = in_ + n
    BY <1>1, <1>2
  <2>2. FifoQueue'[n + 1] = buffer_'[mask(out_)]
    BY <1>4, <1>5, <2>1
  <2> QED
    BY <1>1, <1>5, <2>2
<1>8. Len(FifoQueue) = n /\ FifoQueue' = Append(FifoQueue, v)
  BY <1>2, <1>3, <1>4, <1>6, <1>7, SeqOfIndices, SeqAppend
<1>9. FifoTaken' = FifoTaken
  BY DEF FifoTaken
<1>10. Fifo!Enqueue(v)
  BY <1>2, <1>8, <1>9 DEF Fifo!Enqueue, FifoQueue, FifoTaken
<1> QED
  BY <1>2, <1>6, <1>7, <1>10 DEF n

\* A put that throws appends what it finds in the slot.
LEMMA ThrowAppends ==
  ASSUME IInv, IInv', NEW p \in Producer, ThrowStep(p)
  PROVE  \E v \in Content : Fifo!Enqueue(v)
<1> USE Sizes
<1>1. mask(out_) \in 0..(MAXSIZE - 1)
  <2>1. out_ \in Nat
    BY DEF IInv, TypeOK
  <2> QED
    BY <2>1, MaskType
<1>2. /\ buffer_[mask(out_)] \in Content
      /\ buffer_' = [buffer_ EXCEPT ![mask(out_)] = buffer_[mask(out_)]]
      /\ ~full /\ in_' = in_ /\ out_' = Advance(out_)
  BY <1>1 DEF ThrowStep, PutThrows, IInv, TypeOK, Content
<1>3. \A c \in Consumer : obj'[c] = obj[c]
  BY ThreadAssumption DEF ThrowStep, IInv, TypeOK, Thread
<1> QED
  BY <1>2, <1>3, PutAppends

\* A put that does not throw appends the value.
LEMMA PutStepAppends ==
  ASSUME IInv, IInv', NEW p \in Producer, NEW v \in Value, PutStep(p, v)
  PROVE  /\ Fifo!Enqueue(v)
         /\ size \in Nat /\ size' = size + 1
         /\ \A k \in 1..size : FifoQueue'[k] = FifoQueue[k]
         /\ FifoQueue'[size + 1] = v
<1>1. /\ v \in Content /\ ~full /\ in_' = in_ /\ out_' = Advance(out_)
      /\ buffer_' = [buffer_ EXCEPT ![mask(out_)] = v]
  BY DEF PutStep, Put, Content
<1>2. \A c \in Consumer : obj'[c] = obj[c]
  BY ThreadAssumption DEF PutStep, IInv, TypeOK, Thread
<1> QED
  BY <1>1, <1>2, PutAppends

\* A get takes the head, which is at in_; the others are counted from in_ + 1.
LEMMA GetTakes ==
  ASSUME IInv, IInv', NEW c \in Consumer, GetStep(c)
  PROVE  /\ Fifo!Dequeue(c)
         /\ size' \in Nat /\ size = size' + 1
         /\ \A k \in 1..size' : FifoQueue'[k] = FifoQueue[k + 1]
<1> DEFINE n == size - 1
<1> USE Sizes
<1>1. /\ ~empty /\ Counters /\ in_' = Advance(in_) /\ out_' = out_ /\ buffer_' = buffer_
      /\ obj' = [obj EXCEPT ![c] = buffer_[mask(in_)]] /\ in_ \in 0..(Modulus - 1)
      /\ obj \in [Thread -> Value \cup {None}]
  BY TypeCounters DEF GetStep, Get, IInv, TypeOK, Counters
<1>2. size = n + 1 /\ n \in Nat /\ size' = n
  BY <1>1, GetSize, EmptySize DEF Counters
<1> HIDE DEF n
<1>3. /\ FifoQueue \in [1..(n + 1) -> Value \cup {None}]
      /\ \A k \in 1..(n + 1) : FifoQueue[k] = buffer_[mask(in_ + k - 1)]
  BY <1>2, FifoQueueType DEF FifoIndices, IInv
<1>4. /\ FifoQueue' \in [1..n -> Value \cup {None}]
      /\ \A k \in 1..n : FifoQueue'[k] = buffer_[mask(Advance(in_) + k - 1)]
  <2>1. TypeOK' => FifoIndices'
    BY FifoQueueType, PTL
  <2>2. FifoIndices'
    BY <2>1 DEF IInv
  <2>3. /\ FifoQueue' \in [1..size' -> Value \cup {None}]
        /\ \A k \in 1..size' : FifoQueue'[k] = buffer_'[mask(in_' + k - 1)]
    BY <2>2 DEF FifoIndices, mask
  <2> QED
    BY <1>1, <1>2, <2>3
<1>5. \A k \in 1..n : FifoQueue'[k] = FifoQueue[k + 1]
  <2> SUFFICES ASSUME NEW k \in 1..n PROVE FifoQueue'[k] = FifoQueue[k + 1]
    OBVIOUS
  <2>1. /\ k - 1 \in Nat /\ k + 1 \in 1..(n + 1)
        /\ in_ + 1 + (k - 1) = in_ + (k + 1) - 1
    BY <1>1, <1>2
  <2>2. mask(Advance(in_) + (k - 1)) = mask(in_ + (k + 1) - 1)
    BY <1>1, <2>1, SlotsAdvance
  <2>3. Advance(in_) + (k - 1) = Advance(in_) + k - 1
    BY <1>1, AdvanceIs
  <2> QED
    BY <1>3, <1>4, <2>1, <2>2, <2>3
<1>6. FifoQueue # <<>> /\ FifoQueue' = Tail(FifoQueue) /\ Head(FifoQueue) = FifoQueue[1]
  BY <1>2, <1>3, <1>4, <1>5, SeqTail
<1>7. FifoQueue[1] = buffer_[mask(in_)]
  <2>1. 1 \in 1..(n + 1) /\ in_ + 1 - 1 = in_
    BY <1>1, <1>2
  <2> QED
    BY <1>3, <2>1
<1>8. FifoTaken' = [FifoTaken EXCEPT ![c] = Head(FifoQueue)]
  BY <1>1, <1>6, <1>7 DEF FifoTaken, Thread
<1>9. Fifo!Dequeue(c)
  BY <1>6, <1>8 DEF Fifo!Dequeue, FifoQueue, FifoTaken
<1> QED
  BY <1>2, <1>5, <1>9

\* Each step is one of the bounded queue, or none.
LEMMA FifoStep == IInv /\ IInv' /\ [Next]_vars => [Fifo!Next]_(Fifo!vars)
<1> SUFFICES ASSUME IInv, IInv', [Next]_vars PROVE [Fifo!Next]_(Fifo!vars)
  OBVIOUS
<1>1. ASSUME NEW p \in Producer, NEW v \in Value, PutStep(p, v) PROVE Fifo!Next
  BY <1>1, PutStepAppends DEF Fifo!Next, Content
<1>5. ASSUME NEW p \in Producer, ThrowStep(p) PROVE Fifo!Next
  BY <1>5, ThrowAppends DEF Fifo!Next
<1>2. ASSUME NEW c \in Consumer, GetStep(c) PROVE Fifo!Next
  BY <1>2, GetTakes DEF Fifo!Next
<1>3. ASSUME NEW t \in Thread, MoveStep(t) PROVE UNCHANGED Fifo!vars
  BY <1>3 DEF MoveStep, Fifo!vars, size
<1>4. CASE UNCHANGED vars
  BY <1>4 DEF vars, Fifo!vars, size
<1> QED
  BY <1>1, <1>2, <1>3, <1>4, <1>5, StepKinds DEF IInv

\* While no assignment throws, each put brings a value.
LEMMA OnlyProducedStep ==
  IInv /\ IInv' /\ OnlyProduced /\ [Next]_vars => OnlyProduced'
<1> SUFFICES ASSUME IInv, IInv', OnlyProduced, [Next]_vars, ~moveThrows'
             PROVE  \A k \in 1..size' : FifoQueue'[k] \in Value
  <2>1. TypeOK' => FifoIndices'
    BY FifoQueueType, PTL
  <2> QED
    BY <2>1 DEF OnlyProduced, FifoIndices, IInv
<1>0. ~moveThrows /\ \A k \in 1..size : FifoQueue[k] \in Value
  <2>1. UNCHANGED moveThrows
    BY StepKinds DEF IInv, vars, workload
  <2> QED
    BY <2>1, FifoQueueType DEF OnlyProduced, FifoIndices, IInv
<1>1. ASSUME NEW p \in Producer, NEW v \in Value, PutStep(p, v)
      PROVE  \A k \in 1..size' : FifoQueue'[k] \in Value
  BY <1>0, <1>1, PutStepAppends
<1>2. ASSUME NEW c \in Consumer, GetStep(c)
      PROVE  \A k \in 1..size' : FifoQueue'[k] \in Value
  BY <1>0, <1>2, GetTakes
<1>3. ASSUME NEW t \in Thread, MoveStep(t)
      PROVE  size' = size /\ FifoQueue' = FifoQueue
  BY <1>3 DEF MoveStep, size, FifoQueue
<1>4. CASE UNCHANGED vars
  BY <1>0, <1>4 DEF vars, size, FifoQueue
<1>5. ASSUME NEW p \in Producer, ThrowStep(p) PROVE FALSE
  BY <1>0, <1>5 DEF ThrowStep, PutThrows
<1> QED
  BY <1>0, <1>1, <1>2, <1>3, <1>4, <1>5, StepKinds DEF IInv

\* The constructor makes an empty queue.
LEMMA FifoInitial == Init => Fifo!Init
<1> SUFFICES ASSUME Init PROVE Fifo!Init
  OBVIOUS
<1>1. size = 0 /\ 1..size = {}
  BY SizeIs, Sizes DEF Init
<1> QED
  BY <1>1 DEF Init, Fifo!Init, Thread

\* Items leave in the order they came, each once, through every wrap of the counters
\* and every exception, for any size of the buffer and any number of threads; they are
\* what producers brought unless an assignment threw, when the slot's old content takes
\* the item's turn.
THEOREM FifoCorrect == Spec => ImplementsFifo
<1>1. Init => OnlyProduced
  <2>1. Init => 1..size = {}
    BY SizeIs, Sizes DEF Init
  <2> QED
    BY <2>1 DEF OnlyProduced
<1> QED
  BY <1>1, FifoInitial, FifoStep, OnlyProducedStep, InvCorrect, PTL
  DEF Spec, ImplementsFifo, Fifo!Spec
=============================================================================
