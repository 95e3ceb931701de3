---------------------------- MODULE MpmcBlocking ----------------------------
(***************************************************************************)
(* The blocking queue MPMC of concurrent_structures/mpmc_lock.cpp: a ring  *)
(* buffer behind the mutex m_, with the condition variables empty_check_,  *)
(* on which consumers wait, and full_check_, on which producers wait.      *)
(*                                                                         *)
(* Everything between the lock and the unlock of m_, or the wait that      *)
(* releases it, is one step.  A thread at "produce" or "consume" is about  *)
(* to take the mutex, either because it has just called or because it has  *)
(* been woken.                                                             *)
(***************************************************************************)
EXTENDS Naturals, FiniteSets, Sequences

CONSTANTS
  Producer, Consumer,
  Value, None,
  MAXSIZE,
  Modulus,            \* in_ and out_ are unsigned: they count modulo this
  Quota               \* bound: how many items are produced, and consumed, in all

ASSUME ThreadAssumption ==
  Producer \cap Consumer = {} /\ IsFiniteSet(Producer) /\ IsFiniteSet(Consumer)

\* "ensure max size power of 2"; std::size_t counts modulo a larger power of 2.
ASSUME SizeAssumption ==
  /\ MAXSIZE \in Nat \ {0} /\ Modulus \in Nat
  /\ \E k \in 2..Modulus : Modulus = k * MAXSIZE

ASSUME BoundAssumption == Quota \in Nat /\ None \notin Value

VARIABLES
  buffer_, in_, out_,
  pc,                 \* per thread, with the condition variable it waits on
  obj,                \* per producer: the argument of its call; per consumer: its last result
  toProduce, toConsume, \* the calls that the threads have still to make
  useTry,             \* are try_produce and try_consume called too?
  copyThrows,         \* may std::make_shared<T> throw?
  moveThrows          \* may T's move assignment throw?

\* What the program does, and T and the allocator may do, chosen once.
workload == <<useTry, copyThrows, moveThrows>>
vars == <<buffer_, in_, out_, pc, obj, toProduce, toConsume, workload>>

Thread == Producer \cup Consumer

mask(index) == index % MAXSIZE
size == (out_ + Modulus - in_) % Modulus
empty == out_ = in_
full == size = MAXSIZE
Advance(index) == (index + 1) % Modulus

Init ==
  /\ buffer_ = [i \in 0..(MAXSIZE - 1) |-> None]
  /\ in_ = 0
  /\ out_ = 0
  /\ pc = [t \in Thread |-> "idle"]
  /\ obj = [t \in Thread |-> None]
  /\ toProduce = Quota
  /\ toConsume = Quota
  /\ useTry \in BOOLEAN
  /\ copyThrows \in BOOLEAN
  /\ moveThrows \in BOOLEAN

EmptyWaiters == {c \in Consumer : pc[c] = "empty_wait"}
FullWaiters == {p \in Producer : pc[p] = "full_wait"}

\* Thread t goes to `label` and one of the waiters, if any, is woken.
NotifyOne(t, label, waiters, awake) ==
  \/ waiters = {} /\ pc' = [pc EXCEPT ![t] = label]
  \/ \E w \in waiters : pc' = [pc EXCEPT ![t] = label, ![w] = awake]

ProducerCalls == toProduce > 0 /\ toProduce' = toProduce - 1 /\ UNCHANGED toConsume
ConsumerCalls == toConsume > 0 /\ toConsume' = toConsume - 1 /\ UNCHANGED toProduce

-----------------------------------------------------------------------------
(* void produce(T obj), void try_produce(T obj) *)

\* buffer_[mask(out_++)] = std::move(obj)
Put(v) ==
  /\ buffer_' = [buffer_ EXCEPT ![mask(out_)] = v]
  /\ out_' = Advance(out_)
  /\ UNCHANGED in_

\* The same when the assignment throws, which it does after out_++: the slot, with
\* what it held, is now an item, and the notify_one that follows is not reached.
PutThrows ==
  /\ moveThrows
  /\ ~full
  /\ out_' = Advance(out_)
  /\ UNCHANGED <<buffer_, in_>>

ProduceCall(p, v) ==
  /\ pc[p] = "idle"
  /\ ProducerCalls
  /\ obj' = [obj EXCEPT ![p] = v]
  /\ pc' = [pc EXCEPT ![p] = "produce"]
  /\ UNCHANGED <<buffer_, in_, out_>>

\* Faulty variant: nobody is told that there is an item.
ProduceSilent(p) ==
  /\ pc[p] = "produce"
  /\ \/ /\ full
        /\ pc' = [pc EXCEPT ![p] = "full_wait"]
        /\ UNCHANGED <<buffer_, in_, out_, obj>>
     \/ /\ ~full
        /\ Put(obj[p])
        /\ obj' = [obj EXCEPT ![p] = None]
        /\ pc' = [pc EXCEPT ![p] = "idle"]
  /\ UNCHANGED <<toProduce, toConsume>>

\* Faulty variant: the predicate is not evaluated again after a wake-up.
ProduceIfWait(p) ==
  /\ pc[p] = "produce"
  /\ Put(obj[p])
  /\ obj' = [obj EXCEPT ![p] = None]
  /\ NotifyOne(p, "idle", EmptyWaiters, "consume")
  /\ UNCHANGED <<toProduce, toConsume>>

\* full_check_.wait(uniq_lk, [this] { return !full(); })
Produce(p) ==
  /\ pc[p] = "produce"
  /\ \/ /\ full
        /\ pc' = [pc EXCEPT ![p] = "full_wait"]
        /\ UNCHANGED <<buffer_, in_, out_, obj>>
     \/ /\ ~full
        /\ Put(obj[p])
        /\ obj' = [obj EXCEPT ![p] = None]
        /\ NotifyOne(p, "idle", EmptyWaiters, "consume")
  /\ UNCHANGED <<toProduce, toConsume>>

ProduceThrows(p) ==
  /\ pc[p] = "produce"
  /\ PutThrows
  /\ obj' = [obj EXCEPT ![p] = None]
  /\ pc' = [pc EXCEPT ![p] = "idle"]
  /\ UNCHANGED <<toProduce, toConsume>>

\* On a full buffer it throws and changes nothing.
TryProduce(p, v) ==
  /\ useTry
  /\ pc[p] = "idle"
  /\ ProducerCalls
  /\ \/ full /\ UNCHANGED <<buffer_, in_, out_, pc>>
     \/ /\ ~full
        /\ Put(v)
        /\ NotifyOne(p, "idle", EmptyWaiters, "consume")
     \/ PutThrows /\ UNCHANGED pc
  /\ UNCHANGED obj

-----------------------------------------------------------------------------
(* std::shared_ptr<T> consume(), std::shared_ptr<T> try_consume() *)

\* make_shared<T>(buffer_[mask(in_)]); in_++
Get(c) ==
  /\ obj' = [obj EXCEPT ![c] = buffer_[mask(in_)]]
  /\ in_' = Advance(in_)
  /\ UNCHANGED <<buffer_, out_>>

ConsumeCall(c) ==
  /\ pc[c] = "idle"
  /\ ConsumerCalls
  /\ pc' = [pc EXCEPT ![c] = "consume"]
  /\ UNCHANGED <<buffer_, in_, out_, obj>>

\* Faulty variant: nobody is told that there is room.
ConsumeSilent(c) ==
  /\ pc[c] = "consume"
  /\ \/ /\ empty
        /\ pc' = [pc EXCEPT ![c] = "empty_wait"]
        /\ UNCHANGED <<buffer_, in_, out_, obj>>
     \/ /\ ~empty
        /\ Get(c)
        /\ pc' = [pc EXCEPT ![c] = "idle"]
  /\ UNCHANGED <<toProduce, toConsume>>

\* empty_check_.wait(uniq_lk, [this] { return !empty(); })
Consume(c) ==
  /\ pc[c] = "consume"
  /\ \/ /\ empty
        /\ pc' = [pc EXCEPT ![c] = "empty_wait"]
        /\ UNCHANGED <<buffer_, in_, out_, obj>>
     \/ /\ ~empty
        /\ Get(c)
        /\ NotifyOne(c, "idle", FullWaiters, "produce")
  /\ UNCHANGED <<toProduce, toConsume>>

\* make_shared throws before in_++: the item stays and nobody is notified.
ConsumeThrows(c) ==
  /\ copyThrows
  /\ pc[c] = "consume"
  /\ ~empty
  /\ pc' = [pc EXCEPT ![c] = "idle"]
  /\ UNCHANGED <<buffer_, in_, out_, obj, toProduce, toConsume>>

\* Returns a null pointer on an empty buffer, and notifies nobody on any.
TryConsume(c) ==
  /\ useTry
  /\ pc[c] = "idle"
  /\ ConsumerCalls
  /\ \/ empty /\ UNCHANGED <<buffer_, in_, out_, obj>>
     \/ ~empty /\ Get(c)
     \/ ~empty /\ copyThrows /\ UNCHANGED <<buffer_, in_, out_, obj>>
  /\ UNCHANGED pc

-----------------------------------------------------------------------------
\* A wait may end although nobody was notified.
SpuriousWakeup ==
  /\ \/ \E p \in FullWaiters : pc' = [pc EXCEPT ![p] = "produce"]
     \/ \E c \in EmptyWaiters : pc' = [pc EXCEPT ![c] = "consume"]
  /\ UNCHANGED <<buffer_, in_, out_, obj, toProduce, toConsume>>

Next ==
  /\ \/ \E p \in Producer : \/ \E v \in Value : ProduceCall(p, v) \/ TryProduce(p, v)
                            \/ Produce(p) \/ ProduceThrows(p)
     \/ \E c \in Consumer : ConsumeCall(c) \/ TryConsume(c) \/ Consume(c) \/ ConsumeThrows(c)
     \/ SpuriousWakeup
  /\ UNCHANGED workload

Spec == Init /\ [][Next]_vars

\* The calls that are left are made, and a thread that wants the mutex gets it.
\* Nothing is assumed of spurious wake-ups.
Fairness ==
  /\ \A p \in Producer :
       WF_vars((Produce(p) \/ \E v \in Value : ProduceCall(p, v)) /\ UNCHANGED workload)
  /\ \A c \in Consumer :
       WF_vars((Consume(c) \/ ConsumeCall(c)) /\ UNCHANGED workload)

FairSpec == Spec /\ Fairness

-----------------------------------------------------------------------------
(***************************************************************************)
(* Properties.                                                             *)
(***************************************************************************)

\* Types, and the counters, although they wrap, are never further apart than
\* the buffer is long.
TypeOK ==
  /\ buffer_ \in [0..(MAXSIZE - 1) -> Value \cup {None}]
  /\ in_ \in 0..(Modulus - 1)
  /\ out_ \in 0..(Modulus - 1)
  /\ size <= MAXSIZE
  /\ pc \in [Thread -> {"idle", "produce", "full_wait", "consume", "empty_wait"}]
  /\ obj \in [Thread -> Value \cup {None}]
  /\ toProduce \in 0..Quota
  /\ toConsume \in 0..Quota

\* What a slot may hold; None is the T that new T[MAXSIZE] makes.
Content == Value \cup {None}

Fifo == INSTANCE BoundedFifo WITH
  Value <- Content,
  Capacity <- MAXSIZE,
  queue <- [k \in 1..size |-> buffer_[mask(in_ + k - 1)]],
  taken <- [c \in Consumer |-> obj[c]]

\* While no assignment throws, the items are values that producers brought.
OnlyProduced ==
  ~moveThrows => \A k \in 1..size : buffer_[mask(in_ + k - 1)] \in Value

\* Items leave in the order they came, each once, through every wrap of the counters
\* and every exception.  What came is what was produced, unless an assignment threw:
\* such a put brings, in its turn, what the slot happened to hold.
ImplementsFifo == Fifo!Spec /\ []OnlyProduced

\* No wake-up of a consumer is lost while nothing throws: while one sleeps, every item
\* in the buffer has a consumer on its way to it.  (A consumer whose make_shared throws
\* uses its wake-up up and leaves the item, and a producer whose assignment throws
\* leaves an item and wakes nobody.)
ConsumersAwake ==
  ~copyThrows /\ ~moveThrows /\ EmptyWaiters # {} =>
    size <= Cardinality({c \in Consumer : pc[c] = "consume"})

\* No wake-up of a producer is lost, whatever throws, in a program without
\* try_consume: while one sleeps, every free slot has a producer on its way to it.
\* (try_consume makes room and notifies nobody.)
ProducersAwake ==
  ~useTry /\ FullWaiters # {} =>
    MAXSIZE - size <= Cardinality({p \in Producer : pc[p] = "produce"})

\* With as many items to consume as are produced, as in main, where nothing throws,
\* every call returns.
Termination ==
  ~useTry /\ ~copyThrows /\ ~moveThrows ~>
    toProduce = 0 /\ toConsume = 0 /\ \A t \in Thread : pc[t] = "idle"

\* "wait till not full", "wait until atleast 1 item": no producer waits for ever on a
\* buffer that stays not full, and no consumer beside an item that stays, whatever is
\* called and throws.
WaitsEnd ==
  /\ \A p \in Producer : ~<>[](pc[p] = "full_wait" /\ ~full)
  /\ \A c \in Consumer : ~<>[](pc[c] = "empty_wait" /\ ~empty)
=============================================================================
