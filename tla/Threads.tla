------------------------------ MODULE Threads -------------------------------
(***************************************************************************)
(* The components of the repository that threads share and that nothing    *)
(* but the program they are in decides between: SPSC, thread_safe_queue,   *)
(* threadpool, exception::stack, and the locks.  A behaviour is one of a   *)
(* program that uses one of them, chosen once in `component`; the variables of  *)
(* the others keep their initial values.                                   *)
(***************************************************************************)
EXTENDS Naturals, FiniteSets, Sequences

CONSTANTS
  Value, None, Raw, capacity_, MaxPos,              \* SPSC
  Adder, Remover,                                   \* thread_safe_queue
  Worker, Client, Job, NoJob,                       \* threadpool
  Thread, Node, Null, Empty, CopyThrows,            \* exception::stack
  Locker, Modulus, Reader, Writer, Nobody           \* the locks

VARIABLES
  component,
  ring_, head_, tail_, producer, consumer, val, place,
  safe_queue, queue_pc, result,
  stop, jobs, pool_pc, job, done, fresh, owner,
  head, next, data, alive, stack_pc, ptr, nxt, res,
  p_turn, p_interested, p_pc, p_overtaken,
  t_turn, t_interested, t_pc, t_overtaken,
  lk, m_pc,
  ticket, turn, f_pc, my_turn,
  read_lock, writer_lock, READ_COUNT, rw_pc

Spsc == INSTANCE Spsc

Queue == INSTANCE ThreadSafeQueue WITH pc <- queue_pc

Pool == INSTANCE ThreadPool WITH pc <- pool_pc

Stack == INSTANCE LeakyStack WITH pc <- stack_pc

Peterson == INSTANCE Peterson WITH
  turn <- p_turn, interested <- p_interested, pc <- p_pc, overtaken <- p_overtaken

Tweaked == INSTANCE PetersonTweaked WITH
  turn <- t_turn, interested <- t_interested, pc <- t_pc, overtaken <- t_overtaken

Prat == INSTANCE PratMutex WITH Thread <- Locker, pc <- m_pc

Fair == INSTANCE TicketLock WITH Thread <- Locker, pc <- f_pc

RW == INSTANCE ReaderWriter WITH pc <- rw_pc

ASSUME Assumptions ==
  /\ Spsc!CapacityAssumption /\ Spsc!ValueAssumption
  /\ Queue!ThreadAssumption
  /\ Pool!PoolAssumption
  /\ Stack!NodeAssumption /\ Stack!ValueAssumption /\ Stack!CopyAssumption
  /\ Fair!TicketAssumption
  /\ RW!ThreadAssumption

spscVars == <<ring_, head_, tail_, producer, consumer, val, place>>
queueVars == <<safe_queue, queue_pc, result>>
poolVars == <<stop, jobs, pool_pc, job, done, fresh, owner>>
stackVars == <<head, next, data, alive, stack_pc, ptr, nxt, res>>
petersonVars == <<p_turn, p_interested, p_pc, p_overtaken>>
tweakedVars == <<t_turn, t_interested, t_pc, t_overtaken>>
pratVars == <<lk, m_pc>>
fairVars == <<ticket, turn, f_pc, my_turn>>
rwVars == <<read_lock, writer_lock, READ_COUNT, rw_pc>>
vars == <<component, spscVars, queueVars, poolVars, stackVars, petersonVars,
          tweakedVars, pratVars, fairVars, rwVars>>

Init ==
  /\ component \in {"SPSC", "thread_safe_queue", "threadpool", "exception", "peterson",
                    "tweaked", "prat", "fairlock", "reader_writer"}
  /\ Spsc!Init /\ Queue!Init /\ Pool!Init /\ Stack!Init
  /\ Peterson!Init /\ Tweaked!Init /\ Prat!Init /\ Fair!Init /\ RW!Init

\* The components other than c rest.
Rest(c) ==
  /\ c # "SPSC" => UNCHANGED spscVars
  /\ c # "thread_safe_queue" => UNCHANGED queueVars
  /\ c # "threadpool" => UNCHANGED poolVars
  /\ c # "exception" => UNCHANGED stackVars
  /\ c # "peterson" => UNCHANGED petersonVars
  /\ c # "tweaked" => UNCHANGED tweakedVars
  /\ c # "prat" => UNCHANGED pratVars
  /\ c # "fairlock" => UNCHANGED fairVars
  /\ c # "reader_writer" => UNCHANGED rwVars

Next ==
  /\ \/ component = "SPSC" /\ Spsc!Next
     \/ component = "thread_safe_queue" /\ Queue!Next
     \/ component = "threadpool" /\ Pool!Next
     \/ component = "exception" /\ Stack!Next
     \/ component = "peterson" /\ Peterson!Next
     \/ component = "tweaked" /\ Tweaked!Next
     \/ component = "prat" /\ Prat!Next
     \/ component = "fairlock" /\ Fair!Next
     \/ component = "reader_writer" /\ RW!Next
  /\ Rest(component)
  /\ UNCHANGED component

\* Each component's own fairness, while it is the one in use.
Fairness ==
  \/ component = "SPSC"
  \/ component = "thread_safe_queue" /\ Queue!Fairness
  \/ component = "threadpool" /\ Pool!Fairness
  \/ component = "exception" /\ Stack!Fairness
  \/ component = "peterson" /\ Peterson!Fairness
  \/ component = "tweaked" /\ Tweaked!Fairness
  \/ component = "prat" /\ Prat!Fairness
  \/ component = "fairlock" /\ Fair!Fairness
  \/ component = "reader_writer" /\ RW!Fairness

Spec == Init /\ [][Next]_vars /\ Fairness

-----------------------------------------------------------------------------
(***************************************************************************)
(* Properties: those of the components, which say what they mean.          *)
(***************************************************************************)

\* SPSC: objects are constructed and destroyed exactly once, each in a slot of
\* its own, and the destructor leaves none.
SlotInv == Spsc!SlotInv

\* threadpool: no wake-up of a worker is lost.
JobsCovered == Pool!JobsCovered

\* threadpool: every accepted job is in one place until it has been run.
JobsKept == Pool!JobsKept

\* exception::stack: the linked nodes, and those a thread is pushing or has just
\* unlinked, are different allocated nodes, and no thread follows a null pointer.
OwnNodes == Stack!TypeOK /\ Stack!OwnNodes

\* Nobody shares a lock, but for readers among themselves, whose number the
\* reader/writer lock knows; for prat::mutex as part of its inductive invariant, by
\* which no wake-up is lost either.  The tweaked version of Peterson's algorithm is
\* not listed: it does not have the property.
Exclusion ==
  /\ Peterson!MutualExclusion
  /\ Prat!IInv
  /\ Fair!MutualExclusion
  /\ RW!Exclusion /\ RW!ReadersCounted

\* Both versions of Peterson's algorithm: a waiting process is overtaken at most
\* once.
BoundedWait == Peterson!BoundedWait /\ Tweaked!BoundedWait

\* fairlock::mutex serves the threads in the order of their tickets.
ServedInOrder == Fair!ServedInOrder

\* SPSC and thread_safe_queue hand out what they were given once and first in,
\* first out; exception::stack once and last in, first out.
InOrder == Spsc!ImplementsFifo /\ Queue!ImplementsFifo /\ Stack!ImplementsStack

\* thread_safe_queue: the threads of main are all joined; threadpool: the destructor
\* returns.
EveryoneFinishes ==
  /\ component = "thread_safe_queue" => Queue!EveryoneFinishes
  /\ Pool!DestructorReturns

\* threadpool: every accepted job is run.
EveryJobRuns == Pool!EveryJobRuns

\* exception::stack: unless all calls have returned, some call returns.
LockFree == Stack!LockFree

\* Where a lock is fair, everyone who waits is served.
EveryoneServed == Peterson!Progress /\ Tweaked!Progress /\ Fair!EveryoneServed

\* Where it is not fair, at least someone is: no wake-up is lost and no lock is
\* left behind.
DeadlockFree == Prat!DeadlockFree /\ RW!DeadlockFree
=============================================================================
