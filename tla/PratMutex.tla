----------------------------- MODULE PratMutex -----------------------------
(***************************************************************************)
(* prat::mutex of concurrent_structures/mutex.cpp: a lock made of one      *)
(* std::atomic_flag.  A thread that does not get it blocks in lk.wait,     *)
(* unlock clears the flag and then wakes one thread; between the two, any  *)
(* thread may take the lock.                                               *)
(***************************************************************************)
CONSTANT Thread

VARIABLES lk, pc

vars == <<lk, pc>>

Goto(t, label) == pc' = [pc EXCEPT ![t] = label]

Init ==
  /\ lk = FALSE
  /\ pc = [t \in Thread |-> "idle"]

-----------------------------------------------------------------------------
(* void lock() *)

LockCall(t) ==
  /\ pc[t] = "idle"
  /\ Goto(t, "test")
  /\ UNCHANGED lk

\* Faulty variant: the flag is tested first and set in the same breath by all
\* who saw it clear: the old value is not looked at.
TestThenSet(t) ==
  /\ pc[t] = "test"
  /\ lk' = TRUE
  /\ Goto(t, "inside")

\* lk.test_and_set()
TestAndSet(t) ==
  /\ pc[t] = "test"
  /\ lk' = TRUE
  /\ \/ ~lk /\ Goto(t, "inside")
     \/ lk /\ Goto(t, "wait")

\* lk.wait(true): sleep, unless the flag is found clear.
Wait(t) ==
  /\ pc[t] = "wait"
  /\ \/ lk /\ Goto(t, "asleep")
     \/ ~lk /\ Goto(t, "test")
  /\ UNCHANGED lk

\* lk.wait may wake up for no reason; it then looks at the flag again.
SpuriousWakeup(t) ==
  /\ pc[t] = "asleep"
  /\ Goto(t, "wait")
  /\ UNCHANGED lk

-----------------------------------------------------------------------------
(* void unlock() *)

\* lk.clear()
Clear(t) ==
  /\ pc[t] = "inside"
  /\ lk' = FALSE
  /\ Goto(t, "notify")

Sleepers == {t \in Thread : pc[t] = "asleep"}

\* Faulty variant: nobody is woken.
NotifyNobody(t) ==
  /\ pc[t] = "notify"
  /\ Goto(t, "idle")
  /\ UNCHANGED lk

\* lk.notify_one()
Notify(t) ==
  /\ pc[t] = "notify"
  /\ \/ Sleepers = {} /\ Goto(t, "idle")
     \/ \E u \in Sleepers : pc' = [pc EXCEPT ![t] = "idle", ![u] = "wait"]
  /\ UNCHANGED lk

-----------------------------------------------------------------------------
Lock(t) == TestAndSet(t) \/ Wait(t)

Unlock(t) == Clear(t) \/ Notify(t)

Next == \E t \in Thread : LockCall(t) \/ Lock(t) \/ SpuriousWakeup(t) \/ Unlock(t)

Spec == Init /\ [][Next]_vars

\* A thread that is awake inside lock or unlock keeps running, and the holder
\* unlocks.  No fairness among the threads: "no fairness", says the file.
Fairness == \A t \in Thread : WF_vars(Lock(t)) /\ WF_vars(Unlock(t))

FairSpec == Spec /\ Fairness

-----------------------------------------------------------------------------
Inside(t) == pc[t] = "inside"
Awake(t) == pc[t] \in {"test", "wait", "notify"}

\* The types of the flag and of the threads' control.
TypeOK ==
  /\ lk \in BOOLEAN
  /\ pc \in [Thread -> {"idle", "test", "wait", "asleep", "inside", "notify"}]

\* Two threads never hold the lock at once.
MutualExclusion == \A t, u \in Thread : Inside(t) /\ Inside(u) => t = u

\* The flag is set exactly while some thread holds the lock.
FlagInv == lk <=> \E t \in Thread : Inside(t)

\* No wake-up is lost: while a thread sleeps, the lock is held, and its holder
\* will wake one, or some thread is awake to take the lock or to wake one.
SleepersCovered ==
  (\E t \in Thread : pc[t] = "asleep") => lk \/ \E t \in Thread : Awake(t)

\* The inductive invariant.
IInv == TypeOK /\ MutualExclusion /\ FlagInv /\ SleepersCovered

\* A thread that wants the lock is not left waiting for a lock that nobody ever
\* takes again.
DeadlockFree ==
  (\E t \in Thread : pc[t] \in {"test", "wait", "asleep"}) ~> (\E t \in Thread : Inside(t))
=============================================================================
