----------------------------- MODULE ThreadPool -----------------------------
(***************************************************************************)
(* threadpool of c++_features_experiment/threadpools.cpp: workers that     *)
(* take jobs from a queue behind the mutex m and sleep on the condition    *)
(* variable start, clients that submit jobs, and the destructor.           *)
(*                                                                         *)
(* What happens between the lock and the unlock of m is one step.  As for  *)
(* every object, clients are done with the pool before it is destroyed;    *)
(* the jobs that are still in it may submit jobs themselves.               *)
(***************************************************************************)
EXTENDS Naturals, FiniteSets, Sequences

CONSTANTS
  Worker, Client,
  Job,                \* each is submitted at most once
  NoJob

PoolAssumption ==
  /\ IsFiniteSet(Worker) /\ IsFiniteSet(Client)
  /\ Worker \cap Client = {} /\ NoJob \notin Job

VARIABLES
  stop, jobs,
  pc,                 \* of workers and clients
  job,                \* per worker: the job it runs
  done,               \* the jobs that have been run
  fresh,              \* the jobs not yet submitted
  owner               \* the thread that destroys the pool

vars == <<stop, jobs, pc, job, done, fresh, owner>>

Init ==
  /\ stop = FALSE
  /\ jobs = <<>>
  /\ pc = [t \in Worker \cup Client |-> IF t \in Worker THEN "look" ELSE "idle"]
  /\ job = [w \in Worker |-> NoJob]
  /\ done = {}
  /\ fresh = Job
  /\ owner = "using"

Sleepers == {w \in Worker : pc[w] = "asleep"}

-----------------------------------------------------------------------------
(* void submit_job(Function &&f) *)

\* jobs.push(f), under the lock; start.notify_one() follows outside it.
Push(t, j, label) ==
  /\ ~stop
  /\ jobs' = Append(jobs, j)
  /\ fresh' = fresh \ {j}
  /\ pc' = [pc EXCEPT ![t] = label]
  /\ UNCHANGED <<stop, job, done, owner>>

Submit(c) ==
  /\ owner = "using"
  /\ pc[c] = "idle"
  /\ \E j \in fresh : Push(c, j, "notify")

\* A job of worker w submits another one.
JobSubmits(w) ==
  /\ pc[w] = "run"
  /\ \E j \in fresh : Push(w, j, "run_notify")

\* "submit job after shutdown": the exception leaves the job and do_work, which
\* ends the program.
JobSubmitThrows(w) ==
  /\ pc[w] = "run"
  /\ stop
  /\ fresh # {}
  /\ owner' = "terminated"
  /\ UNCHANGED <<stop, jobs, pc, job, done, fresh>>

\* Faulty variant: nobody is notified.
NotifyNobody(t, from, label) ==
  /\ pc[t] = from
  /\ pc' = [pc EXCEPT ![t] = label]
  /\ UNCHANGED <<stop, jobs, job, done, fresh, owner>>

\* start.notify_one()
Notify(t, from, label) ==
  /\ pc[t] = from
  /\ \/ Sleepers = {} /\ pc' = [pc EXCEPT ![t] = label]
     \/ \E w \in Sleepers : pc' = [pc EXCEPT ![t] = label, ![w] = "look"]
  /\ UNCHANGED <<stop, jobs, job, done, fresh, owner>>

-----------------------------------------------------------------------------
(* void do_work() *)

\* Faulty variant: a worker leaves as soon as it sees stop.
LookStops(w) ==
  /\ pc[w] = "look"
  /\ \/ stop
        /\ pc' = [pc EXCEPT ![w] = "exited"] /\ UNCHANGED <<jobs, job>>
     \/ /\ ~stop /\ jobs # <<>>
        /\ job' = [job EXCEPT ![w] = Head(jobs)]
        /\ jobs' = Tail(jobs)
        /\ pc' = [pc EXCEPT ![w] = "run"]
     \/ /\ ~stop /\ jobs = <<>>
        /\ pc' = [pc EXCEPT ![w] = "asleep"]
        /\ UNCHANGED <<jobs, job>>
  /\ UNCHANGED <<stop, done, fresh, owner>>

\* start.wait until there is a job or stop; a job that is left comes first.
Look(w) ==
  /\ pc[w] = "look"
  /\ \/ /\ jobs # <<>>
        /\ job' = [job EXCEPT ![w] = Head(jobs)]
        /\ jobs' = Tail(jobs)
        /\ pc' = [pc EXCEPT ![w] = "run"]
     \/ /\ jobs = <<>>
        /\ pc' = [pc EXCEPT ![w] = IF stop THEN "exited" ELSE "asleep"]
        /\ UNCHANGED <<jobs, job>>
  /\ UNCHANGED <<stop, done, fresh, owner>>

\* job(), which returns
Run(w) ==
  /\ pc[w] = "run"
  /\ done' = done \cup {job[w]}
  /\ job' = [job EXCEPT ![w] = NoJob]
  /\ pc' = [pc EXCEPT ![w] = "look"]
  /\ UNCHANGED <<stop, jobs, fresh, owner>>

SpuriousWakeup(w) ==
  /\ pc[w] = "asleep"
  /\ pc' = [pc EXCEPT ![w] = "look"]
  /\ UNCHANGED <<stop, jobs, job, done, fresh, owner>>

-----------------------------------------------------------------------------
(* ~threadpool() *)

Stop ==
  /\ owner = "using"
  /\ \A c \in Client : pc[c] = "idle"
  /\ stop' = TRUE
  /\ owner' = "notify_all"
  /\ UNCHANGED <<jobs, pc, job, done, fresh>>

\* Faulty variant: only one worker is woken.
NotifyAllOne ==
  /\ owner = "notify_all"
  /\ owner' = "join"
  /\ \/ Sleepers = {} /\ UNCHANGED pc
     \/ \E w \in Sleepers : pc' = [pc EXCEPT ![w] = "look"]
  /\ UNCHANGED <<stop, jobs, job, done, fresh>>

\* start.notify_all()
NotifyAll ==
  /\ owner = "notify_all"
  /\ owner' = "join"
  /\ pc' = [t \in DOMAIN pc |-> IF t \in Sleepers THEN "look" ELSE pc[t]]
  /\ UNCHANGED <<stop, jobs, job, done, fresh>>

\* worker.join() for every worker
Join ==
  /\ owner = "join"
  /\ \A w \in Worker : pc[w] = "exited"
  /\ owner' = "destroyed"
  /\ UNCHANGED <<stop, jobs, pc, job, done, fresh>>

-----------------------------------------------------------------------------
ClientStep(c) == Submit(c) \/ Notify(c, "notify", "idle")

WorkerStep(w) == Look(w) \/ Run(w) \/ Notify(w, "run_notify", "run")

Destructor == NotifyAll \/ Join

Next ==
  /\ owner # "terminated"
  /\ \/ \E c \in Client : ClientStep(c)
     \/ \E w \in Worker : WorkerStep(w) \/ JobSubmits(w) \/ JobSubmitThrows(w) \/ SpuriousWakeup(w)
     \/ Stop \/ Destructor

\* Jobs return, the workers that are awake keep running, a submit that has begun
\* ends, and so does the destructor.  Nobody has to submit or to destroy.
Fairness ==
  /\ \A c \in Client : WF_vars(Notify(c, "notify", "idle"))
  /\ \A w \in Worker : WF_vars(owner # "terminated" /\ WorkerStep(w))
  /\ WF_vars(Destructor)

Spec == Init /\ [][Next]_vars /\ Fairness

-----------------------------------------------------------------------------
Accepted == Job \ fresh

\* No wake-up is lost although notify_one is called outside the lock: while a
\* worker sleeps, each queued job has a worker or a notification on its way.
JobsCovered ==
  Sleepers # {} =>
    Len(jobs) <= Cardinality({t \in Worker \cup Client : pc[t] \in {"look", "notify", "run_notify"}})

\* Every job that submit_job accepted is in one place: queued once, run by one
\* worker, or done; and the pool is not destroyed before all of them are done.
JobsKept ==
  LET queued == {jobs[k] : k \in DOMAIN jobs}
      running == {job[w] : w \in Worker} \ {NoJob}
  IN  /\ queued \cup running \cup done = Accepted
      /\ Len(jobs) + Cardinality({w \in Worker : job[w] # NoJob}) + Cardinality(done)
           = Cardinality(Accepted)
      /\ owner = "destroyed" => done = Accepted

\* Every job that is accepted is run, also when the pool is destroyed meanwhile,
\* unless a job's exception ends the program.
EveryJobRuns == \A j \in Job : j \in Accepted ~> j \in done \/ owner = "terminated"

\* The destructor returns: "ensure everyone exits!"
DestructorReturns == stop ~> owner \in {"destroyed", "terminated"}
=============================================================================
