----------------------------- MODULE TicketLock -----------------------------
(***************************************************************************)
(* fairlock::mutex of concurrent_structures/mutex.cpp: each thread that    *)
(* calls lock draws a ticket and spins until it is its turn.  The counters *)
(* are ints that wrap, so a turn is told from a later one only while no    *)
(* more threads than an int has values hold tickets.                       *)
(***************************************************************************)
EXTENDS Naturals, FiniteSets

CONSTANTS
  Thread,
  Modulus             \* the number of values of an int

TicketAssumption ==
  /\ IsFiniteSet(Thread)
  /\ Modulus \in Nat \ {0}
  /\ Cardinality(Thread) <= Modulus

VARIABLES
  ticket, turn,
  pc, my_turn

vars == <<ticket, turn, pc, my_turn>>

Init ==
  /\ ticket = 0
  /\ turn = 0
  /\ pc = [t \in Thread |-> "idle"]
  /\ my_turn = [t \in Thread |-> 0]

\* Faulty variant: the ticket is read and incremented in two steps, so that a
\* second thread may read the same one: the counter does not move here.
DrawStale(t) ==
  /\ pc[t] = "idle"
  /\ my_turn' = [my_turn EXCEPT ![t] = ticket]
  /\ \/ ticket' = (ticket + 1) % Modulus
     \/ ticket' = ticket
  /\ pc' = [pc EXCEPT ![t] = "spin"]
  /\ UNCHANGED turn

\* my_turn = ticket.fetch_add(1)
Draw(t) ==
  /\ pc[t] = "idle"
  /\ my_turn' = [my_turn EXCEPT ![t] = ticket]
  /\ ticket' = (ticket + 1) % Modulus
  /\ pc' = [pc EXCEPT ![t] = "spin"]
  /\ UNCHANGED turn

\* Faulty variant: it is also let in one turn early.
EnterEarly(t) ==
  /\ pc[t] = "spin"
  /\ my_turn[t] \in {turn, (turn + 1) % Modulus}
  /\ pc' = [pc EXCEPT ![t] = "inside"]
  /\ UNCHANGED <<ticket, turn, my_turn>>

\* while (my_turn != turn.load()) {}
Enter(t) ==
  /\ pc[t] = "spin"
  /\ my_turn[t] = turn
  /\ pc' = [pc EXCEPT ![t] = "inside"]
  /\ UNCHANGED <<ticket, turn, my_turn>>

\* turn.fetch_add(1)
Unlock(t) ==
  /\ pc[t] = "inside"
  /\ turn' = (turn + 1) % Modulus
  /\ pc' = [pc EXCEPT ![t] = "idle"]
  /\ UNCHANGED <<ticket, my_turn>>

Next == \E t \in Thread : Draw(t) \/ Enter(t) \/ Unlock(t)

\* A spinning thread keeps looking and the holder unlocks; a thread may stop
\* calling lock.
Fairness == \A t \in Thread : WF_vars(Enter(t)) /\ WF_vars(Unlock(t))

Spec == Init /\ [][Next]_vars /\ Fairness

-----------------------------------------------------------------------------
\* Two threads never hold the lock at once, through every wrap of the counters.
MutualExclusion ==
  \A t, u \in Thread : pc[t] = "inside" /\ pc[u] = "inside" => t = u

\* "the oldest calling thread gets the access": the threads that have drawn hold
\* the tickets from turn to ticket, each one, so that they are served in order.
Ahead(t) == (my_turn[t] + Modulus - turn) % Modulus
Holding == {t \in Thread : pc[t] # "idle"}

ServedInOrder ==
  /\ {Ahead(t) : t \in Holding} = 0..(Cardinality(Holding) - 1)
  /\ \A t \in Thread : pc[t] = "inside" => Ahead(t) = 0

\* Every thread that has drawn a ticket gets the lock.
EveryoneServed == \A t \in Thread : pc[t] = "spin" ~> pc[t] = "inside"
=============================================================================
