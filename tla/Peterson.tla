------------------------------ MODULE Peterson ------------------------------
(***************************************************************************)
(* "peterson's solution" of peterson.cpp: enter and exit.  As the file     *)
(* says, it assumes sequentially consistent, atomic reads and writes, so   *)
(* one step is one read or write of a shared variable.                     *)
(***************************************************************************)
EXTENDS Naturals

VARIABLES
  turn, interested,
  pc,
  overtaken           \* auxiliary: how often the other process has entered
                      \* since this one has given it the turn

vars == <<turn, interested, pc, overtaken>>

\* Bound: overtaken is not counted beyond this.
MaxOvertaken == 2

Process == {0, 1}
Other(process) == 1 - process

Goto(process, label) == pc' = [pc EXCEPT ![process] = label]

Init ==
  /\ turn = 0
  /\ interested = [p \in Process |-> FALSE]
  /\ pc = [p \in Process |-> "outside"]
  /\ overtaken = [p \in Process |-> 0]

SetInterested(p) ==
  /\ pc[p] = "outside"
  /\ interested' = [interested EXCEPT ![p] = TRUE]
  /\ Goto(p, "set_turn")
  /\ UNCHANGED <<turn, overtaken>>

\* Faulty variant: the process keeps the turn for itself.
SetTurnSelf(p) ==
  /\ pc[p] = "set_turn"
  /\ turn' = p
  /\ overtaken' = [overtaken EXCEPT ![p] = 0]
  /\ Goto(p, "test_interested")
  /\ UNCHANGED interested

\* Faulty variant: the turn stays where it is.
SetTurnOmitted(p) ==
  /\ pc[p] = "set_turn"
  /\ overtaken' = [overtaken EXCEPT ![p] = 0]
  /\ Goto(p, "test_interested")
  /\ UNCHANGED <<turn, interested>>

\* "politely give other process a chance"
SetTurn(p) ==
  /\ pc[p] = "set_turn"
  /\ turn' = Other(p)
  /\ overtaken' = [overtaken EXCEPT ![p] = 0]
  /\ Goto(p, "test_interested")
  /\ UNCHANGED interested

Waiting(p) == pc[p] \in {"test_interested", "test_turn"}

\* The loop is left: the other process, if it waits, is overtaken.
EnterRegion(p) ==
  /\ Goto(p, "inside")
  /\ overtaken' = [overtaken EXCEPT ![Other(p)] =
       IF Waiting(Other(p)) /\ @ < MaxOvertaken THEN @ + 1 ELSE @]

\* while (interested[other] == true && turn == other);
TestInterested(p) ==
  /\ pc[p] = "test_interested"
  /\ \/ interested[Other(p)] /\ Goto(p, "test_turn") /\ UNCHANGED overtaken
     \/ ~interested[Other(p)] /\ EnterRegion(p)
  /\ UNCHANGED <<turn, interested>>

TestTurn(p) ==
  /\ pc[p] = "test_turn"
  /\ \/ turn = Other(p) /\ Goto(p, "test_interested") /\ UNCHANGED overtaken
     \/ turn # Other(p) /\ EnterRegion(p)
  /\ UNCHANGED <<turn, interested>>

Exit(p) ==
  /\ pc[p] = "inside"
  /\ interested' = [interested EXCEPT ![p] = FALSE]
  /\ Goto(p, "outside")
  /\ UNCHANGED <<turn, overtaken>>

Enter(p) == SetTurn(p) \/ TestInterested(p) \/ TestTurn(p)

Next == \E p \in Process : SetInterested(p) \/ Enter(p) \/ Exit(p)

\* A process that wants to enter keeps running, one inside comes out; a process
\* outside may stay there.
Fairness == \A p \in Process : WF_vars(Enter(p)) /\ WF_vars(Exit(p))

Spec == Init /\ [][Next]_vars /\ Fairness

-----------------------------------------------------------------------------
\* "peterson's solution gives mutual exclusion".
MutualExclusion == ~(pc[0] = "inside" /\ pc[1] = "inside")

\* "bounded wait": a process that has given away the turn is overtaken at most once.
BoundedWait == \A p \in Process : Waiting(p) => overtaken[p] <= 1

\* "progress": a process that wants to enter does.
Progress == \A p \in Process : interested[p] ~> pc[p] = "inside"
=============================================================================
