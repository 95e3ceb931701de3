-------------------------- MODULE PetersonTweaked --------------------------
(***************************************************************************)
(* "my approach" of peterson.cpp: enter_region waits before it takes the   *)
(* turn, and leave_region hands the turn to the other process.  As in      *)
(* Peterson, one step is one read or write of a shared variable.           *)
(***************************************************************************)
EXTENDS Naturals

VARIABLES
  turn, interested,
  pc,
  overtaken           \* auxiliary: how often the other process has entered
                      \* since this one has wanted to

vars == <<turn, interested, pc, overtaken>>

\* Bound: overtaken is not counted beyond this.
MaxOvertaken == 2

Process == {0, 1}
Other(process) == 1 - process

Goto(process, label) == pc' = [pc EXCEPT ![process] = label]

Init ==
  /\ turn = 0
  /\ interested = [p \in Process |-> FALSE]
  /\ pc = [p \in Process |-> "outside"]
  /\ overtaken = [p \in Process |-> 0]

-----------------------------------------------------------------------------
(* void enter_region(int process) *)

SetInterested(p) ==
  /\ pc[p] = "outside"
  /\ interested' = [interested EXCEPT ![p] = TRUE]
  /\ overtaken' = [overtaken EXCEPT ![p] = 0]
  /\ Goto(p, "test_interested")
  /\ UNCHANGED turn

TestInterested(p) ==
  /\ pc[p] = "test_interested"
  /\ \/ interested[Other(p)] /\ Goto(p, "test_turn")
     \/ ~interested[Other(p)] /\ Goto(p, "set_turn")
  /\ UNCHANGED <<turn, interested, overtaken>>

TestTurn(p) ==
  /\ pc[p] = "test_turn"
  /\ \/ turn = Other(p) /\ Goto(p, "test_interested")
     \/ turn # Other(p) /\ Goto(p, "set_turn")
  /\ UNCHANGED <<turn, interested, overtaken>>

Waiting(p) == pc[p] \in {"test_interested", "test_turn"}

\* "now its my turn": the other process, if it waits, is overtaken.
SetTurn(p) ==
  /\ pc[p] = "set_turn"
  /\ turn' = p
  /\ Goto(p, "inside")
  /\ overtaken' = [overtaken EXCEPT ![Other(p)] =
       IF Waiting(Other(p)) /\ @ < MaxOvertaken THEN @ + 1 ELSE @]
  /\ UNCHANGED interested

-----------------------------------------------------------------------------
(* void leave_region(int process) *)

ClearInterested(p) ==
  /\ pc[p] = "inside"
  /\ interested' = [interested EXCEPT ![p] = FALSE]
  /\ Goto(p, "leave_turn")
  /\ UNCHANGED <<turn, overtaken>>

\* Faulty variant: the turn is kept.
KeepTurn(p) ==
  /\ pc[p] = "leave_turn"
  /\ Goto(p, "outside")
  /\ UNCHANGED <<turn, interested, overtaken>>

\* "to ensure bounded wait, atleast give the other process a chance"
GiveTurn(p) ==
  /\ pc[p] = "leave_turn"
  /\ turn' = Other(p)
  /\ Goto(p, "outside")
  /\ UNCHANGED <<interested, overtaken>>

-----------------------------------------------------------------------------
Enter(p) == TestInterested(p) \/ TestTurn(p) \/ SetTurn(p)

Leave(p) == ClearInterested(p) \/ GiveTurn(p)

Next == \E p \in Process : SetInterested(p) \/ Enter(p) \/ Leave(p)

\* A process that wants to enter keeps running, one inside comes out; a process
\* outside may stay there.
Fairness == \A p \in Process : WF_vars(Enter(p)) /\ WF_vars(Leave(p))

Spec == Init /\ [][Next]_vars /\ Fairness

-----------------------------------------------------------------------------
\* "the correctness is preserved": two processes are never inside together.
MutualExclusion == ~(pc[0] = "inside" /\ pc[1] = "inside")

\* "to ensure bounded wait": a process that waits is overtaken at most once.
BoundedWait == \A p \in Process : Waiting(p) => overtaken[p] <= 1

\* A process that wants to enter does, because leave_region gives it the turn.
Progress == \A p \in Process : interested[p] ~> pc[p] = "inside"
=============================================================================
