---------------------------- MODULE ReaderWriter ----------------------------
(***************************************************************************)
(* reader_writer.cpp: the first reader locks writer_lock for all of them   *)
(* and the last one unlocks it.  That may be another thread than the one   *)
(* that locked it, for which std::mutex gives no guarantee; the model lets *)
(* the unlock take effect.                                                 *)
(***************************************************************************)
EXTENDS Naturals, FiniteSets

CONSTANTS
  Reader, Writer,
  Nobody

ThreadAssumption ==
  /\ IsFiniteSet(Reader) /\ IsFiniteSet(Writer)
  /\ Reader \cap Writer = {} /\ Nobody \notin Reader \cup Writer

VARIABLES
  read_lock, writer_lock,  \* the thread that locked each mutex, or Nobody
  READ_COUNT,
  pc

vars == <<read_lock, writer_lock, READ_COUNT, pc>>

Goto(t, label) == pc' = [pc EXCEPT ![t] = label]

Init ==
  /\ read_lock = Nobody
  /\ writer_lock = Nobody
  /\ READ_COUNT = 0
  /\ pc = [t \in Reader \cup Writer |-> "idle"]

-----------------------------------------------------------------------------
(* void reader() *)

\* Faulty variant: only the very first reader locks out the writers, the
\* others do not wait for it.
ReaderEnterAhead(r) ==
  /\ pc[r] = "idle"
  /\ READ_COUNT' = READ_COUNT + 1
  /\ IF READ_COUNT = 0
     THEN read_lock' = r /\ Goto(r, "first")
     ELSE UNCHANGED read_lock /\ Goto(r, "reading")
  /\ UNCHANGED writer_lock

\* The first of the readers keeps read_lock until it has writer_lock.
ReaderEnter(r) ==
  /\ pc[r] = "idle"
  /\ read_lock = Nobody
  /\ READ_COUNT' = READ_COUNT + 1
  /\ \/ READ_COUNT = 0 /\ read_lock' = r /\ Goto(r, "first")
     \/ READ_COUNT # 0 /\ UNCHANGED read_lock /\ Goto(r, "reading")
  /\ UNCHANGED writer_lock

ReaderLocksWriters(r) ==
  /\ pc[r] = "first"
  /\ writer_lock = Nobody
  /\ writer_lock' = r
  /\ read_lock' = Nobody
  /\ Goto(r, "reading")
  /\ UNCHANGED READ_COUNT

\* Faulty variant: the last reader does not unlock writer_lock.
ReaderLeaveLocked(r) ==
  /\ pc[r] = "reading"
  /\ read_lock = Nobody
  /\ READ_COUNT' = READ_COUNT - 1
  /\ Goto(r, "idle")
  /\ UNCHANGED <<read_lock, writer_lock>>

ReaderLeave(r) ==
  /\ pc[r] = "reading"
  /\ read_lock = Nobody
  /\ READ_COUNT' = READ_COUNT - 1
  /\ \/ READ_COUNT = 1 /\ writer_lock' = Nobody
     \/ READ_COUNT # 1 /\ UNCHANGED writer_lock
  /\ Goto(r, "idle")
  /\ UNCHANGED read_lock

-----------------------------------------------------------------------------
(* void writer() *)

WriterEnter(w) ==
  /\ pc[w] = "idle"
  /\ writer_lock = Nobody
  /\ writer_lock' = w
  /\ Goto(w, "writing")
  /\ UNCHANGED <<read_lock, READ_COUNT>>

WriterLeave(w) ==
  /\ pc[w] = "writing"
  /\ writer_lock' = Nobody
  /\ Goto(w, "idle")
  /\ UNCHANGED <<read_lock, READ_COUNT>>

-----------------------------------------------------------------------------
Next ==
  \/ \E r \in Reader : ReaderEnter(r) \/ ReaderLocksWriters(r) \/ ReaderLeave(r)
  \/ \E w \in Writer : WriterEnter(w) \/ WriterLeave(w)

\* Readers and writers come out; none has to come in.
Fairness ==
  /\ \A r \in Reader : WF_vars(ReaderLocksWriters(r)) /\ WF_vars(ReaderLeave(r))
  /\ \A w \in Writer : WF_vars(WriterLeave(w))

Spec == Init /\ [][Next]_vars /\ Fairness

-----------------------------------------------------------------------------
\* A writer is alone: no reader reads and no other writer writes.
Exclusion ==
  \A w \in Writer : pc[w] = "writing" =>
    \A t \in Reader \cup Writer : t # w => pc[t] \notin {"reading", "writing"}

\* READ_COUNT counts the readers that hold the writers off, and while it is not
\* zero, but for the first reader on its way in, a reader has locked them out.
ReadersCounted ==
  /\ READ_COUNT = Cardinality({r \in Reader : pc[r] # "idle"})
  /\ (\E r \in Reader : pc[r] = "reading") => writer_lock \in Reader
  /\ writer_lock \in Reader => \E r \in Reader : pc[r] = "reading"

\* A reader that has come first and waits for writer_lock is not left there by
\* threads that have all gone away.
DeadlockFree ==
  (\E r \in Reader : pc[r] = "first")
    ~> (\E t \in Reader \cup Writer : pc[t] \in {"reading", "writing"})

=============================================================================
