------------------------------- MODULE RWLock -------------------------------
(***************************************************************************)
(* The asyncio readers-writer lock every search, ingest and delete of a    *)
(* collection takes (store.py, class _RWLock): many readers or one writer, *)
(* and a queued writer holds new readers back.                             *)
(*                                                                         *)
(* A task runs until it suspends, and inside the lock it suspends only in  *)
(* Condition.wait(), which gives the condition's own lock back. So that    *)
(* inner lock is always free when a task is scheduled, and each section    *)
(* between two suspensions is one action.                                  *)
(***************************************************************************)
EXTENDS Integers, FiniteSets

CONSTANTS Readers, Writers   \* tasks that call read(), tasks that call write()

ASSUME TasksAssumption ==
  IsFiniteSet(Readers) /\ IsFiniteSet(Writers) /\ Readers \cap Writers = {}

Tasks == Readers \cup Writers

VARIABLES
  readers,   \* _readers
  writing,   \* _writing
  queued,    \* _writers_waiting
  pc,        \* per task: out, waiting on the condition, or in its section
  woken      \* waiting tasks that notify_all has released and that run soon

vars == <<readers, writing, queued, pc, woken>>

Init ==
  /\ readers = 0 /\ writing = FALSE /\ queued = 0
  /\ pc = [t \in Tasks |-> "out"]
  /\ woken = {}

\* The type invariant: counters never go negative, and only waiting tasks are
\* woken.
TypeOK ==
  /\ readers \in Nat /\ writing \in BOOLEAN /\ queued \in Nat
  /\ pc \in [Tasks -> {"out", "waiting", "in"}]
  /\ woken \subseteq {t \in Tasks : pc[t] = "waiting"}

InState(S, s) == {t \in S : pc[t] = s}
Waiting == InState(Tasks, "waiting")

ReadBlocked == writing \/ queued > 0
WriteBlockedByWriterOnly == writing  \* fault: readers inside do not matter
WriteBlocked == writing \/ readers > 0

Goes(t, s) == pc' = [pc EXCEPT ![t] = s]

-----------------------------------------------------------------------------
\* read(): a first look at the predicate, or a look after a wake-up.
ReadEnter(r) ==
  /\ pc[r] = "out"
  /\ ~ReadBlocked
  /\ readers' = readers + 1
  /\ Goes(r, "in")
  /\ UNCHANGED <<writing, queued, woken>>

ReadWait(r) ==
  /\ pc[r] = "out"
  /\ ReadBlocked
  /\ Goes(r, "waiting")
  /\ UNCHANGED <<readers, writing, queued, woken>>

ReadResume(r) ==
  /\ r \in woken
  /\ woken' = woken \ {r}
  /\ IF ReadBlocked THEN UNCHANGED <<readers, pc>>
                    ELSE readers' = readers + 1 /\ Goes(r, "in")
  /\ UNCHANGED <<writing, queued>>

ReadExitSilent(r) ==  \* fault: the last reader out wakes nobody
  /\ pc[r] = "in"
  /\ readers' = readers - 1
  /\ Goes(r, "out")
  /\ UNCHANGED <<writing, queued, woken>>

\* The section ends, or its task is cancelled inside it: the last reader out
\* wakes everyone.
ReadExit(r) ==
  /\ pc[r] = "in"
  /\ readers' = readers - 1
  /\ Goes(r, "out")
  /\ woken' = IF readers' = 0 THEN Waiting ELSE woken
  /\ UNCHANGED <<writing, queued>>

\* A task cancelled while it waits to read leaves nothing behind.
ReadCancel(r) ==
  /\ pc[r] = "waiting"
  /\ Goes(r, "out")
  /\ woken' = woken \ {r}
  /\ UNCHANGED <<readers, writing, queued>>

-----------------------------------------------------------------------------
\* write() with no wait: the count of queued writers goes up and down again,
\* and its finally clause notifies even so.
WriteEnter(w) ==
  /\ pc[w] = "out"
  /\ ~WriteBlocked
  /\ writing' = TRUE
  /\ Goes(w, "in")
  /\ woken' = Waiting
  /\ UNCHANGED <<readers, queued>>

WriteWait(w) ==
  /\ pc[w] = "out"
  /\ WriteBlocked
  /\ queued' = queued + 1
  /\ Goes(w, "waiting")
  /\ UNCHANGED <<readers, writing, woken>>

WriteResume(w) ==
  /\ w \in woken
  /\ IF WriteBlocked
     THEN woken' = woken \ {w} /\ UNCHANGED <<writing, queued, pc>>
     ELSE /\ queued' = queued - 1
          /\ writing' = TRUE
          /\ Goes(w, "in")
          /\ woken' = Waiting \ {w}
  /\ UNCHANGED readers

\* The section ends, or its task is cancelled inside it.
WriteExit(w) ==
  /\ pc[w] = "in"
  /\ writing' = FALSE
  /\ Goes(w, "out")
  /\ woken' = Waiting
  /\ UNCHANGED <<readers, queued>>

WriteCancelSilent(w) ==  \* fault: a cancelled writer wakes nobody
  /\ pc[w] = "waiting"
  /\ queued' = queued - 1
  /\ Goes(w, "out")
  /\ woken' = woken \ {w}
  /\ UNCHANGED <<readers, writing>>

\* A writer cancelled while it waits wakes the readers its presence blocked.
WriteCancel(w) ==
  /\ pc[w] = "waiting"
  /\ queued' = queued - 1
  /\ Goes(w, "out")
  /\ woken' = Waiting \ {w}
  /\ UNCHANGED <<readers, writing>>

Next ==
  \/ \E r \in Readers : \/ ReadEnter(r) \/ ReadWait(r) \/ ReadResume(r)
                        \/ ReadExit(r) \/ ReadCancel(r)
  \/ \E w \in Writers : \/ WriteEnter(w) \/ WriteWait(w) \/ WriteResume(w)
                        \/ WriteExit(w) \/ WriteCancel(w)

Spec == Init /\ [][Next]_vars

\* The loop runs every woken task, and every section ends. Nothing obliges a
\* task to come back, or to be cancelled.
FairSpec ==
  /\ Spec
  /\ \A r \in Readers : WF_vars(ReadResume(r)) /\ WF_vars(ReadExit(r))
  /\ \A w \in Writers : WF_vars(WriteResume(w)) /\ WF_vars(WriteExit(w))

-----------------------------------------------------------------------------
\* The lock's promise: a writer in its section is alone in it.
Exclusion ==
  \A w \in InState(Writers, "in") : InState(Tasks, "in") = {w}

\* No lost wake-up: a waiting task that no notify_all has released has someone
\* to wait for, whose own exit or cancellation will notify it.
NoLostWakeup ==
  /\ \A r \in InState(Readers, "waiting") \ woken :
       InState(Writers, "in") # {} \/ InState(Writers, "waiting") # {}
  /\ \A w \in InState(Writers, "waiting") \ woken : InState(Tasks, "in") # {}

\* A queued writer is not starved by readers that keep coming: unless other
\* writers overtake it again and again, it gets the lock or is cancelled.
WriterNotStarved ==
  \A w \in Writers :
    <>[](InState(Writers \ {w}, "out") = Writers \ {w}) =>
      (pc[w] = "waiting" ~> pc[w] # "waiting")

\* Readers are not forgotten: if from some time on no writer is in or queued, a
\* waiting reader gets in, also when the last writer in the queue was cancelled.
ReaderNotForgotten ==
  <>[](InState(Writers, "out") = Writers) =>
    \A r \in Readers : pc[r] = "waiting" ~> pc[r] # "waiting"

\* Whoever waits for the lock gets it, or is cancelled.
LockIsGranted == WriterNotStarved /\ ReaderNotForgotten
=============================================================================
