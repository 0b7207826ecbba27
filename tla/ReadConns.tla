----------------------------- MODULE ReadConns -----------------------------
(***************************************************************************)
(* The read connections of a collection and the sweep in stop() that       *)
(* closes them (store.py, class _ReadConn, _reading, _close_conns). Each   *)
(* thread that reads has a connection of its own, used only inside a       *)
(* guarded section; closing one that its owner is using would be a         *)
(* use-after-free in CPython's sqlite3.                                    *)
(*                                                                         *)
(* The sweep's store to `closing` goes through a store buffer, as it may   *)
(* on a weakly ordered CPU without the GIL: other threads see it at some   *)
(* later time, at the latest when the sweep leaves the `state` lock.       *)
(***************************************************************************)
EXTENDS Integers, FiniteSets

CONSTANT Threads   \* threads that read this collection

VARIABLES
  stopped,   \* Collection._closed
  registry,  \* threads whose connection is in _read_conns
  opc,       \* per thread: where the owner is
  conn,      \* per thread: the SQLite handle, none, open or closed
  shut,      \* per thread: _ReadConn.closed
  closing,   \* per thread: _ReadConn.closing, as other threads see it
  lock,      \* per thread: who holds _ReadConn.lock
  spc,       \* where the sweep is
  todo,      \* connections the sweep has not reached
  cur,       \* the one it is at, or the empty set
  buffered,  \* threads whose `closing` is set in the store buffer only
  late       \* READ_CLOSE_DEADLINE has passed

owner == <<opc, registry>>
guard == <<conn, shut, closing, lock>>
sweep == <<spc, todo, cur, buffered>>
vars  == <<stopped, owner, guard, sweep, late>>

OwnerPCs == {"idle", "opened", "enter", "inside", "left", "handoff", "closes"}
SweepPCs == {"idle", "swap", "next", "try", "interrupt", "store", "leave", "retry",
             "closes", "done"}

Init ==
  /\ stopped = FALSE /\ registry = {}
  /\ opc = [t \in Threads |-> "idle"]
  /\ conn = [t \in Threads |-> "none"]
  /\ shut = [t \in Threads |-> FALSE]
  /\ closing = [t \in Threads |-> FALSE]
  /\ lock = [t \in Threads |-> "free"]
  /\ spc = "idle" /\ todo = {} /\ cur = {} /\ buffered = {}
  /\ late = FALSE

\* The type invariant: the sweep is at one connection at a time.
TypeOK ==
  /\ stopped \in BOOLEAN /\ registry \subseteq Threads
  /\ opc \in [Threads -> OwnerPCs]
  /\ conn \in [Threads -> {"none", "open", "closed"}]
  /\ shut \in [Threads -> BOOLEAN] /\ closing \in [Threads -> BOOLEAN]
  /\ lock \in [Threads -> {"free", "owner", "sweep"}]
  /\ spc \in SweepPCs /\ todo \subseteq Threads
  /\ cur = {} \/ \E t \in Threads : cur = {t}
  /\ buffered \subseteq Threads /\ late \in BOOLEAN

Moves(t, s) == opc' = [opc EXCEPT ![t] = s]
Lock(t, who) == lock' = [lock EXCEPT ![t] = who]

\* Whoever holds the guard closes the handle, unless it is closed already.
CloseHandle(t) ==
  /\ shut' = [shut EXCEPT ![t] = TRUE]
  /\ conn' = [conn EXCEPT ![t] = "closed"]

-----------------------------------------------------------------------------
\* _reading: this thread's connection, or a new handle not yet registered.
Reading(t) ==
  /\ opc[t] = "idle"
  /\ ~stopped
  /\ IF conn[t] = "none"
     THEN Moves(t, "opened") /\ conn' = [conn EXCEPT ![t] = "open"]
     ELSE Moves(t, "enter") /\ UNCHANGED conn
  /\ UNCHANGED <<stopped, registry, shut, closing, lock, sweep, late>>

RegisterUnchecked(t) ==  \* fault: registers without a second look at _closed
  /\ opc[t] = "opened"
  /\ Moves(t, "enter") /\ registry' = registry \cup {t}
  /\ UNCHANGED <<stopped, guard, sweep, late>>

\* ... which goes in the registry under db_lock unless stop() came first.
Register(t) ==
  /\ opc[t] = "opened"
  /\ IF stopped
     THEN /\ conn' = [conn EXCEPT ![t] = "none"]
          /\ Moves(t, "idle") /\ UNCHANGED registry
     ELSE Moves(t, "enter") /\ registry' = registry \cup {t} /\ UNCHANGED conn
  /\ UNCHANGED <<stopped, shut, closing, lock, sweep, late>>

EnterUnchecked(t) ==  \* fault: does not look whether the sweep closed it
  /\ opc[t] = "enter"
  /\ lock[t] = "free"
  /\ Lock(t, "owner") /\ Moves(t, "inside")
  /\ UNCHANGED <<stopped, registry, conn, shut, closing, sweep, late>>

\* __enter__: a closed connection raises and gives the guard back.
Enter(t) ==
  /\ opc[t] = "enter"
  /\ lock[t] = "free"
  /\ IF shut[t] THEN Moves(t, "idle") /\ UNCHANGED lock
                ELSE Moves(t, "inside") /\ Lock(t, "owner")
  /\ UNCHANGED <<stopped, registry, conn, shut, closing, sweep, late>>

\* __exit__: release the guard, ...
Leave(t) ==
  /\ opc[t] = "inside"
  /\ Lock(t, "free")
  /\ Moves(t, "left")
  /\ UNCHANGED <<stopped, registry, conn, shut, closing, sweep, late>>

\* ... then load `closing` inside `state`, ...
LoadClosing(t) ==
  /\ opc[t] = "left"
  /\ Moves(t, IF closing[t] THEN "handoff" ELSE "idle")
  /\ UNCHANGED <<stopped, registry, guard, sweep, late>>

\* ... and if the sweep gave up, take the guard without waiting and close.
HandOff(t) ==
  /\ opc[t] = "handoff"
  /\ IF lock[t] = "free" THEN Lock(t, "owner") /\ Moves(t, "closes")
                         ELSE Moves(t, "idle") /\ UNCHANGED lock
  /\ UNCHANGED <<stopped, registry, conn, shut, closing, sweep, late>>

OwnerCloses(t) ==
  /\ opc[t] = "closes"
  /\ CloseHandle(t)
  /\ Lock(t, "free")
  /\ Moves(t, "idle")
  /\ UNCHANGED <<stopped, registry, closing, sweep, late>>

-----------------------------------------------------------------------------
\* stop() sets _closed, ...
SetClosed ==
  /\ spc = "idle"
  /\ stopped' = TRUE
  /\ spc' = "swap"
  /\ UNCHANGED <<owner, guard, todo, cur, buffered, late>>

\* ... and _close_conns takes the registry over under db_lock.
SwapRegistry ==
  /\ spc = "swap"
  /\ todo' = registry
  /\ registry' = {}
  /\ spc' = "next"
  /\ UNCHANGED <<stopped, opc, guard, cur, buffered, late>>

NextConn ==
  /\ spc = "next"
  /\ IF todo = {} THEN spc' = "done" /\ UNCHANGED <<todo, cur>>
     ELSE \E t \in todo : cur' = {t} /\ todo' = todo \ {t} /\ spc' = "try"
  /\ UNCHANGED <<stopped, owner, guard, buffered, late>>

DeadlinePasses ==
  /\ spc \notin {"idle", "done"}
  /\ ~late
  /\ late' = TRUE
  /\ UNCHANGED <<stopped, owner, guard, sweep>>

TryAcquireForever(t) ==  \* fault: no deadline
  /\ spc = "try" /\ cur = {t}
  /\ IF lock[t] = "free" THEN Lock(t, "sweep") /\ spc' = "closes"
     ELSE UNCHANGED lock /\ spc' = "interrupt"
  /\ UNCHANGED <<stopped, owner, conn, shut, closing, todo, cur, buffered, late>>

\* close_when_idle: the guard is free, or a timed acquire fails.
TryAcquire(t) ==
  /\ spc = "try" /\ cur = {t}
  /\ IF lock[t] = "free" THEN Lock(t, "sweep") /\ spc' = "closes"
     ELSE UNCHANGED lock /\ spc' = IF late THEN "store" ELSE "interrupt"
  /\ UNCHANGED <<stopped, owner, conn, shut, closing, todo, cur, buffered, late>>

Interrupt(t) ==
  /\ spc = "interrupt" /\ cur = {t}
  /\ spc' = "try"
  /\ UNCHANGED <<stopped, owner, guard, todo, cur, buffered, late>>

\* Past the deadline: store `closing` inside `state`, ...
StoreClosing(t) ==
  /\ spc = "store" /\ cur = {t}
  /\ buffered' = buffered \cup {t}
  /\ spc' = "leave"
  /\ UNCHANGED <<stopped, owner, guard, todo, cur, late>>

\* ... a store that becomes visible to the owner some time later, ...
Drain(t) ==
  /\ t \in buffered
  /\ buffered' = buffered \ {t}
  /\ closing' = [closing EXCEPT ![t] = TRUE]
  /\ UNCHANGED <<stopped, owner, conn, shut, lock, spc, todo, cur, late>>

LeaveUnordered ==  \* fault: no `state` lock orders the store before what follows
  /\ spc = "leave"
  /\ spc' = "retry"
  /\ UNCHANGED <<stopped, owner, guard, todo, cur, buffered, late>>

\* ... and before `state` is released, ...
LeaveState ==
  /\ spc = "leave"
  /\ buffered = {}
  /\ spc' = "retry"
  /\ UNCHANGED <<stopped, owner, guard, todo, cur, buffered, late>>

\* ... and try the guard once more, without waiting.
Retry(t) ==
  /\ spc = "retry" /\ cur = {t}
  /\ IF lock[t] = "free" THEN Lock(t, "sweep") /\ spc' = "closes"
                         ELSE UNCHANGED lock /\ spc' = "next"
  /\ UNCHANGED <<stopped, owner, conn, shut, closing, todo, cur, buffered, late>>

SweepCloses(t) ==
  /\ spc = "closes" /\ cur = {t}
  /\ CloseHandle(t)
  /\ Lock(t, "free")
  /\ spc' = "next"
  /\ UNCHANGED <<stopped, owner, closing, todo, cur, buffered, late>>

-----------------------------------------------------------------------------
OwnerStep(t) == \/ Register(t) \/ Enter(t) \/ LoadClosing(t) \/ HandOff(t)
                \/ OwnerCloses(t)

SweepStep == \/ SwapRegistry \/ NextConn \/ LeaveState
             \/ \E t \in Threads : \/ TryAcquire(t) \/ Interrupt(t) \/ StoreClosing(t)
                                   \/ Drain(t) \/ Retry(t) \/ SweepCloses(t)

\* After stop() a thread that is outside every read has nothing more to do.
Rest == /\ spc = "done" /\ \A t \in Threads : opc[t] = "idle"
        /\ UNCHANGED vars

Next ==
  \/ \E t \in Threads : Reading(t) \/ Leave(t) \/ OwnerStep(t)
  \/ SetClosed \/ SweepStep \/ DeadlinePasses \/ Rest

Spec == Init /\ [][Next]_vars

\* Threads are scheduled and the clock runs; a read may go on for ever.
FairSpec ==
  /\ Spec
  /\ WF_vars(SweepStep) /\ WF_vars(DeadlinePasses)
  /\ \A t \in Threads : WF_vars(OwnerStep(t))

-----------------------------------------------------------------------------
\* The sweep is at connection t, in one of the given places.
SweepAt(t, places) == cur = {t} /\ spc \in places

\* What the sweep has taken over at each of its steps.
SweepInv ==
  /\ stopped <=> spc # "idle"
  /\ spc \notin {"idle", "swap"} => registry = {}
  /\ spc \in {"idle", "swap"} => todo = {} /\ cur = {} /\ buffered = {}
  /\ spc \in {"try", "interrupt", "store", "leave", "retry", "closes"} => cur # {}
  /\ cur \cap todo = {}
  /\ spc = "done" => todo = {}

\* Who may close connection t: its guard has one holder, and until the sweep gives
\* up on it its owner leaves it open.
ConnInv(t) ==
  /\ lock[t] = "owner" <=> opc[t] \in {"inside", "closes"}
  /\ lock[t] = "sweep" <=> SweepAt(t, {"closes"})
  /\ shut[t] <=> conn[t] = "closed"
  /\ opc[t] = "inside" => conn[t] = "open"
  /\ opc[t] = "opened" => conn[t] = "open" /\ t \notin registry \cup todo \cup cur
  /\ opc[t] \in {"enter", "left", "handoff", "closes"} => conn[t] # "none"
  /\ opc[t] \in {"handoff", "closes"} => closing[t]
  /\ t \in registry \cup todo \/ SweepAt(t, {"try", "interrupt", "store"}) =>
       conn[t] = "open" /\ ~closing[t] /\ t \notin buffered /\ opc[t] # "opened"
  /\ closing[t] \/ t \in buffered => opc[t] # "opened" /\ conn[t] # "none"
  /\ SweepAt(t, {"leave"}) => closing[t] \/ t \in buffered
  /\ SweepAt(t, {"retry"}) => closing[t]
  /\ conn[t] = "open" /\ spc \in {"idle", "swap"} =>
       t \in registry \/ opc[t] = "opened"
  /\ conn[t] = "open" /\ spc \notin {"idle", "swap"} /\ t \notin todo
       /\ ~SweepAt(t, {"try", "interrupt", "store", "leave", "retry", "closes"}) =>
     \/ opc[t] = "opened"
     \/ closing[t] /\ opc[t] \in {"inside", "left", "handoff", "closes"}

\* Who may close a connection, at every point of the hand-off: the guard has one
\* holder; until the sweep gives up on a connection its owner leaves it open, and
\* after that either it is closed or its owner will find `closing` set.
HandOffInv == SweepInv /\ \A t \in Threads : ConnInv(t)

\* No handle is closed while its owner is inside a guarded section: the
\* use-after-free that _ReadConn exists to prevent.
ReadsOnOpen == \A t \in Threads : opc[t] = "inside" => conn[t] = "open"

\* interrupt() reaches an open handle only: nothing else closes it while the
\* sweep still interrupts ("so this cannot fail").
InterruptsOpen == \A t \in Threads : spc = "interrupt" /\ cur = {t} => conn[t] = "open"

\* Nobody uses a connection that is closed, neither its owner nor the sweep.
UsesOpen == ReadsOnOpen /\ InterruptsOpen

\* The hand-off loses no handle: once the sweep has ended, a thread that is
\* outside every read has no open connection, whichever side had to close it.
NoLeak == spc = "done" => \A t \in Threads : opc[t] = "idle" => conn[t] # "open"

\* stop() is not held up for ever by a read that does not end.
SweepReturns == spc = "swap" ~> spc = "done"

\* If reads end, if only because they are interrupted, every handle is closed in
\* the end, also one that was being opened while stop() ran.
AllClosed ==
  (\A t \in Threads : WF_vars(Leave(t)))
    => (stopped ~> \A t \in Threads : conn[t] # "open")
=============================================================================
