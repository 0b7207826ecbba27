-------------------------- MODULE ReadConnsProofs --------------------------
(***************************************************************************)
(* ReadConns for any set of threads: a handle is never closed under its    *)
(* owner nor interrupted once closed, and the sweep leaks none.            *)
(***************************************************************************)
EXTENDS ReadConns, TLAPS

\* Every step keeps the types.
LEMMA NextTypes == TypeOK /\ [Next]_vars => TypeOK'
<1> SUFFICES ASSUME TypeOK, [Next]_vars  PROVE TypeOK'
  OBVIOUS
<1> USE DEF TypeOK, owner, guard, sweep, OwnerPCs, SweepPCs, Moves, Lock, CloseHandle
<1>1. ASSUME NEW t \in Threads, Reading(t) \/ Leave(t) \/ OwnerStep(t)
      PROVE  TypeOK'
  BY <1>1, ZenonT(40) DEF Reading, Leave, OwnerStep, Register, Enter, LoadClosing, HandOff,
              OwnerCloses
<1>2. CASE SetClosed \/ DeadlinePasses
  BY <1>2 DEF SetClosed, DeadlinePasses
<1>3. CASE SwapRegistry \/ NextConn \/ LeaveState
  BY <1>3 DEF SwapRegistry, NextConn, LeaveState
<1>4. ASSUME NEW t \in Threads, \/ TryAcquire(t) \/ Interrupt(t) \/ StoreClosing(t)
                                \/ Drain(t) \/ Retry(t) \/ SweepCloses(t)
      PROVE  TypeOK'
  BY <1>4 DEF TryAcquire, Interrupt, StoreClosing, Drain, Retry, SweepCloses
<1>5. CASE UNCHANGED vars
  BY <1>5 DEF vars
<1>6. QED
  BY <1>1, <1>2, <1>3, <1>4, <1>5 DEF Next, SweepStep, Rest

\* What an owner thread does to its own connection and to the others.
LEMMA OwnerHandsOff ==
  ASSUME TypeOK, HandOffInv, NEW t \in Threads, Reading(t) \/ Leave(t) \/ OwnerStep(t)
  PROVE  HandOffInv'
<1> USE DEF TypeOK, owner, guard, sweep, Moves, Lock, CloseHandle
<1>1. SweepInv'
  BY DEF HandOffInv, SweepInv, Reading, Leave, OwnerStep, Register, Enter, LoadClosing,
         HandOff, OwnerCloses
<1>2. ASSUME NEW u \in Threads  PROVE ConnInv(u)'
  <2> USE DEF HandOffInv, SweepInv, ConnInv, SweepAt
  <2>1. CASE Reading(t)
    BY <2>1 DEF Reading
  <2>2. CASE Leave(t)
    BY <2>2 DEF Leave
  <2>3. CASE Register(t)
    BY <2>3 DEF Register
  <2>4. CASE Enter(t)
    BY <2>4 DEF Enter
  <2>5. CASE LoadClosing(t)
    BY <2>5 DEF LoadClosing
  <2>6. CASE HandOff(t)
    BY <2>6 DEF HandOff
  <2>7. CASE OwnerCloses(t)
    BY <2>7 DEF OwnerCloses
  <2>8. QED
    BY <2>1, <2>2, <2>3, <2>4, <2>5, <2>6, <2>7 DEF OwnerStep
<1>3. QED  BY <1>1, <1>2 DEF HandOffInv

\* What stop() and its sweep do.
LEMMA SweepHandsOff ==
  ASSUME TypeOK, HandOffInv, SetClosed \/ SweepStep \/ DeadlinePasses
  PROVE  HandOffInv'
<1> USE DEF TypeOK, owner, guard, sweep, Lock, CloseHandle, HandOffInv, SweepInv
<1>1. CASE SetClosed \/ DeadlinePasses
  BY <1>1 DEF SetClosed, DeadlinePasses, ConnInv, SweepAt
<1>2. CASE SwapRegistry
  BY <1>2 DEF SwapRegistry, ConnInv, SweepAt
<1>3. CASE NextConn
  <2>1. SweepInv'
    BY <1>3 DEF NextConn
  <2>2. ASSUME NEW u \in Threads  PROVE ConnInv(u)'
    BY <1>3 DEF NextConn, ConnInv, SweepAt
  <2>3. QED  BY <2>1, <2>2
<1>4. CASE LeaveState
  BY <1>4 DEF LeaveState, ConnInv, SweepAt
<1>5. ASSUME NEW t \in Threads, \/ TryAcquire(t) \/ Interrupt(t) \/ StoreClosing(t)
                                \/ Drain(t) \/ Retry(t) \/ SweepCloses(t)
      PROVE  HandOffInv'
  <2>1. SweepInv'
    BY <1>5 DEF TryAcquire, Interrupt, StoreClosing, Drain, Retry, SweepCloses
  <2>2. ASSUME NEW u \in Threads  PROVE ConnInv(u)'
    <3> USE DEF ConnInv, SweepAt
    <3>1. CASE TryAcquire(t)
      BY <3>1 DEF TryAcquire
    <3>2. CASE Interrupt(t)
      BY <3>2 DEF Interrupt
    <3>3. CASE StoreClosing(t)
      BY <3>3 DEF StoreClosing
    <3>4. CASE Drain(t)
      BY <3>4 DEF Drain
    <3>5. CASE Retry(t)
      BY <3>5 DEF Retry
    <3>6. CASE SweepCloses(t)
      BY <3>6 DEF SweepCloses
    <3>7. QED  BY <1>5, <3>1, <3>2, <3>3, <3>4, <3>5, <3>6
  <2>3. QED  BY <2>1, <2>2
<1>6. QED
  BY <1>1, <1>2, <1>3, <1>4, <1>5 DEF SweepStep

\* The inductive invariant of the hand-off.
THEOREM HandOffIsSafe == Spec => [](TypeOK /\ HandOffInv)
<1>1. Init => TypeOK /\ HandOffInv
  BY ZenonT(40) DEF Init, TypeOK, HandOffInv, SweepInv, ConnInv, SweepAt, OwnerPCs, SweepPCs
<1>2. TypeOK /\ HandOffInv /\ [Next]_vars => TypeOK' /\ HandOffInv'
  <2> SUFFICES ASSUME TypeOK, HandOffInv, [Next]_vars  PROVE HandOffInv'
    BY NextTypes
  <2>1. ASSUME NEW t \in Threads, Reading(t) \/ Leave(t) \/ OwnerStep(t)
        PROVE  HandOffInv'
    BY <2>1, OwnerHandsOff
  <2>2. CASE SetClosed \/ SweepStep \/ DeadlinePasses
    BY <2>2, SweepHandsOff
  <2>3. CASE UNCHANGED vars
    BY <2>3 DEF vars, owner, guard, sweep, HandOffInv, SweepInv, ConnInv, SweepAt
  <2>4. QED  BY <2>1, <2>2, <2>3 DEF Next, Rest
<1>3. QED  BY <1>1, <1>2, PTL DEF Spec

\* No thread ever reads through a handle somebody closed.
THEOREM ReadsAreOnOpenHandles == Spec => []ReadsOnOpen
<1>1. HandOffInv => ReadsOnOpen
  BY DEF HandOffInv, ConnInv, ReadsOnOpen
<1>2. QED  BY <1>1, HandOffIsSafe, PTL

\* interrupt() is only called on open handles.
THEOREM InterruptsReachOpenHandles == Spec => []InterruptsOpen
<1>1. HandOffInv => InterruptsOpen
  BY DEF HandOffInv, ConnInv, SweepAt, InterruptsOpen
<1>2. QED  BY <1>1, HandOffIsSafe, PTL

\* Both together: no closed connection is used, for any number of threads.
THEOREM UsesAreOnOpenHandles == Spec => []UsesOpen
<1>1. ReadsOnOpen /\ InterruptsOpen => UsesOpen
  BY DEF UsesOpen
<1>2. QED  BY <1>1, ReadsAreOnOpenHandles, InterruptsReachOpenHandles, PTL

\* When the sweep has ended, no thread that is done reading has a handle left.
THEOREM NoHandleLeaks == Spec => []NoLeak
<1>1. HandOffInv => NoLeak
  BY DEF HandOffInv, SweepInv, ConnInv, SweepAt, NoLeak
<1>2. QED  BY <1>1, HandOffIsSafe, PTL
=============================================================================
