---------------------------- MODULE RWLockProofs ----------------------------
(***************************************************************************)
(* RWLock for any finite set of readers and writers: the counters count    *)
(* what they stand for, a writer is alone, and no wake-up is lost.         *)
(***************************************************************************)
EXTENDS RWLock, FiniteSetTheorems, TLAPS

\* The counters agree with where the tasks are.
CountInv ==
  /\ readers = Cardinality(InState(Readers, "in"))
  /\ queued = Cardinality(InState(Writers, "waiting"))
  /\ writing <=> InState(Writers, "in") # {}

LockInv == TypeOK /\ CountInv /\ Exclusion /\ NoLostWakeup

USE TasksAssumption DEF Tasks

\* A task that enters or leaves a state changes the count of it by one.
LEMMA CountOf ==
  ASSUME TypeOK, NEW T, IsFiniteSet(T), NEW s, NEW d, NEW t \in Tasks, Goes(t, d)
  PROVE  /\ IsFiniteSet(InState(T, s)) /\ Cardinality(InState(T, s)) \in Nat
         /\ T \subseteq Tasks /\ t \in T /\ pc[t] # s /\ d = s =>
              Cardinality(InState(T, s)') = Cardinality(InState(T, s)) + 1
         /\ T \subseteq Tasks /\ t \in T /\ pc[t] = s /\ d # s =>
              /\ Cardinality(InState(T, s)') = Cardinality(InState(T, s)) - 1
              /\ Cardinality(InState(T, s)) > 0
         /\ T \subseteq Tasks /\ (t \notin T \/ (pc[t] # s /\ d # s)) =>
              InState(T, s)' = InState(T, s)
<1>1. IsFiniteSet(InState(T, s)) /\ Cardinality(InState(T, s)) \in Nat
  <2>1. InState(T, s) \in SUBSET T
    BY DEF InState
  <2>2. QED  BY <2>1, FS_Subset, FS_CardinalityType
<1>2. ASSUME T \subseteq Tasks, t \in T, pc[t] # s, d = s
      PROVE  Cardinality(InState(T, s)') = Cardinality(InState(T, s)) + 1
  <2>1. InState(T, s)' = InState(T, s) \cup {t} /\ t \notin InState(T, s)
    BY <1>2 DEF InState, Goes, TypeOK
  <2>2. QED  BY <1>1, <2>1, FS_AddElement
<1>3. ASSUME T \subseteq Tasks, t \in T, pc[t] = s, d # s
      PROVE  /\ Cardinality(InState(T, s)') = Cardinality(InState(T, s)) - 1
             /\ Cardinality(InState(T, s)) > 0
  <2>1. InState(T, s)' = InState(T, s) \ {t} /\ t \in InState(T, s)
    BY <1>3 DEF InState, Goes, TypeOK
  <2>2. QED  BY <1>1, <2>1, FS_RemoveElement, FS_EmptySet, SMTT(30)
<1>4. ASSUME T \subseteq Tasks, t \notin T \/ (pc[t] # s /\ d # s)
      PROVE  InState(T, s)' = InState(T, s)
  BY <1>4 DEF InState, Goes, TypeOK
<1>5. QED  BY <1>1, <1>2, <1>3, <1>4

\* A counter is above zero exactly while some task is in the state it counts.
LEMMA Blocked ==
  ASSUME TypeOK, CountInv
  PROVE  /\ readers > 0 <=> InState(Readers, "in") # {}
         /\ queued > 0 <=> InState(Writers, "waiting") # {}
         /\ ReadBlocked <=> \/ InState(Writers, "in") # {}
                            \/ InState(Writers, "waiting") # {}
         /\ WriteBlocked <=> InState(Tasks, "in") # {}
<1>1. InState(Readers, "in") \in SUBSET Readers
  BY DEF InState
<1>2. InState(Writers, "waiting") \in SUBSET Writers
  BY DEF InState
<1>3. readers > 0 <=> InState(Readers, "in") # {}
  BY <1>1, FS_Subset, FS_EmptySet DEF CountInv, TypeOK
<1>4. queued > 0 <=> InState(Writers, "waiting") # {}
  BY <1>2, FS_Subset, FS_EmptySet DEF CountInv, TypeOK
<1>5. InState(Tasks, "in") = InState(Readers, "in") \cup InState(Writers, "in")
  BY DEF InState
<1>6. QED
  BY <1>3, <1>4, <1>5 DEF ReadBlocked, WriteBlocked, CountInv

\* Every step of a reader keeps the invariant.
LEMMA ReaderStep ==
  ASSUME LockInv, NEW r \in Readers,
         \/ ReadEnter(r) \/ ReadWait(r) \/ ReadResume(r) \/ ReadExit(r) \/ ReadCancel(r)
  PROVE  LockInv'
<1> USE DEF LockInv
<1>1. r \in Tasks /\ r \notin Writers
  OBVIOUS
<1>2. CASE ReadEnter(r) \/ (ReadResume(r) /\ ~ReadBlocked)
  <2>1. /\ Goes(r, "in") /\ pc[r] \in {"out", "waiting"}
        /\ readers' = readers + 1 /\ UNCHANGED <<writing, queued>>
        /\ \/ woken' = woken \ {r}
           \/ woken' = woken /\ pc[r] = "out"
        /\ InState(Writers, "in") = {} /\ InState(Writers, "waiting") = {}
    <3>1. ~ReadBlocked
      BY <1>2 DEF ReadEnter
    <3>2. InState(Writers, "in") = {} /\ InState(Writers, "waiting") = {}
      BY <3>1, Blocked
    <3>3. CASE ReadEnter(r)
      BY <3>2, <3>3 DEF ReadEnter
    <3>4. CASE ReadResume(r)
      BY <3>1, <3>2, <3>4 DEF ReadResume, TypeOK
    <3>5. QED  BY <1>2, <3>3, <3>4
  <2>2. CountInv'
    <3>1. Cardinality(InState(Readers, "in")') = Cardinality(InState(Readers, "in")) + 1
      BY <1>1, <2>1, CountOf
    <3>2. /\ InState(Writers, "in")' = InState(Writers, "in")
          /\ InState(Writers, "waiting")' = InState(Writers, "waiting")
      BY <1>1, <2>1 DEF InState, Goes, TypeOK
    <3>3. QED  BY <2>1, <3>1, <3>2 DEF CountInv
  <2>3. InState(Writers, "in")' = {} /\ InState(Writers, "waiting")' = {}
    BY <1>1, <2>1 DEF InState, Goes, TypeOK
  <2>4. TypeOK' /\ Exclusion'
    BY <1>1, <2>1, <2>3 DEF TypeOK, Exclusion, Goes
  <2>5. NoLostWakeup'
    <3>1. ASSUME NEW q \in InState(Readers, "waiting")', q \notin woken'  PROVE FALSE
      <4>1. q \in InState(Readers, "waiting") \ woken
        BY <1>1, <2>1, <3>1 DEF InState, Goes, TypeOK
      <4>2. QED  BY <2>1, <4>1 DEF NoLostWakeup
    <3>2. QED  BY <2>3, <3>1 DEF NoLostWakeup
  <2>6. QED  BY <2>2, <2>4, <2>5
<1>3. CASE ReadWait(r) \/ (ReadResume(r) /\ ReadBlocked)
  <2>1. /\ pc' = [pc EXCEPT ![r] = "waiting"]
        /\ UNCHANGED <<readers, writing, queued>> /\ woken' \in {woken, woken \ {r}}
        /\ InState(Writers, "in") # {} \/ InState(Writers, "waiting") # {}
        /\ pc[r] # "in"
    BY <1>3, Blocked DEF ReadWait, ReadResume, Goes, TypeOK
  <2>2. /\ InState(Writers, "in")' = InState(Writers, "in")
        /\ InState(Writers, "waiting")' = InState(Writers, "waiting")
        /\ InState(Readers, "in")' = InState(Readers, "in")
        /\ InState(Tasks, "in")' = InState(Tasks, "in")
    BY <1>1, <2>1 DEF InState, TypeOK
  <2>3. TypeOK' /\ CountInv' /\ Exclusion'
    BY <1>1, <2>1, <2>2 DEF TypeOK, CountInv, Exclusion
  <2>4. NoLostWakeup'
    BY <1>1, <2>1, <2>2 DEF NoLostWakeup, InState
  <2>5. QED  BY <2>3, <2>4
<1>4. CASE ReadExit(r)
  <2>1. /\ Goes(r, "out") /\ pc[r] = "in" /\ readers' = readers - 1
        /\ UNCHANGED <<writing, queued>>
        /\ woken' = IF readers' = 0 THEN Waiting ELSE woken
    BY <1>4 DEF ReadExit
  <2>2. CountInv' /\ readers' \in Nat
    BY <1>1, <2>1, CountOf DEF CountInv, TypeOK
  <2>3. /\ InState(Writers, "in")' = InState(Writers, "in")
        /\ InState(Writers, "waiting")' = InState(Writers, "waiting")
        /\ InState(Readers, "waiting")' = InState(Readers, "waiting")
    BY <1>1, <2>1 DEF InState, Goes, TypeOK
  <2>4. InState(Writers, "in") = {}
    BY <1>1, <2>1 DEF Exclusion, InState
  <2>5. TypeOK'
    BY <1>1, <2>1, <2>2 DEF TypeOK, Goes, Waiting, InState
  <2>6. Exclusion'
    BY <2>3, <2>4 DEF Exclusion
  <2>7. NoLostWakeup'
    <3>1. InState(Tasks, "in")' # {} \/ woken' = Waiting
      <4>1. readers' = 0 \/ InState(Readers, "in")' # {}
        BY <2>2, FS_EmptySet DEF CountInv
      <4>2. InState(Readers, "in")' \subseteq InState(Tasks, "in")'
        BY DEF InState
      <4>3. QED  BY <2>1, <4>1, <4>2
    <3>2. Waiting = InState(Readers, "waiting") \cup InState(Writers, "waiting")
      BY DEF Waiting, InState
    <3>3. QED  BY <2>1, <2>3, <3>1, <3>2 DEF NoLostWakeup
  <2>8. QED  BY <2>2, <2>5, <2>6, <2>7
<1>5. CASE ReadCancel(r)
  <2>1. /\ pc' = [pc EXCEPT ![r] = "out"] /\ pc[r] = "waiting"
        /\ UNCHANGED <<readers, writing, queued>> /\ woken' = woken \ {r}
    BY <1>5 DEF ReadCancel, Goes
  <2>2. /\ InState(Writers, "in")' = InState(Writers, "in")
        /\ InState(Writers, "waiting")' = InState(Writers, "waiting")
        /\ InState(Readers, "in")' = InState(Readers, "in")
        /\ InState(Tasks, "in")' = InState(Tasks, "in")
        /\ InState(Readers, "waiting")' = InState(Readers, "waiting") \ {r}
    BY <1>1, <2>1 DEF InState, TypeOK
  <2>3. TypeOK' /\ CountInv' /\ Exclusion'
    BY <1>1, <2>1, <2>2 DEF TypeOK, CountInv, Exclusion
  <2>4. NoLostWakeup'
    <3>1. r \notin InState(Writers, "waiting")
      BY <1>1 DEF InState
    <3>2. QED  BY <2>1, <2>2, <3>1 DEF NoLostWakeup
  <2>5. QED  BY <2>3, <2>4
<1>6. QED
  <2>1. ReadBlocked \/ ~ReadBlocked
    OBVIOUS
  <2>2. QED  BY <1>2, <1>3, <1>4, <1>5, <2>1

\* Every step of a writer keeps the invariant: whenever one gets in, out or is
\* cancelled, everyone who waits is woken.
LEMMA WriterStep ==
  ASSUME LockInv, NEW w \in Writers,
         \/ WriteEnter(w) \/ WriteWait(w) \/ WriteResume(w) \/ WriteExit(w)
         \/ WriteCancel(w)
  PROVE  LockInv'
<1> USE DEF LockInv
<1>1. w \in Tasks /\ w \notin Readers
  OBVIOUS
<1>2. CASE WriteEnter(w) \/ (WriteResume(w) /\ ~WriteBlocked)
  <2>1. InState(Tasks, "in") = {} /\ w \in Tasks
    <3>1. ~WriteBlocked
      BY <1>2 DEF WriteEnter
    <3>2. QED  BY <3>1, Blocked
  <2>2. /\ Goes(w, "in") /\ writing' = TRUE /\ readers' = readers
        /\ \/ pc[w] = "out" /\ woken' = Waiting /\ queued' = queued
           \/ pc[w] = "waiting" /\ woken' = Waiting \ {w} /\ queued' = queued - 1
    <3>1. CASE WriteEnter(w)
      BY <3>1 DEF WriteEnter
    <3>2. CASE WriteResume(w) /\ ~WriteBlocked
      BY <3>2 DEF WriteResume, TypeOK
    <3>3. QED  BY <1>2, <3>1, <3>2
  <2>3. /\ InState(Tasks, "in")' = {w} /\ InState(Writers, "in")' = {w}
        /\ InState(Readers, "in")' = InState(Readers, "in")
        /\ InState(Tasks, "waiting")' = InState(Tasks, "waiting") \ {w}
    BY <1>1, <2>1, <2>2 DEF InState, Goes, TypeOK
  <2>4. queued' = Cardinality(InState(Writers, "waiting")') /\ queued' \in Nat
    <3>1. CASE pc[w] = "out" /\ queued' = queued
      BY <1>1, <2>2, <3>1, CountOf DEF CountInv
    <3>2. CASE pc[w] = "waiting" /\ queued' = queued - 1
      BY <1>1, <2>2, <3>2, CountOf DEF CountInv
    <3>3. QED  BY <2>2, <3>1, <3>2
  <2>5. CountInv'
    BY <2>2, <2>3, <2>4 DEF CountInv
  <2>6. woken' = InState(Tasks, "waiting")'
    BY <2>2, <2>3 DEF Waiting, InState
  <2>7. TypeOK'
    BY <1>1, <2>2, <2>4, <2>6 DEF TypeOK, Goes, InState
  <2>8. Exclusion' /\ NoLostWakeup'
    BY <2>3, <2>6 DEF Exclusion, NoLostWakeup, InState
  <2>9. QED  BY <2>5, <2>7, <2>8
<1>3. CASE WriteWait(w)
  <2>1. /\ Goes(w, "waiting") /\ pc[w] = "out" /\ queued' = queued + 1
        /\ UNCHANGED <<readers, writing, woken>> /\ InState(Tasks, "in") # {}
    BY <1>3, Blocked DEF WriteWait
  <2>2. /\ InState(Writers, "in")' = InState(Writers, "in")
        /\ InState(Readers, "in")' = InState(Readers, "in")
        /\ InState(Tasks, "in")' = InState(Tasks, "in")
        /\ InState(Readers, "waiting")' = InState(Readers, "waiting")
        /\ InState(Writers, "waiting")' = InState(Writers, "waiting") \cup {w}
    BY <1>1, <2>1 DEF InState, Goes, TypeOK
  <2>3. queued' = Cardinality(InState(Writers, "waiting")') /\ queued' \in Nat
    BY <1>1, <2>1, CountOf DEF CountInv
  <2>4. TypeOK'
    BY <1>1, <2>1, <2>3 DEF TypeOK, Goes
  <2>5. CountInv' /\ Exclusion' /\ NoLostWakeup'
    BY <2>1, <2>2, <2>3 DEF CountInv, Exclusion, NoLostWakeup
  <2>6. QED  BY <2>4, <2>5
<1>4. CASE WriteResume(w) /\ WriteBlocked
  <2>1. /\ woken' = woken \ {w} /\ UNCHANGED <<readers, writing, queued, pc>>
        /\ InState(Tasks, "in") # {}
    BY <1>4, Blocked DEF WriteResume
  <2>2. TypeOK' /\ CountInv' /\ Exclusion'
    BY <2>1 DEF TypeOK, CountInv, Exclusion, InState
  <2>3. NoLostWakeup'
    BY <1>1, <2>1 DEF NoLostWakeup, InState
  <2>4. QED  BY <2>2, <2>3
<1>5. CASE WriteExit(w)
  <2>1. /\ Goes(w, "out") /\ pc[w] = "in" /\ writing' = FALSE /\ woken' = Waiting
        /\ UNCHANGED <<readers, queued>>
    BY <1>5 DEF WriteExit
  <2>2. InState(Tasks, "in") = {w}
    BY <2>1 DEF Exclusion, InState
  <2>3. /\ InState(Tasks, "in")' = {} /\ InState(Writers, "in")' = {}
        /\ InState(Readers, "in")' = InState(Readers, "in")
        /\ InState(Writers, "waiting")' = InState(Writers, "waiting")
        /\ InState(Tasks, "waiting")' = InState(Tasks, "waiting")
    BY <1>1, <2>1, <2>2 DEF InState, Goes, TypeOK
  <2>4. TypeOK'
    BY <1>1, <2>1 DEF TypeOK, Goes, Waiting, InState
  <2>5. CountInv' /\ Exclusion'
    BY <2>1, <2>3 DEF CountInv, Exclusion
  <2>6. NoLostWakeup'
    BY <2>1, <2>3 DEF NoLostWakeup, Waiting, InState
  <2>7. QED  BY <2>4, <2>5, <2>6
<1>6. CASE WriteCancel(w)
  <2>1. /\ Goes(w, "out") /\ pc[w] = "waiting" /\ queued' = queued - 1
        /\ woken' = Waiting \ {w} /\ UNCHANGED <<readers, writing>>
    BY <1>6 DEF WriteCancel
  <2>2. /\ InState(Writers, "in")' = InState(Writers, "in")
        /\ InState(Readers, "in")' = InState(Readers, "in")
        /\ InState(Tasks, "in")' = InState(Tasks, "in")
        /\ InState(Tasks, "waiting")' = InState(Tasks, "waiting") \ {w}
    BY <1>1, <2>1 DEF InState, Goes, TypeOK
  <2>3. queued' = Cardinality(InState(Writers, "waiting")') /\ queued' \in Nat
    BY <1>1, <2>1, CountOf DEF CountInv
  <2>4. TypeOK'
    BY <1>1, <2>1, <2>3 DEF TypeOK, Goes, Waiting, InState
  <2>5. CountInv' /\ Exclusion'
    BY <2>1, <2>2, <2>3 DEF CountInv, Exclusion
  <2>6. NoLostWakeup'
    BY <2>1, <2>2 DEF NoLostWakeup, Waiting, InState
  <2>7. QED  BY <2>4, <2>5, <2>6
<1>7. QED
  <2>1. WriteBlocked \/ ~WriteBlocked
    OBVIOUS
  <2>2. QED  BY <1>2, <1>3, <1>4, <1>5, <1>6, <2>1

\* At first nobody is in the lock or waits for it.
LEMMA LockInit ==
  ASSUME Init
  PROVE  LockInv
<1>1. TypeOK
  BY DEF Init, TypeOK
<1>2. /\ InState(Readers, "in") = {} /\ InState(Writers, "in") = {}
      /\ InState(Tasks, "waiting") = {} /\ InState(Writers, "waiting") = {}
      /\ InState(Readers, "waiting") = {}
  BY DEF Init, InState
<1>3. QED
  BY <1>1, <1>2, FS_EmptySet DEF LockInv, CountInv, Exclusion, NoLostWakeup, Init

\* The inductive invariant of the lock.
THEOREM LockInvariant == Spec => []LockInv
<1>1. Init => LockInv
  BY LockInit
<1>2. LockInv /\ [Next]_vars => LockInv'
  <2> SUFFICES ASSUME LockInv, [Next]_vars  PROVE LockInv'
    OBVIOUS
  <2>1. CASE Next
    BY <2>1, ReaderStep, WriterStep DEF Next
  <2>2. CASE UNCHANGED vars
    BY <2>2 DEF vars, LockInv, TypeOK, CountInv, Exclusion, NoLostWakeup, InState
  <2>3. QED  BY <2>1, <2>2
<1>3. QED  BY <1>1, <1>2, PTL DEF Spec

\* A writer in its section is alone in it, however many tasks use the lock.
THEOREM WritersExclude == Spec => []Exclusion
<1>1. LockInv => Exclusion
  BY DEF LockInv
<1>2. QED  BY <1>1, LockInvariant, PTL

\* No waiting task is left behind: it is woken, or somebody inside or queued
\* will notify it.
THEOREM NoWakeupIsLost == Spec => []NoLostWakeup
<1>1. LockInv => NoLostWakeup
  BY DEF LockInv
<1>2. QED  BY <1>1, LockInvariant, PTL
=============================================================================
