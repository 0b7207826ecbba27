---------------------------- MODULE ManagerProofs ----------------------------
(***************************************************************************)
(* Manager for any finite sets of names and clients, any cap and any       *)
(* budget of events: a directory has one owner at a time, what is resident *)
(* is open and in the catalog, memory is bounded, and collections have     *)
(* their own files.                                                        *)
(***************************************************************************)
EXTENDS Manager, FiniteSetTheorems, TLAPS

\* The inductive invariant.
IInv == TypeOK /\ OwnershipInv /\ OneOwner

LEMMA BlankType == /\ Blank.name \in Names
                   /\ Blank \in ObjTypes
                   /\ Blank.st = "none"
<1>1. (CHOOSE n \in Names : TRUE) \in Names
  BY ManagerAssumption
<1>2. QED  BY <1>1 DEF Blank, ObjTypes, States

LEMMA RestType == Rest \in TaskTypes /\ Rest.pc = "idle" /\ Rest.op = "none"
<1>1. 0 \in 0..Slots
  BY ManagerAssumption
<1>2. QED  BY <1>1, BlankType DEF Rest, TaskTypes, PCs

LEMMA FreeIsNoTask == "free" \notin Tasks
BY ManagerAssumption DEF Tasks

\* What the updates of one task do.
LEMMA TaskUpdates ==
  ASSUME TypeOK, NEW t \in Tasks
  PROVE  /\ \A op, pc, n, o : Starts(t, op, pc, n, o) =>
              /\ task'[t] = [op |-> op, pc |-> pc, name |-> n, obj |-> o, dropped |-> FALSE]
              /\ \A u \in Tasks \ {t} : task'[u] = task[u]
         /\ \A pc : Goes(t, pc) =>
              /\ task'[t] = [task[t] EXCEPT !.pc = pc]
              /\ \A u \in Tasks \ {t} : task'[u] = task[u]
         /\ Ends(t) => /\ task'[t] = Rest
                       /\ \A u \in Tasks \ {t} : task'[u] = task[u]
BY DEF TypeOK, ObjTypes, TaskTypes, Starts, Goes, Ends

-----------------------------------------------------------------------------
\* A step that leaves the objects as they are and moves one task to where it
\* builds and stops nothing.
LEMMA Frame ==
  ASSUME IInv, NEW t \in Tasks,
         UNCHANGED <<objs, resident, phase>>,
         \A u \in Tasks \ {t} : task'[u] = task[u],
         task[t].pc # "building",
         task[t].pc = "stopping" => objs[task[t].obj].st = "closed",
         task'[t].pc \notin {"building", "stopping"},
         task'[t].pc = "have" => task'[t].obj \in Objs,
         task'[t].pc \in {"inside", "sweeping"} => lock' = t,
         lock' # lock => lock \in {t, "free"} /\ lock' \in {t, "free"},
         task'[t].pc # "idle" =>
           \/ t \in Clients /\ phase = "up"
           \/ t = "boot" /\ phase = "boot"
           \/ t = "sweeper" /\ phase = "up"
           \/ t = "shutdown" /\ phase = "closing",
         TodoInv',
         \A o \in Objs : objs[o].st \in {"building", "open"} =>
           catalog'[objs[o].name] = catalog[objs[o].name]
  PROVE  OwnershipInv' /\ OneOwner'
<1> USE DEF IInv, OwnershipInv
<1>1. LockInv'
  BY FreeIsNoTask DEF LockInv, InLock
<1>2. PhaseInv'
  BY ManagerAssumption DEF PhaseInv, Tasks
<1>3. \A u \in Tasks : TaskInv(u)'
  <2> SUFFICES ASSUME NEW u \in Tasks  PROVE TaskInv(u)'
    OBVIOUS
  <2>1. CASE u = t
    BY <2>1 DEF TaskInv
  <2>2. CASE u # t
    <3>1. TaskInv(u) /\ task'[u] = task[u]
      BY <2>2
    <3>2. QED  BY <3>1 DEF TaskInv, ResidentAs
  <2>3. QED  BY <2>1, <2>2
<1>4. \A o \in Objs : ObjInv(o)'
  <2> SUFFICES ASSUME NEW o \in Objs  PROVE ObjInv(o)'
    OBVIOUS
  <2>1. ObjInv(o)
    OBVIOUS
  <2>2. objs[o].st = "building" => \E u \in Tasks : task'[u].pc = "building" /\ task'[u].obj = o
    BY <2>1 DEF ObjInv
  <2>3. objs[o].st = "stopping" => \E u \in Tasks : task'[u].pc = "stopping" /\ task'[u].obj = o
    BY <2>1 DEF ObjInv
  <2>4. QED  BY <2>1, <2>2, <2>3 DEF ObjInv
<1>5. OneOwner'
  BY DEF OneOwner, Live
<1>6. QED  BY <1>1, <1>2, <1>3, <1>4, <1>5

\* The same for a request or the boot, none of which has anything in `todo`.
LEMMA RequestFrame ==
  ASSUME IInv, NEW t \in Clients \cup {"boot"},
         UNCHANGED <<objs, resident, todo, phase>>,
         \A u \in Tasks \ {t} : task'[u] = task[u],
         task[t].pc # "building",
         task[t].pc = "stopping" => objs[task[t].obj].st = "closed",
         task'[t].pc \notin {"building", "stopping", "sweeping"},
         task'[t].pc = "have" => task'[t].obj \in Objs,
         task'[t].pc = "inside" => lock' = t,
         lock' # lock => lock \in {t, "free"} /\ lock' \in {t, "free"},
         task'[t].pc # "idle" =>
           task[t].pc # "idle" \/ (t \in Clients /\ phase = "up"),
         \A o \in Objs : objs[o].st \in {"building", "open"} =>
           catalog'[objs[o].name] = catalog[objs[o].name]
  PROVE  OwnershipInv' /\ OneOwner'
<1>1. t \in Tasks /\ t \notin {"sweeper", "shutdown"}
  BY ManagerAssumption DEF Tasks
<1>2. TodoInv'
  <2>1. task'["sweeper"] = task["sweeper"] /\ task'["shutdown"] = task["shutdown"]
    BY <1>1 DEF Tasks
  <2>2. QED  BY <2>1 DEF IInv, OwnershipInv, TodoInv
<1>3. task'[t].pc # "idle" => \/ t \in Clients /\ phase = "up"
                              \/ t = "boot" /\ phase = "boot"
  BY DEF IInv, OwnershipInv, PhaseInv
<1>4. QED  BY <1>1, <1>2, <1>3, Frame

\* Who has or takes _load_lock is alone in it: nobody else builds or stops.
LEMMA AloneInLock ==
  ASSUME IInv, NEW t \in Tasks, lock \in {t, "free"}
  PROVE  /\ \A u \in Tasks \ {t} : ~InLock(u)
         /\ task[t].pc # "building" => \A o \in Objs : objs[o].st # "building"
         /\ task[t].pc # "stopping" /\ phase # "closing" =>
              \A o \in Objs : objs[o].st # "stopping"
<1> USE DEF IInv, OwnershipInv
<1>1. \A u \in Tasks \ {t} : ~InLock(u)
  BY FreeIsNoTask DEF LockInv
<1>2. ASSUME task[t].pc # "building", NEW o \in Objs, objs[o].st = "building"
      PROVE  FALSE
  <2>1. PICK u \in Tasks : task[u].pc = "building"
    BY <1>2 DEF ObjInv
  <2>2. QED  BY <1>1, <1>2, <2>1 DEF InLock
<1>3. ASSUME task[t].pc # "stopping", phase # "closing",
             NEW o \in Objs, objs[o].st = "stopping"
      PROVE  FALSE
  <2>1. PICK u \in Tasks : task[u].pc = "stopping"
    BY <1>3 DEF ObjInv
  <2>2. u # "shutdown"
    BY <1>3, <2>1 DEF PhaseInv
  <2>3. QED  BY <1>1, <1>3, <2>1, <2>2 DEF InLock
<1>4. QED  BY <1>1, <1>2, <1>3

\* What is loaded or being loaded is in the catalog, so that a name without a
\* row has no such object.
LEMMA Catalogued ==
  ASSUME IInv, NEW o \in Objs, objs[o].st \in {"building", "open"}
  PROVE  catalog[objs[o].name] # 0
BY DEF IInv, OwnershipInv, ObjInv

\* _evict, by whoever may: the object goes from open to stopping.
LEMMA EvictStep ==
  ASSUME IInv, NEW t \in Tasks, NEW o \in resident, Evict(t, o),
         UNCHANGED <<catalog, phase>>,
         task[t].pc \notin {"idle", "stopping", "building"},
         t # "shutdown" => lock \in {t, "free"} /\ lock' = t,
         t = "shutdown" => lock' = lock,
         t = "sweeper" => phase = "up",
         t \in Clients /\ task[t].op = "delete" => objs[o].name = task[t].name,
         TodoInv'
  PROVE  OwnershipInv' /\ OneOwner'
<1> USE DEF IInv, OwnershipInv
<1>1. /\ o \in Objs /\ objs[o].st = "open"
      /\ objs'[o] = [objs[o] EXCEPT !.st = "stopping"]
      /\ \A q \in Objs \ {o} : objs'[q] = objs[q]
  <2>1. o \in Objs
    BY DEF TypeOK
  <2>2. objs[o].st = "open"
    BY <2>1 DEF ObjInv
  <2>3. objs \in [Objs -> ObjTypes] /\ objs' = [objs EXCEPT ![o].st = "stopping"]
    BY DEF TypeOK, Evict
  <2>4. QED  BY <2>1, <2>2, <2>3
<1>2. /\ task'[t] = [task[t] EXCEPT !.pc = "stopping", !.obj = o]
      /\ \A u \in Tasks \ {t} : task'[u] = task[u]
  BY DEF TypeOK, ObjTypes, TaskTypes, Evict
<1>3. /\ task'[t].pc = "stopping" /\ task'[t].obj = o
      /\ task'[t].op = task[t].op /\ task'[t].name = task[t].name
  BY <1>2 DEF TypeOK, ObjTypes, TaskTypes
<1>4. /\ objs'[o].st = "stopping" /\ objs'[o].name = objs[o].name
      /\ resident' = resident \ {o}
  BY <1>1 DEF TypeOK, ObjTypes, TaskTypes, Evict
<1>4a. \A q \in Objs : objs'[q].name = objs[q].name /\ (Live(q)' <=> Live(q))
  BY <1>1, <1>4 DEF Live
<1>5. LockInv'
  BY <1>2, <1>3, FreeIsNoTask, ZenonT(40) DEF LockInv, InLock
<1>6. PhaseInv'
  BY <1>2, <1>3, ManagerAssumption DEF PhaseInv, Tasks
<1>7. \A u \in Tasks : TaskInv(u)'
  <2> SUFFICES ASSUME NEW u \in Tasks  PROVE TaskInv(u)'
    OBVIOUS
  <2>1. CASE u = t
    <3>1. ASSUME t \in Clients, task[t].op = "delete", NEW q \in ResidentAs(task[t].name)'
          PROVE  FALSE
      <4>1. q \in Objs /\ q # o /\ objs[q].name = objs[o].name /\ objs[q].st = "open"
        BY <1>4, <1>4a, <1>3, <3>1 DEF ResidentAs, ObjInv, TypeOK, ObjTypes, TaskTypes
      <4>2. QED  BY <4>1, <1>1 DEF OneOwner, Live
    <3>2. t \in Clients /\ task[t].op = "delete" => ResidentAs(task[t].name)' = {}
      BY <3>1
    <3>3. QED  BY <2>1, <3>2, <1>1, <1>3, <1>4 DEF TaskInv
  <2>2. CASE u # t
    <3>1. TaskInv(u) /\ task'[u] = task[u]
      BY <1>2, <2>2
    <3>2. ResidentAs(task[u].name)' \subseteq ResidentAs(task[u].name)
      BY <1>4, <1>4a, <3>1 DEF ResidentAs, TypeOK, ObjTypes, TaskTypes
    <3>3. task[u].obj \in Objs /\ objs[task[u].obj].st # "open" =>
            objs'[task[u].obj] = objs[task[u].obj]
      BY <1>1
    <3>4. QED  BY <3>1, <3>2, <3>3 DEF TaskInv
  <2>3. QED  BY <2>1, <2>2
<1>8. \A q \in Objs : ObjInv(q)'
  <2> SUFFICES ASSUME NEW q \in Objs  PROVE ObjInv(q)'
    OBVIOUS
  <2>1. CASE q = o
    BY <2>1, <1>3, <1>4 DEF ObjInv
  <2>2. CASE q # o
    <3>1. ObjInv(q) /\ objs'[q] = objs[q] /\ (q \in resident' <=> q \in resident)
      BY <2>2, <1>1, <1>4
    <3>2. objs[q].st = "building" => \E u \in Tasks : task'[u].pc = "building" /\ task'[u].obj = q
      BY <3>1, <1>2 DEF ObjInv
    <3>3. objs[q].st = "stopping" => \E u \in Tasks : task'[u].pc = "stopping" /\ task'[u].obj = q
      BY <3>1, <1>2 DEF ObjInv
    <3>4. QED  BY <3>1, <3>2, <3>3 DEF ObjInv
  <2>3. QED  BY <2>1, <2>2
<1>9. OneOwner'
  BY <1>4a DEF OneOwner
<1>10. QED  BY <1>5, <1>6, <1>7, <1>8, <1>9

-----------------------------------------------------------------------------
\* A build begins: nothing else of that name is loaded.
LEMMA BuildsStep ==
  ASSUME IInv, TypeOK', NEW t \in Clients \cup {"boot"}, TouchBuilds(t)
  PROVE  OwnershipInv' /\ OneOwner'
<1> USE DEF IInv, OwnershipInv
<1>1. /\ t \in Tasks /\ t \notin {"sweeper", "shutdown"}
      /\ task[t].pc \in {"lock", "inside"} /\ lock \in {t, "free"} /\ lock' = t
      /\ ResidentAs(task[t].name) = {} /\ catalog[task[t].name] # 0
      /\ UNCHANGED <<catalog, resident, todo, phase>>
  BY ManagerAssumption DEF Tasks, TouchBuilds, Loads, Touching, Inside, disk, sweep
<1>2. phase # "closing"
  BY <1>1 DEF PhaseInv, Tasks
<1>3. /\ \A q \in Objs : objs[q].st \notin {"building", "stopping"}
      /\ \A u \in Tasks \ {t} : ~InLock(u)
  BY <1>1, <1>2, AloneInLock
<1>4. PICK o \in Objs :
        /\ Free(o)
        /\ objs' = [objs EXCEPT ![o] = [name |-> task[t].name, made |-> 0,
                                        row |-> catalog[task[t].name],
                                        st |-> "building"]]
        /\ task' = [task EXCEPT ![t].pc = "building", ![t].obj = o]
  BY DEF TouchBuilds
<1>5. /\ task'[t].pc = "building" /\ task'[t].obj = o /\ task'[t].name = task[t].name
      /\ task'[t].op = task[t].op
      /\ \A u \in Tasks \ {t} : task'[u] = task[u]
  BY <1>1, <1>4 DEF TypeOK, ObjTypes, TaskTypes
<1>6. /\ objs'[o].st = "building" /\ objs'[o].name = task[t].name
      /\ objs'[o].row = catalog[task[t].name]
      /\ \A q \in Objs \ {o} : objs'[q] = objs[q]
      /\ o \notin resident
      /\ \A u \in Tasks : task[u].obj # o
  BY <1>4 DEF TypeOK, ObjTypes, TaskTypes, Free, ObjInv
<1>7. LockInv'
  BY <1>1, <1>3, <1>5 DEF LockInv, InLock
<1>8. PhaseInv'
  BY <1>1, <1>5 DEF PhaseInv, Tasks
<1>9. TodoInv'
  BY <1>1, <1>5 DEF TodoInv, Tasks
<1>10. \A u \in Tasks : TaskInv(u)'
  <2> SUFFICES ASSUME NEW u \in Tasks  PROVE TaskInv(u)'
    OBVIOUS
  <2>1. ResidentAs(task[u].name)' = ResidentAs(task[u].name)
    <3>1. task'[u].name = task[u].name
      BY <1>5
    <3>2. \A q \in resident : objs'[q] = objs[q]
      BY <1>6 DEF TypeOK, ObjTypes, TaskTypes
    <3>3. QED  BY <1>1, <3>1, <3>2 DEF ResidentAs
  <2>2. CASE u = t
    BY <2>1, <2>2, <1>1, <1>5, <1>6 DEF TaskInv
  <2>3. CASE u # t
    <3>1. TaskInv(u) /\ task'[u] = task[u] /\ task[u].obj # o
      BY <2>3, <1>5, <1>6
    <3>2. QED  BY <2>1, <3>1, <1>6 DEF TaskInv
  <2>4. QED  BY <2>2, <2>3
<1>11. \A q \in Objs : ObjInv(q)'
  <2> SUFFICES ASSUME NEW q \in Objs  PROVE ObjInv(q)'
    OBVIOUS
  <2>1. CASE q = o
    BY <2>1, <1>1, <1>5, <1>6 DEF ObjInv
  <2>2. CASE q # o
    <3>1. objs'[q] = objs[q] /\ objs[q].st \notin {"building", "stopping"} /\ ObjInv(q)
      BY <2>2, <1>3, <1>6
    <3>2. QED  BY <3>1, <1>1 DEF ObjInv
  <2>3. QED  BY <2>1, <2>2
<1>12. OneOwner'
  <2>1. ASSUME NEW q \in Objs \ {o}, Live(q)'  PROVE objs'[q].name # objs'[o].name
    <3>1. objs'[q] = objs[q] /\ objs[q].st = "open"
      BY <1>3, <1>6, <2>1 DEF Live
    <3>2. q \in resident
      BY <3>1 DEF ObjInv
    <3>3. QED  BY <1>1, <1>6, <3>1, <3>2 DEF ResidentAs
  <2>2. QED  BY <2>1, <1>6 DEF OneOwner, Live
<1>13. QED  BY <1>7, <1>8, <1>9, <1>10, <1>11, <1>12

\* A build ends: the object is open and resident.
LEMMA BuiltStep ==
  ASSUME IInv, TypeOK', NEW t \in Clients \cup {"boot"}, BuildEnds(t)
  PROVE  OwnershipInv' /\ OneOwner'
<1> USE DEF IInv, OwnershipInv
<1> DEFINE o == task[t].obj
<1>1. /\ t \in Tasks /\ t \notin {"sweeper", "shutdown"} /\ task[t].pc = "building"
      /\ lock = t /\ lock' = "free" /\ UNCHANGED <<catalog, todo, phase>>
  BY ManagerAssumption DEF Tasks, BuildEnds, Used, disk, LockInv, InLock
<1>2. /\ o \in Objs /\ objs[o].st = "building" /\ objs[o].name = task[t].name
      /\ ResidentAs(task[t].name) = {}
  BY <1>1 DEF TaskInv
<1>3. /\ objs'[o].st = "open" /\ objs'[o].name = objs[o].name /\ objs'[o].row = objs[o].row
      /\ \A q \in Objs \ {o} : objs'[q] = objs[q]
  <2>1. objs \in [Objs -> ObjTypes] /\ \E k : objs' = [objs EXCEPT ![o].st = "open", ![o].made = k]
    BY DEF TypeOK, BuildEnds
  <2> HIDE DEF IInv, OwnershipInv
  <2>2. QED  BY <1>2, <2>1 DEF ObjTypes
<1>4. /\ resident' = resident \cup {o}
      /\ task'[t].pc \in {"idle", "have"}
      /\ task'[t].pc = "have" => task'[t].obj = o
      /\ \A u \in Tasks \ {t} : task'[u] = task[u]
  <2>1. Built(t, o) /\ (Goes(t, "have") \/ Ends(t))
    BY DEF BuildEnds, Built
  <2>2. QED  BY <1>1, <2>1, TaskUpdates, RestType DEF Built, TypeOK, ObjTypes, TaskTypes
<1>5. /\ \A u \in Tasks \ {t} : ~InLock(u)
      /\ \A q \in Objs : objs[q].st = "building" => q = o
  <2>1. \A u \in Tasks \ {t} : ~InLock(u)
    BY <1>1, AloneInLock
  <2>2. ASSUME NEW q \in Objs, objs[q].st = "building"  PROVE q = o
    <3>1. PICK u \in Tasks : task[u].pc = "building" /\ task[u].obj = q
      BY <2>2 DEF ObjInv
    <3>2. QED  BY <2>1, <3>1 DEF InLock
  <2>3. QED  BY <2>1, <2>2
<1>6. LockInv'
  BY <1>1, <1>4, <1>5 DEF LockInv, InLock
<1>7. PhaseInv'
  BY <1>1, <1>4 DEF PhaseInv, Tasks
<1>8. TodoInv'
  BY <1>1, <1>4 DEF TodoInv, Tasks
<1>9. \A u \in Tasks : TaskInv(u)'
  <2> SUFFICES ASSUME NEW u \in Tasks  PROVE TaskInv(u)'
    OBVIOUS
  <2>1. CASE u = t
    BY <2>1, <1>2, <1>4 DEF TaskInv
  <2>2. CASE u # t
    <3>1. TaskInv(u) /\ task'[u] = task[u] /\ ~InLock(u)
      BY <2>2, <1>4, <1>5
    <3>2. task[u].pc # "building" /\ (task[u].pc = "stopping" => u = "shutdown")
      BY <3>1 DEF InLock
    <3>3. task[u].pc # "stopping"
      BY <1>1, <3>2 DEF PhaseInv, Tasks
    <3>4. QED  BY <3>1, <3>2, <3>3 DEF TaskInv
  <2>3. QED  BY <2>1, <2>2
<1>10. \A q \in Objs : ObjInv(q)'
  <2> SUFFICES ASSUME NEW q \in Objs  PROVE ObjInv(q)'
    OBVIOUS
  <2>1. CASE q = o
    <3>1. ObjInv(o)
      BY <1>2
    <3>2. QED  BY <2>1, <3>1, <1>1, <1>2, <1>3, <1>4 DEF ObjInv
  <2>2. CASE q # o
    <3>1. /\ ObjInv(q) /\ objs'[q] = objs[q] /\ objs[q].st # "building"
          /\ (q \in resident' <=> q \in resident)
      BY <2>2, <1>3, <1>4, <1>5
    <3>2. objs[q].st = "stopping" => \E u \in Tasks : task'[u].pc = "stopping" /\ task'[u].obj = q
      BY <3>1, <1>1, <1>4 DEF ObjInv
    <3>3. QED  BY <3>1, <3>2, <1>1 DEF ObjInv
  <2>3. QED  BY <2>1, <2>2
<1>11. OneOwner'
  <2>1. \A q \in Objs : objs'[q].name = objs[q].name /\ (Live(q)' <=> Live(q))
    BY <1>2, <1>3 DEF Live
  <2>2. QED  BY <2>1 DEF OneOwner
<1>12. QED  BY <1>6, <1>7, <1>8, <1>9, <1>10, <1>11

\* A build fails, which is the end of a boot.
LEMMA FailsStep ==
  ASSUME IInv, TypeOK', NEW t \in Clients \cup {"boot"}, BuildFails(t)
  PROVE  OwnershipInv' /\ OneOwner'
<1> USE DEF IInv, OwnershipInv
<1> DEFINE o == task[t].obj
<1>1. /\ t \in Tasks /\ t \notin {"sweeper", "shutdown"} /\ task[t].pc = "building"
      /\ lock = t /\ lock' = "free" /\ UNCHANGED <<catalog, todo, resident>>
      /\ phase' = IF t = "boot" THEN "failed" ELSE phase
  BY ManagerAssumption DEF Tasks, BuildFails, disk, sweep, LockInv, InLock
<1>2. /\ o \in Objs /\ objs[o].st = "building"
  BY <1>1 DEF TaskInv
<1>3. /\ objs'[o].st = "closed" /\ objs'[o].name = objs[o].name
      /\ \A q \in Objs \ {o} : objs'[q] = objs[q]
  BY <1>2 DEF TypeOK, ObjTypes, TaskTypes, BuildFails
<1>4. task'[t].pc = "idle" /\ \A u \in Tasks \ {t} : task'[u] = task[u]
  BY <1>1, TaskUpdates, RestType DEF BuildFails
<1>5. \A u \in Tasks \ {t} : ~InLock(u)
  BY <1>1, AloneInLock
<1>6. LockInv'
  BY <1>1, <1>4, <1>5 DEF LockInv, InLock
<1>7. PhaseInv'
  BY <1>1, <1>4, ManagerAssumption DEF PhaseInv, Tasks
<1>8. TodoInv'
  BY <1>1, <1>4 DEF TodoInv, Tasks
<1>9. \A u \in Tasks : TaskInv(u)'
  <2> SUFFICES ASSUME NEW u \in Tasks  PROVE TaskInv(u)'
    OBVIOUS
  <2>1. CASE u = t
    BY <2>1, <1>4 DEF TaskInv
  <2>2. CASE u # t
    <3>1. TaskInv(u) /\ task'[u] = task[u] /\ task[u].pc # "building"
      BY <2>2, <1>4, <1>5 DEF InLock
    <3>2. ResidentAs(task[u].name)' = ResidentAs(task[u].name)
      BY <1>1, <1>2, <1>3, <3>1 DEF ResidentAs, TypeOK, ObjTypes, TaskTypes
    <3>3. QED  BY <3>1, <3>2, <1>2, <1>3 DEF TaskInv
  <2>3. QED  BY <2>1, <2>2
<1>10. \A q \in Objs : ObjInv(q)'
  <2> SUFFICES ASSUME NEW q \in Objs  PROVE ObjInv(q)'
    OBVIOUS
  <2>1. ObjInv(q)
    OBVIOUS
  <2>2. CASE q = o
    BY <2>1, <2>2, <1>1, <1>2, <1>3 DEF ObjInv
  <2>3. CASE q # o
    <3>1. objs'[q] = objs[q]
      BY <2>3, <1>3
    <3>2. objs[q].st = "building" => \E u \in Tasks : task'[u].pc = "building" /\ task'[u].obj = q
      BY <2>1, <2>3, <1>4 DEF ObjInv
    <3>3. objs[q].st = "stopping" => \E u \in Tasks : task'[u].pc = "stopping" /\ task'[u].obj = q
      BY <2>1, <1>1, <1>4 DEF ObjInv
    <3>4. QED  BY <2>1, <3>1, <3>2, <3>3, <1>1 DEF ObjInv
  <2>4. QED  BY <2>2, <2>3
<1>11. OneOwner'
  <2>1. \A q \in Objs : objs'[q].name = objs[q].name /\ (Live(q)' => Live(q))
    BY <1>2, <1>3 DEF Live
  <2>2. QED  BY <2>1 DEF OneOwner
<1>12. QED  BY <1>6, <1>7, <1>8, <1>9, <1>10, <1>11

\* A stop() ends, while its task still waits for it.
LEMMA StoppedStep ==
  ASSUME IInv, TypeOK', NEW o \in Objs, StopEnds(o)
  PROVE  OwnershipInv' /\ OneOwner'
<1> USE DEF IInv, OwnershipInv
<1>1. /\ objs[o].st = "stopping"
      /\ objs'[o].st = "closed" /\ objs'[o].name = objs[o].name
      /\ \A q \in Objs \ {o} : objs'[q] = objs[q]
      /\ UNCHANGED <<catalog, resident, lock, task, todo, phase>>
  BY DEF StopEnds, TypeOK, ObjTypes, TaskTypes, disk, sweep
<1>2. LockInv' /\ PhaseInv' /\ TodoInv'
  BY <1>1 DEF LockInv, InLock, PhaseInv, TodoInv
<1>3. \A u \in Tasks : TaskInv(u)'
  <2> SUFFICES ASSUME NEW u \in Tasks  PROVE TaskInv(u)'
    OBVIOUS
  <2>1. ResidentAs(task[u].name)' = ResidentAs(task[u].name)
    BY <1>1 DEF ResidentAs, TypeOK, ObjTypes, TaskTypes
  <2>2. TaskInv(u)
    OBVIOUS
  <2>3. QED  BY <1>1, <2>1, <2>2 DEF TaskInv
<1>4. \A q \in Objs : ObjInv(q)'
  <2> SUFFICES ASSUME NEW q \in Objs  PROVE ObjInv(q)'
    OBVIOUS
  <2>1. ObjInv(q)
    OBVIOUS
  <2>2. QED  BY <1>1, <2>1 DEF ObjInv
<1>5. OneOwner'
  <2>1. \A q \in Objs : objs'[q].name = objs[q].name /\ (Live(q)' => Live(q))
    BY <1>1 DEF Live
  <2>2. QED  BY <2>1 DEF OneOwner
<1>6. QED  BY <1>2, <1>3, <1>4, <1>5

\* A step of no task that leaves the objects and the catalog as they are.
LEMMA QuietStep ==
  ASSUME IInv, UNCHANGED <<catalog, objs, resident, lock, task>>, PhaseInv', TodoInv'
  PROVE  OwnershipInv' /\ OneOwner'
<1> USE DEF IInv, OwnershipInv
<1>1. LockInv'
  BY DEF LockInv, InLock
<1>2. \A u \in Tasks : TaskInv(u)'
  BY DEF TaskInv, ResidentAs
<1>3. \A q \in Objs : ObjInv(q)'
  BY DEF ObjInv
<1>4. OneOwner'
  BY DEF OneOwner, Live
<1>5. QED  BY <1>1, <1>2, <1>3, <1>4

\* A new process has no objects and no tasks.
LEMMA ResetStep ==
  ASSUME TypeOK, objs' = [o \in Objs |-> Blank], task' = [t \in Tasks |-> Rest],
         resident' = {}, todo' = {}
  PROVE  OwnershipInv' /\ OneOwner'
<1>1. \A t \in Tasks : task'[t].pc = "idle"
  BY RestType
<1>2. \A o \in Objs : objs'[o].st = "none"
  BY BlankType
<1>3. LockInv' /\ TodoInv'
  BY <1>1 DEF LockInv, InLock, TodoInv, Tasks
<1>4. PhaseInv'
  BY <1>1 DEF PhaseInv, Tasks
<1>5. \A t \in Tasks : TaskInv(t)'
  BY <1>1 DEF TaskInv
<1>6. \A o \in Objs : ObjInv(o)'
  BY <1>2 DEF ObjInv
<1>7. OneOwner'
  BY <1>2 DEF OneOwner, Live
<1>8. QED  BY <1>3, <1>4, <1>5, <1>6, <1>7 DEF OwnershipInv

\* The shutdown begins: no request is left, and the sweeper goes or is dropped.
LEMMA ShutdownBegins ==
  ASSUME IInv, TypeOK', ShutdownStart
  PROVE  OwnershipInv' /\ OneOwner'
<1> USE DEF IInv, OwnershipInv
<1>1. /\ phase = "up" /\ phase' = "closing" /\ todo' = resident
      /\ UNCHANGED <<catalog, objs, resident, lock>>
      /\ \A c \in Clients : task[c].pc = "idle"
      /\ task["sweeper"].pc # "sweeping"
  BY DEF ShutdownStart, disk, memory
<1>2. /\ task["boot"].pc = "idle" /\ task["shutdown"].pc = "idle"
      /\ task["sweeper"].pc # "building"
  BY <1>1, ManagerAssumption DEF PhaseInv, TaskInv, Tasks
<1>3. /\ task'["shutdown"].pc = "closing"
      /\ task'["sweeper"] = IF task["sweeper"].pc = "stopping"
                            THEN [task["sweeper"] EXCEPT !.dropped = TRUE] ELSE Rest
      /\ \A u \in Tasks \ {"shutdown", "sweeper"} : task'[u] = task[u]
  BY DEF ShutdownStart, TypeOK, ObjTypes, TaskTypes, Tasks, Rest
<1>4. /\ task["sweeper"].pc = "stopping" =>
           /\ task'["sweeper"].pc = "stopping" /\ task'["sweeper"].dropped
           /\ task'["sweeper"].obj = task["sweeper"].obj
           /\ task'["sweeper"].op = task["sweeper"].op
           /\ task'["sweeper"].name = task["sweeper"].name
      /\ task["sweeper"].pc # "stopping" => task'["sweeper"].pc = "idle"
  BY <1>3, RestType DEF TypeOK, ObjTypes, TaskTypes, Tasks
<1>5. \A u \in Tasks \ {"shutdown", "sweeper"} : task'[u].pc = "idle"
  BY <1>1, <1>2, <1>3 DEF Tasks
<1>6. LockInv'
  BY <1>1, <1>3, <1>4, <1>5 DEF LockInv, InLock, Tasks
<1>7. PhaseInv'
  BY <1>1, <1>4, <1>5, ManagerAssumption DEF PhaseInv, Tasks
<1>8. TodoInv'
  BY <1>1 DEF TodoInv
<1>9. \A u \in Tasks : TaskInv(u)'
  <2> SUFFICES ASSUME NEW u \in Tasks  PROVE TaskInv(u)'
    OBVIOUS
  <2>1. CASE u \notin {"sweeper", "shutdown"}
    BY <2>1, <1>5 DEF TaskInv
  <2>2. CASE u = "shutdown"
    BY <2>2, <1>3 DEF TaskInv
  <2>3. CASE u = "sweeper"
    <3>1. TaskInv(u)
      OBVIOUS
    <3>2. QED  BY <2>3, <3>1, <1>1, <1>4 DEF TaskInv, ResidentAs
  <2>4. QED  BY <2>1, <2>2, <2>3
<1>10. \A q \in Objs : ObjInv(q)'
  <2> SUFFICES ASSUME NEW q \in Objs  PROVE ObjInv(q)'
    OBVIOUS
  <2>1. ObjInv(q)
    OBVIOUS
  <2>2. objs[q].st # "building"
    BY <2>1, <1>1, <1>2, ManagerAssumption DEF ObjInv, Tasks
  <2>3. objs[q].st = "stopping" =>
          task["sweeper"].pc = "stopping" /\ task["sweeper"].obj = q
    BY <2>1, <1>1, <1>2 DEF ObjInv, Tasks
  <2>4. objs[q].st = "stopping" =>
          \E u \in Tasks : task'[u].pc = "stopping" /\ task'[u].obj = q
    BY <2>3, <1>4 DEF Tasks
  <2>5. QED  BY <2>1, <2>2, <2>4, <1>1 DEF ObjInv
<1>11. OneOwner'
  BY <1>1 DEF OneOwner, Live
<1>12. QED  BY <1>6, <1>7, <1>8, <1>9, <1>10, <1>11

\* The shutdown ends.
LEMMA ShutdownOver ==
  ASSUME IInv, TypeOK', ShutdownEnds
  PROVE  OwnershipInv' /\ OneOwner'
<1> USE DEF IInv, OwnershipInv
<1>1. /\ task["shutdown"].pc = "closing" /\ phase' = "exited" /\ phase = "closing"
      /\ UNCHANGED <<catalog, objs, resident, lock, todo>>
      /\ \A o \in Objs : objs[o].st # "stopping"
  BY DEF ShutdownEnds, disk, memory, sweep, PhaseInv
<1>2. /\ task'["shutdown"].pc = "idle"
      /\ \A u \in Tasks \ {"shutdown"} : task'[u] = task[u]
  BY TaskUpdates, RestType DEF ShutdownEnds, Tasks
<1>3. LockInv'
  BY <1>1, <1>2 DEF LockInv, InLock, Tasks
<1>4. PhaseInv' /\ TodoInv'
  BY <1>1, <1>2, ManagerAssumption DEF PhaseInv, TodoInv, Tasks
<1>5. \A u \in Tasks : TaskInv(u)'
  BY <1>1, <1>2 DEF TaskInv, ResidentAs
<1>6. \A q \in Objs : ObjInv(q)'
  <2> SUFFICES ASSUME NEW q \in Objs  PROVE ObjInv(q)'
    OBVIOUS
  <2>1. ObjInv(q)
    OBVIOUS
  <2>2. objs[q].st = "building" => \E u \in Tasks : task'[u].pc = "building" /\ task'[u].obj = q
    BY <2>1, <1>1, <1>2 DEF ObjInv
  <2>3. QED  BY <2>1, <2>2, <1>1 DEF ObjInv
<1>7. OneOwner'
  BY <1>1 DEF OneOwner, Live
<1>8. QED  BY <1>3, <1>4, <1>5, <1>6, <1>7

-----------------------------------------------------------------------------
\* The types of what the steps are made of.
LEMMA SpendType == \A e \in Events : TypeOK /\ Spend(e) => used' \in [Events -> Nat]
BY DEF TypeOK, Spend

LEMMA UsedType ==
  ASSUME TypeOK, NEW o \in Objs, Used(o)
  PROVE  lastUsed' \in [Objs -> Objs] /\ stale' \subseteq Objs
<1>1. stale' \subseteq Objs
  BY DEF TypeOK, Used
<1>2. ASSUME NEW q \in Objs
      PROVE  (IF q = o THEN Slots
              ELSE IF lastUsed[q] > lastUsed[o] THEN lastUsed[q] - 1
              ELSE lastUsed[q]) \in Objs
  <2>1. lastUsed[q] \in 1..Slots /\ lastUsed[o] \in 1..Slots /\ Slots \in Nat
    BY <1>2, ManagerAssumption DEF TypeOK, Objs
  <2>2. Slots \in 1..Slots
    BY <2>1
  <2>3. lastUsed[q] > lastUsed[o] => lastUsed[q] - 1 \in 1..Slots
    BY <2>1
  <2>4. QED  BY <2>1, <2>2, <2>3 DEF Objs
<1>3. QED  BY <1>1, <1>2 DEF Used

LEMMA MoveTypes ==
  ASSUME TypeOK, NEW t \in Tasks
  PROVE  /\ \A op \in {"none", "touch", "create", "delete", "sweep", "shutdown"},
               pc \in PCs, n \in Names, o \in 0..Slots :
              Starts(t, op, pc, n, o) => task' \in [Tasks -> TaskTypes]
         /\ \A pc \in PCs : Goes(t, pc) => task' \in [Tasks -> TaskTypes]
         /\ \A pc \in PCs, o \in 0..Slots :
              task' = [task EXCEPT ![t].pc = pc, ![t].obj = o] =>
                task' \in [Tasks -> TaskTypes]
         /\ Ends(t) => task' \in [Tasks -> TaskTypes]
<1>1. task \in [Tasks -> TaskTypes] /\ task[t] \in TaskTypes
  BY DEF TypeOK
<1>2. \A r \in TaskTypes :
        task' = [task EXCEPT ![t] = r] => task' \in [Tasks -> TaskTypes]
  BY <1>1
<1>3. ASSUME NEW op \in {"none", "touch", "create", "delete", "sweep", "shutdown"},
             NEW pc \in PCs, NEW n \in Names, NEW o \in 0..Slots,
             Starts(t, op, pc, n, o)
      PROVE  task' \in [Tasks -> TaskTypes]
  BY <1>1, <1>3 DEF Starts, TaskTypes
<1>4. ASSUME NEW pc \in PCs, Goes(t, pc)  PROVE task' \in [Tasks -> TaskTypes]
  BY <1>1, <1>4 DEF Goes, TaskTypes
<1>5. ASSUME NEW pc \in PCs, NEW o \in 0..Slots,
             task' = [task EXCEPT ![t].pc = pc, ![t].obj = o]
      PROVE  task' \in [Tasks -> TaskTypes]
  BY <1>1, <1>5 DEF TaskTypes
<1>6. Ends(t) => task' \in [Tasks -> TaskTypes]
  BY <1>2, RestType DEF Ends
<1>7. QED  BY <1>3, <1>4, <1>5, <1>6

LEMMA ObjsInSlots == Objs \subseteq 0..Slots /\ 0 \in 0..Slots
BY ManagerAssumption DEF Objs

LEMMA EvictTypes ==
  ASSUME TypeOK, NEW t \in Tasks, NEW o \in Objs, Evict(t, o)
  PROVE  /\ resident' \subseteq Objs /\ objs' \in [Objs -> ObjTypes]
         /\ task' \in [Tasks -> TaskTypes]
<1>1. o \in 0..Slots /\ "stopping" \in PCs
  BY ObjsInSlots DEF PCs
<1>2. task' \in [Tasks -> TaskTypes]
  BY <1>1, MoveTypes DEF Evict
<1>3. QED  BY <1>1, <1>2 DEF TypeOK, Evict, ObjTypes, States

LEMMA MakesTypes ==
  ASSUME TypeOK, NEW c \in Clients, NEW n \in Names
  PROVE  /\ MakeFiles(c, n) =>
              /\ creates' \in Nat /\ dir' \in [Names -> Nat] /\ catalog' \in [Names -> Nat]
              /\ task' \in [Tasks -> TaskTypes]
         /\ Makes(c, n) =>
              /\ creates' \in Nat /\ dir' \in [Names -> Nat] /\ catalog' \in [Names -> Nat]
              /\ task' \in [Tasks -> TaskTypes]
<1>1. c \in Tasks /\ "rmtree" \in PCs /\ 0 \in 0..Slots
  BY ObjsInSlots DEF Tasks, PCs
<1>2. MakeFiles(c, n) =>
        /\ creates' \in Nat /\ dir' \in [Names -> Nat] /\ catalog' \in [Names -> Nat]
        /\ task' \in [Tasks -> TaskTypes]
  BY <1>1, MoveTypes DEF MakeFiles, TypeOK
<1>3. ASSUME Makes(c, n), dir[n] # 0
      PROVE  /\ creates' \in Nat /\ dir' \in [Names -> Nat] /\ catalog' \in [Names -> Nat]
             /\ task' \in [Tasks -> TaskTypes]
  <2>1. Starts(c, "create", "rmtree", n, 0) /\ UNCHANGED <<catalog, dir, creates>>
    BY <1>3 DEF Makes
  <2>2. QED  BY <1>1, <2>1, MoveTypes DEF TypeOK
<1>4. QED  BY <1>2, <1>3 DEF Makes

LEMMA TouchTypes ==
  ASSUME IInv, NEW t \in Clients \cup {"boot"}, TouchStep(t)
  PROVE  TypeOK'
<1> USE DEF TypeOK, disk, memory, sweep
<1> DEFINE o == task[t].obj
<1>1. /\ t \in Tasks /\ TypeOK
      /\ task[t].name \in Names /\ task[t].obj \in 0..Slots
  BY DEF IInv, Tasks, TaskTypes
<1>2. CASE TouchFinds(t)
  <2>1. PICK q \in ResidentAs(task[t].name) :
          Used(q) /\ task' = [task EXCEPT ![t].pc = "have", ![t].obj = q]
    BY <1>2 DEF TouchFinds
  <2>2. q \in Objs /\ q \in 0..Slots /\ "have" \in PCs
    BY <1>1, ObjsInSlots DEF ResidentAs, PCs
  <2>3. task' \in [Tasks -> TaskTypes]
    BY <1>1, <2>1, <2>2, MoveTypes
  <2>4. lastUsed' \in [Objs -> Objs] /\ stale' \subseteq Objs
    BY <1>1, <2>1, <2>2, UsedType
  <2>5. QED  BY <1>1, <1>2, <2>3, <2>4 DEF TouchFinds
<1>3. CASE TouchMisses(t)
  <2>1. task' \in [Tasks -> TaskTypes]
    BY <1>1, <1>3, MoveTypes DEF TouchMisses
  <2>2. QED  BY <1>1, <1>3, <2>1 DEF TouchMisses
<1>4. CASE TouchEvicts(t)
  <2>1. PICK q \in Objs : Evict(t, q)
    BY <1>1, <1>4 DEF TouchEvicts
  <2>2. QED  BY <1>1, <1>4, <2>1, EvictTypes DEF TouchEvicts
<1>5. CASE TouchEvicted(t)
  <2>1. "inside" \in PCs /\ 0 \in 0..Slots
    BY ObjsInSlots DEF PCs
  <2>2. task' \in [Tasks -> TaskTypes]
    BY <1>1, <1>5, <2>1, MoveTypes DEF TouchEvicted
  <2>3. QED  BY <1>1, <1>5, <2>2 DEF TouchEvicted
<1>6. CASE TouchBuilds(t)
  <2>1. PICK q \in Objs :
          /\ objs' = [objs EXCEPT ![q] = [name |-> task[t].name, made |-> 0,
                                          row |-> catalog[task[t].name],
                                          st |-> "building"]]
          /\ task' = [task EXCEPT ![t].pc = "building", ![t].obj = q]
    BY <1>6 DEF TouchBuilds
  <2>2. q \in 0..Slots /\ "building" \in PCs
    BY ObjsInSlots DEF PCs
  <2>3. task' \in [Tasks -> TaskTypes]
    BY <1>1, <2>1, <2>2, MoveTypes
  <2>4. objs' \in [Objs -> ObjTypes]
    BY <1>1, <2>1 DEF ObjTypes, States
  <2>5. QED  BY <1>1, <1>6, <2>3, <2>4 DEF TouchBuilds
<1>7. CASE BuildEnds(t)
  <2>1. o \in Objs
    BY <1>1, <1>7 DEF BuildEnds, IInv, OwnershipInv, TaskInv
  <2>2. lastUsed' \in [Objs -> Objs] /\ stale' \subseteq Objs
    BY <1>1, <1>7, <2>1, UsedType DEF BuildEnds
  <2>3. task' \in [Tasks -> TaskTypes] /\ resident' \subseteq Objs
    <3>1. Goes(t, "have") \/ Ends(t)
      BY <1>7 DEF BuildEnds, Built
    <3>2. QED  BY <1>1, <1>7, <2>1, <3>1, MoveTypes DEF BuildEnds, Built, PCs
  <2>4. objs' \in [Objs -> ObjTypes]
    BY <1>1, <1>7, ZenonT(40) DEF BuildEnds, ObjTypes, States
  <2>5. QED  BY <1>1, <1>7, <2>2, <2>3, <2>4 DEF BuildEnds
<1>8. CASE BuildFails(t)
  <2>1. task' \in [Tasks -> TaskTypes]
    BY <1>1, <1>8, MoveTypes DEF BuildFails
  <2>2. used' \in [Events -> Nat]
    BY <1>1, <1>8, SpendType DEF BuildFails, Events
  <2>3. objs' \in [Objs -> ObjTypes]
    BY <1>1, <1>8 DEF BuildFails, ObjTypes, States
  <2>4. QED  BY <1>1, <1>8, <2>1, <2>2, <2>3 DEF BuildFails
<1>9. CASE Release(t)
  <2>1. task' \in [Tasks -> TaskTypes]
    BY <1>1, <1>9, MoveTypes DEF Release
  <2>2. QED  BY <1>1, <1>9, <2>1 DEF Release
<1>10. QED
  BY <1>2, <1>3, <1>4, <1>5, <1>6, <1>7, <1>8, <1>9 DEF TouchStep

LEMMA RequestTypes ==
  ASSUME TypeOK, NEW c \in Clients, RequestStep(c)
  PROVE  TypeOK'
<1> USE DEF TypeOK, disk, memory, sweep
<1>1. /\ c \in Tasks /\ TypeOK /\ task[c].name \in Names
      /\ {"rmtree", "mkdir"} \subseteq PCs /\ 0 \in 0..Slots
  BY ObjsInSlots DEF Tasks, TaskTypes, PCs
<1>2. CASE DeleteEvicts(c)
  <2>1. PICK q \in ResidentAs(task[c].name) : Evict(c, q)
    BY <1>2 DEF DeleteEvicts
  <2>2. q \in Objs
    BY <1>1 DEF ResidentAs
  <2>3. QED  BY <1>1, <1>2, <2>1, <2>2, EvictTypes DEF DeleteEvicts
<1>3. CASE DeleteRow(c)
  <2>1. task' \in [Tasks -> TaskTypes]
    BY <1>1, <1>3, MoveTypes DEF DeleteRow
  <2>2. QED  BY <1>1, <1>3, <2>1 DEF DeleteRow
<1>4. CASE DeleteAbandoned(c)
  <2>1. task' \in [Tasks -> TaskTypes]
    BY <1>1, <1>4, MoveTypes DEF DeleteAbandoned
  <2>2. QED  BY <1>1, <1>4, <2>1 DEF DeleteAbandoned
<1>5. CASE RemoveFiles(c)
  <2>1. task' \in [Tasks -> TaskTypes]
    BY <1>1, <1>5, MoveTypes DEF RemoveFiles
  <2>2. used' \in [Events -> Nat]
    BY <1>1, <1>5, SpendType DEF RemoveFiles, Events
  <2>3. dir' \in [Names -> Nat]
    BY <1>1, <1>5 DEF RemoveFiles, Spend
  <2>4. QED  BY <1>1, <1>5, <2>1, <2>2, <2>3 DEF RemoveFiles
<1>6. CASE ProbeEnds(c)
  <2>1. CASE Makes(c, task[c].name) /\ UNCHANGED used
    BY <1>1, <1>6, <2>1, MakesTypes DEF ProbeEnds
  <2>2. CASE Ends(c) /\ Spend("fault") /\ UNCHANGED <<catalog, dir, creates>>
    <3>1. task' \in [Tasks -> TaskTypes] /\ used' \in [Events -> Nat]
      BY <1>1, <2>2, MoveTypes, SpendType DEF Events
    <3>2. QED  BY <1>1, <1>6, <2>2, <3>1 DEF ProbeEnds
  <2>3. QED  BY <1>6, <2>1, <2>2 DEF ProbeEnds
<1>7. CASE RemoveLeftover(c)
  <2>1. task' \in [Tasks -> TaskTypes]
    BY <1>1, <1>7, MoveTypes DEF RemoveLeftover
  <2>2. QED  BY <1>1, <1>7, <2>1 DEF RemoveLeftover
<1>8. CASE MakeDirectory(c)
  <2>1. CASE MakeFiles(c, task[c].name)
    BY <1>1, <1>8, <2>1, MakesTypes DEF MakeDirectory
  <2>2. CASE Ends(c) /\ UNCHANGED <<catalog, dir, creates>>
    <3>1. task' \in [Tasks -> TaskTypes]
      BY <1>1, <2>2, MoveTypes
    <3>2. QED  BY <1>1, <1>8, <2>2, <3>1 DEF MakeDirectory
  <2>3. QED  BY <1>8, <2>1, <2>2 DEF MakeDirectory
<1>9. QED
  BY <1>2, <1>3, <1>4, <1>5, <1>6, <1>7, <1>8 DEF RequestStep

\* What clients start, use and cancel.
ClientStep(c) ==
  \/ \E n \in Names : Touch(c, n) \/ Delete(c, n) \/ Create(c, n)
  \/ Enqueue(c) \/ Cancel(c)

LEMMA ClientTypes ==
  ASSUME IInv, NEW c \in Clients, ClientStep(c)
  PROVE  TypeOK'
<1> USE DEF TypeOK, disk, memory, sweep
<1>1. /\ c \in Tasks /\ TypeOK /\ task[c].name \in Names
      /\ {"lock", "have", "probe"} \subseteq PCs /\ 0 \in 0..Slots
      /\ Objs \subseteq 0..Slots
  BY ObjsInSlots DEF IInv, Tasks, TaskTypes, PCs
<1>2. ASSUME NEW n \in Names, Touch(c, n)  PROVE TypeOK'
  <2>1. CASE ResidentAs(n) # {}
    <3>1. PICK q \in ResidentAs(n) : Used(q) /\ Starts(c, "touch", "have", n, q)
      BY <1>2, <2>1 DEF Touch
    <3>2. q \in Objs
      BY <1>1 DEF ResidentAs
    <3>3. task' \in [Tasks -> TaskTypes]
      BY <1>1, <3>1, <3>2, MoveTypes
    <3>4. lastUsed' \in [Objs -> Objs] /\ stale' \subseteq Objs
      BY <1>1, <3>1, <3>2, UsedType
    <3>5. QED  BY <1>1, <1>2, <3>3, <3>4 DEF Touch
  <2>2. CASE ResidentAs(n) = {}
    <3>1. Starts(c, "touch", "lock", n, 0) /\ UNCHANGED <<lastUsed, stale>>
      BY <1>2, <2>2 DEF Touch
    <3>2. task' \in [Tasks -> TaskTypes]
      BY <1>1, <3>1, MoveTypes
    <3>3. QED  BY <1>1, <1>2, <3>1, <3>2 DEF Touch
  <2>3. QED  BY <2>1, <2>2
<1>3. ASSUME NEW n \in Names, Delete(c, n)  PROVE TypeOK'
  <2>1. task' \in [Tasks -> TaskTypes]
    BY <1>1, <1>3, MoveTypes DEF Delete
  <2>2. QED  BY <1>1, <1>3, <2>1 DEF Delete
<1>4. ASSUME NEW n \in Names, Create(c, n)  PROVE TypeOK'
  <2>1. CASE ProbesDim
    <3>1. task' \in [Tasks -> TaskTypes]
      BY <1>1, <1>4, <2>1, MoveTypes DEF Create
    <3>2. QED  BY <1>1, <1>4, <2>1, <3>1 DEF Create
  <2>2. CASE ~ProbesDim
    BY <1>1, <1>4, <2>2, MakesTypes DEF Create
  <2>3. QED  BY <2>1, <2>2
<1>5. CASE Enqueue(c)
  <2>1. task[c].obj \in Objs
    BY <1>1, <1>5 DEF Enqueue, IInv, OwnershipInv, TaskInv
  <2>2. objs[task[c].obj].made \in Nat
    BY <1>1, <2>1 DEF ObjTypes
  <2>3. task' \in [Tasks -> TaskTypes] /\ used' \in [Events -> Nat]
    BY <1>1, <1>5, MoveTypes, SpendType DEF Enqueue, Events
  <2>4. QED  BY <1>1, <1>5, <2>2, <2>3 DEF Enqueue
<1>6. CASE Cancel(c)
  <2>1. used' \in [Events -> Nat]
    BY <1>1, <1>6, SpendType DEF Cancel, Events
  <2>2. task' \in [Tasks -> TaskTypes]
    <3>1. CASE Ends(c)
      BY <1>1, <3>1, MoveTypes
    <3>2. CASE task' = [task EXCEPT ![c].dropped = TRUE]
      BY <1>1, <3>2, ZenonT(40) DEF TaskTypes
    <3>3. QED  BY <1>6, <3>1, <3>2 DEF Cancel
  <2>3. QED  BY <1>1, <1>6, <2>1, <2>2 DEF Cancel
<1>7. QED
  BY <1>2, <1>3, <1>4, <1>5, <1>6 DEF ClientStep

\* The collections' own steps, the orphaned threads and the sweep.
LEMMA OtherTypes ==
  ASSUME TypeOK,
         \/ \E o \in Objs : FinishJobs(o) \/ StopEnds(o)
         \/ \E n \in Names : OrphanRemoves(n)
         \/ SweepStart \/ Sweeper
  PROVE  TypeOK'
<1> USE DEF TypeOK, disk, memory, sweep
<1>1. /\ "sweeper" \in Tasks /\ TypeOK
      /\ {"lock", "sweeping"} \subseteq PCs /\ 0 \in 0..Slots
  BY ObjsInSlots DEF Tasks, PCs
<1>2. ASSUME NEW o \in Objs, FinishJobs(o)  PROVE TypeOK'
  BY <1>1, <1>2 DEF FinishJobs
<1>3. ASSUME NEW o \in Objs, StopEnds(o)  PROVE TypeOK'
  <2>1. objs' \in [Objs -> ObjTypes]
    BY <1>1, <1>3 DEF StopEnds, ObjTypes, States
  <2>2. QED  BY <1>1, <1>3, <2>1 DEF StopEnds
<1>4. ASSUME NEW n \in Names, OrphanRemoves(n)  PROVE TypeOK'
  BY <1>1, <1>4 DEF OrphanRemoves
<1>5. CASE SweepStart
  <2>1. [Rest EXCEPT !.op = "sweep", !.pc = "lock"] \in TaskTypes
    BY <1>1, RestType DEF TaskTypes
  <2>2. task' \in [Tasks -> TaskTypes] /\ used' \in [Events -> Nat]
    BY <1>1, <1>5, <2>1, SpendType DEF SweepStart, Events
  <2>3. QED  BY <1>1, <1>5, <2>2 DEF SweepStart
<1>6. CASE SweepEnters
  <2>1. task' \in [Tasks -> TaskTypes]
    BY <1>1, <1>6, MoveTypes DEF SweepEnters
  <2>2. QED  BY <1>1, <1>6, <2>1 DEF SweepEnters
<1>7. CASE SweepVisits
  <2>1. PICK q \in Objs :
          /\ todo' = todo \ {q}
          /\ IF q \in stale /\ NoPendingJobs(q) THEN Evict("sweeper", q)
             ELSE UNCHANGED <<objs, resident, task>>
    BY <1>7 DEF SweepVisits
  <2>2. CASE Evict("sweeper", q)
    <3>1. /\ resident' \subseteq Objs /\ objs' \in [Objs -> ObjTypes]
          /\ task' \in [Tasks -> TaskTypes]
      BY <1>1, <2>2, EvictTypes
    <3>2. QED  BY <1>1, <1>7, <2>1, <3>1 DEF SweepVisits
  <2>3. CASE UNCHANGED <<objs, resident, task>>
    BY <1>1, <1>7, <2>1, <2>3 DEF SweepVisits
  <2>4. QED  BY <2>1, <2>2, <2>3
<1>8. CASE SweepEvicted
  <2>1. task' \in [Tasks -> TaskTypes]
    BY <1>1, <1>8, MoveTypes DEF SweepEvicted
  <2>2. QED  BY <1>1, <1>8, <2>1 DEF SweepEvicted
<1>9. CASE SweepEnds
  <2>1. task' \in [Tasks -> TaskTypes]
    BY <1>1, <1>9, MoveTypes DEF SweepEnds
  <2>2. QED  BY <1>1, <1>9, <2>1 DEF SweepEnds
<1>10. QED
  BY <1>2, <1>3, <1>4, <1>5, <1>6, <1>7, <1>8, <1>9 DEF Sweeper

\* The shutdown, the crash and the boot.
LEMMA ProcessTypes ==
  ASSUME TypeOK, ShutdownStart \/ Shutdown \/ Crash \/ Boot \/ Booting
  PROVE  TypeOK'
<1> USE DEF TypeOK, disk, memory, sweep
<1>1. /\ {"sweeper", "shutdown", "boot"} \subseteq Tasks /\ TypeOK
      /\ {"lock", "closing"} \subseteq PCs /\ 0 \in 0..Slots
  BY ObjsInSlots DEF Tasks, PCs
<1>2. CASE ShutdownStart
  <2>1. /\ [Rest EXCEPT !.op = "shutdown", !.pc = "closing"] \in TaskTypes
        /\ [task["sweeper"] EXCEPT !.dropped = TRUE] \in TaskTypes
    BY <1>1, RestType DEF TaskTypes
  <2>2. task' \in [Tasks -> TaskTypes]
    BY <1>1, <1>2, <2>1, RestType DEF ShutdownStart
  <2>3. used' \in [Events -> Nat]
    BY <1>1, <1>2, SpendType DEF ShutdownStart, Events
  <2>4. QED  BY <1>1, <1>2, <2>2, <2>3 DEF ShutdownStart
<1>3. CASE ShutdownEvicts
  <2>1. PICK q \in Objs : todo' = todo \ {q} /\ Evict("shutdown", q)
    BY <1>1, <1>3 DEF ShutdownEvicts
  <2>2. /\ resident' \subseteq Objs /\ objs' \in [Objs -> ObjTypes]
        /\ task' \in [Tasks -> TaskTypes]
    BY <1>1, <2>1, EvictTypes
  <2>3. QED  BY <1>1, <1>3, <2>1, <2>2 DEF ShutdownEvicts
<1>4. CASE ShutdownEvicted
  <2>1. task' \in [Tasks -> TaskTypes]
    BY <1>1, <1>4, MoveTypes DEF ShutdownEvicted
  <2>2. QED  BY <1>1, <1>4, <2>1 DEF ShutdownEvicted
<1>5. CASE ShutdownEnds
  <2>1. task' \in [Tasks -> TaskTypes]
    BY <1>1, <1>5, MoveTypes DEF ShutdownEnds
  <2>2. QED  BY <1>1, <1>5, <2>1 DEF ShutdownEnds
<1>6. CASE Crash
  <2>1. used' \in [Events -> Nat]
    BY <1>1, <1>6, SpendType DEF Crash, Events
  <2>2. creates' \in Nat /\ dir' \in [Names -> Nat]
    BY <1>1, <1>6 DEF Crash
  <2>3. objs' \in [Objs -> ObjTypes] /\ task' \in [Tasks -> TaskTypes]
    BY <1>6, BlankType, RestType DEF Crash
  <2>4. QED  BY <1>1, <1>6, <2>1, <2>2, <2>3 DEF Crash
<1>7. CASE Boot
  <2>1. objs' \in [Objs -> ObjTypes] /\ task' \in [Tasks -> TaskTypes]
    BY <1>7, BlankType, RestType DEF Boot
  <2>2. QED  BY <1>1, <1>7, <2>1 DEF Boot
<1>8. CASE BootVisits
  <2>1. PICK n \in toResume :
          /\ toResume' = toResume \ {n}
          /\ \/ Starts("boot", "touch", "lock", n, 0)
             \/ UNCHANGED task
          /\ phase' = IF dir[n] = 0 THEN "failed" ELSE phase
    BY <1>8 DEF BootVisits
  <2>2. task' \in [Tasks -> TaskTypes]
    BY <1>1, <2>1, MoveTypes
  <2>3. QED  BY <1>1, <1>8, <2>1, <2>2 DEF BootVisits
<1>9. CASE BootEnds
  BY <1>1, <1>9 DEF BootEnds
<1>10. QED
  BY <1>2, <1>3, <1>4, <1>5, <1>6, <1>7, <1>8, <1>9 DEF Shutdown, Booting

LEMMA TypeStep == IInv /\ [Next]_vars => TypeOK'
<1> SUFFICES ASSUME IInv, [Next]_vars  PROVE TypeOK'
  OBVIOUS
<1>1. TypeOK
  BY DEF IInv
<1>2. CASE UNCHANGED vars
  BY <1>1, <1>2 DEF TypeOK, vars, disk, memory, sweep
<1>3. ASSUME NEW c \in Clients, RequestStep(c) \/ ClientStep(c)  PROVE TypeOK'
  BY <1>1, <1>3, RequestTypes, ClientTypes
<1>4. ASSUME NEW t \in Clients \cup {"boot"}, TouchStep(t)  PROVE TypeOK'
  BY <1>4, TouchTypes
<1>5. CASE \/ \E o \in Objs : FinishJobs(o) \/ StopEnds(o)
           \/ \E n \in Names : OrphanRemoves(n)
           \/ SweepStart \/ Sweeper
  BY <1>1, <1>5, OtherTypes
<1>6. CASE ShutdownStart \/ Shutdown \/ Crash \/ Boot \/ Booting
  BY <1>1, <1>6, ProcessTypes
<1>7. QED  BY <1>2, <1>3, <1>4, <1>5, <1>6 DEF Next, ClientStep

-----------------------------------------------------------------------------
\* A request or the boot evicts inside the lock, where no sweep is under way.
LEMMA RequestEvicts ==
  ASSUME IInv, NEW t \in Clients \cup {"boot"}, NEW o \in resident, Evict(t, o),
         Inside(t), lock' = t, UNCHANGED <<catalog, todo, phase>>,
         t \in Clients /\ task[t].op = "delete" => objs[o].name = task[t].name
  PROVE  OwnershipInv' /\ OneOwner'
<1>1. /\ t \in Tasks /\ t \notin {"sweeper", "shutdown"}
      /\ task[t].pc \in {"lock", "inside"} /\ lock \in {t, "free"}
  BY ManagerAssumption DEF Tasks, Inside
<1>2. phase # "closing"
  BY <1>1 DEF IInv, OwnershipInv, PhaseInv
<1>3. TodoInv'
  <2>1. ~InLock("sweeper") /\ task["shutdown"].pc = "idle"
    BY <1>1, <1>2, AloneInLock DEF IInv, OwnershipInv, PhaseInv, Tasks
  <2>2. task'["sweeper"] = task["sweeper"] /\ task'["shutdown"] = task["shutdown"]
    BY <1>1 DEF Evict, IInv, TypeOK, Tasks
  <2>3. QED  BY <2>1, <2>2 DEF TodoInv, InLock
<1>4. QED  BY <1>1, <1>3, EvictStep

LEMMA TouchKeepsInv ==
  ASSUME IInv, TypeOK', NEW t \in Clients \cup {"boot"}, TouchStep(t)
  PROVE  OwnershipInv' /\ OneOwner'
<1> USE DEF disk, memory, sweep
<1>1. /\ t \in Tasks /\ TypeOK
      /\ Ends(t) => task'[t].pc = "idle" /\ \A u \in Tasks \ {t} : task'[u] = task[u]
      /\ Inside(t) => task[t].pc \in {"lock", "inside"} /\ lock \in {t, "free"}
  BY TaskUpdates, RestType DEF IInv, Tasks, Inside
<1>2. CASE TouchFinds(t)
  <2>1. PICK q \in ResidentAs(task[t].name) :
          task' = [task EXCEPT ![t].pc = "have", ![t].obj = q]
    BY <1>2 DEF TouchFinds
  <2>2. /\ q \in Objs /\ task'[t].pc = "have" /\ task'[t].obj = q
        /\ \A u \in Tasks \ {t} : task'[u] = task[u]
    BY <1>1, <2>1 DEF ResidentAs, TypeOK, TaskTypes
  <2>3. QED
    BY <1>1, <1>2, <2>2, RequestFrame DEF TouchFinds, Touching
<1>3. CASE TouchMisses(t)
  BY <1>1, <1>3, RequestFrame DEF TouchMisses, Touching
<1>4. CASE TouchEvicts(t)
  <2>1. PICK q \in resident : Evict(t, q)
    BY <1>4 DEF TouchEvicts
  <2>2. QED
    BY <1>4, <2>1, RequestEvicts DEF TouchEvicts, Loads, Touching
<1>5. CASE TouchEvicted(t)
  <2>1. task[t].pc = "stopping" /\ objs[task[t].obj].st = "closed" /\ lock = t
    BY <1>1, <1>5, ManagerAssumption
    DEF TouchEvicted, StopAwaited, IInv, OwnershipInv, LockInv, InLock, Tasks
  <2>2. /\ \/ task'[t].pc = "idle" /\ lock' = "free"
           \/ task'[t].pc = "inside" /\ lock' = lock
        /\ \A u \in Tasks \ {t} : task'[u] = task[u]
    <3>1. CASE Ends(t) /\ lock' = "free"
      BY <1>1, <3>1
    <3>2. CASE /\ task' = [task EXCEPT ![t].pc = "inside", ![t].obj = 0]
               /\ UNCHANGED lock
      BY <1>1, <3>2 DEF TypeOK, TaskTypes
    <3>3. QED  BY <1>5, <3>1, <3>2 DEF TouchEvicted
  <2>3. QED
    BY <1>5, <2>1, <2>2, RequestFrame DEF TouchEvicted
<1>6. CASE TouchBuilds(t)
  BY <1>6, BuildsStep
<1>7. CASE BuildEnds(t)
  BY <1>7, BuiltStep
<1>8. CASE BuildFails(t)
  BY <1>8, FailsStep
<1>9. CASE Release(t)
  BY <1>1, <1>9, RequestFrame DEF Release
<1>10. QED
  BY <1>2, <1>3, <1>4, <1>5, <1>6, <1>7, <1>8, <1>9 DEF TouchStep

\* A create gives a row to a name that has none, hence to no loaded collection.
LEMMA MakesFrame ==
  ASSUME IInv, NEW c \in Clients, NEW n \in Names, Makes(c, n) \/ MakeFiles(c, n)
  PROVE  /\ task'[c].pc \in {"idle", "rmtree"}
         /\ \A u \in Tasks \ {c} : task'[u] = task[u]
         /\ \A o \in Objs : objs[o].st \in {"building", "open"} =>
              catalog'[objs[o].name] = catalog[objs[o].name]
<1>1. c \in Tasks /\ TypeOK
  BY DEF IInv, Tasks
<1>2. \/ Ends(c) /\ catalog' = IF catalog[n] = 0 THEN [catalog EXCEPT ![n] = creates']
                               ELSE catalog
      \/ Starts(c, "create", "rmtree", n, 0) /\ UNCHANGED catalog
  BY DEF Makes, MakeFiles
<1>3. /\ task'[c].pc \in {"idle", "rmtree"}
      /\ \A u \in Tasks \ {c} : task'[u] = task[u]
  <2>1. CASE Ends(c)
    BY <1>1, <2>1, TaskUpdates, RestType
  <2>2. CASE Starts(c, "create", "rmtree", n, 0)
    <3>1. /\ task'[c] = [op |-> "create", pc |-> "rmtree", name |-> n, obj |-> 0,
                         dropped |-> FALSE]
          /\ \A u \in Tasks \ {c} : task'[u] = task[u]
      BY <1>1, <2>2, TaskUpdates
    <3>2. QED  BY <3>1
  <2>3. QED  BY <1>2, <2>1, <2>2
<1>4. ASSUME NEW o \in Objs, objs[o].st \in {"building", "open"}
      PROVE  catalog'[objs[o].name] = catalog[objs[o].name]
  <2>1. catalog[objs[o].name] # 0
    BY <1>4, Catalogued
  <2>2. QED  BY <1>1, <1>2, <2>1 DEF TypeOK, ObjTypes
<1>5. QED  BY <1>3, <1>4

\* The row that goes is that of no loaded collection: inside the lock, none of
\* that name is resident, and none is being built.
LEMMA RowGoes ==
  ASSUME IInv, NEW c \in Clients, DeleteRow(c)
  PROVE  /\ task[c].pc \notin {"building", "idle"} /\ lock \in {c, "free"}
         /\ task[c].pc = "stopping" => objs[task[c].obj].st = "closed"
         /\ \A o \in Objs : objs[o].st \in {"building", "open"} =>
              catalog'[objs[o].name] = catalog[objs[o].name]
<1>1. c \in Tasks /\ TypeOK /\ c # "shutdown"
  BY ManagerAssumption DEF IInv, Tasks
<1>2. /\ task[c].pc \in {"lock", "inside", "stopping"} /\ lock \in {c, "free"}
      /\ task[c].pc = "stopping" => objs[task[c].obj].st = "closed"
      /\ ResidentAs(task[c].name) = {}
      /\ catalog' = [catalog EXCEPT ![task[c].name] = 0]
  <2>1. TaskInv(c) /\ (InLock(c) => lock = c)
    BY <1>1 DEF IInv, OwnershipInv, LockInv
  <2>2. QED
    BY <2>1, <1>1 DEF DeleteRow, Deleting, Inside, StopAwaited, TaskInv, InLock
<1>3. ASSUME NEW o \in Objs, objs[o].st \in {"building", "open"}
      PROVE  catalog'[objs[o].name] = catalog[objs[o].name]
  <2>1. objs[o].st = "open"
    BY <1>1, <1>2, <1>3, AloneInLock
  <2>2. o \in resident /\ objs[o].name # task[c].name
    BY <1>2, <2>1 DEF IInv, OwnershipInv, ObjInv, ResidentAs
  <2>3. QED  BY <1>1, <1>2, <2>2 DEF TypeOK
<1>4. QED  BY <1>2, <1>3

LEMMA RequestKeepsInv ==
  ASSUME IInv, NEW c \in Clients, RequestStep(c)
  PROVE  OwnershipInv' /\ OneOwner'
<1> USE DEF disk, memory, sweep
<1>1. /\ c \in Tasks /\ TypeOK /\ task[c].name \in Names /\ c # "shutdown"
      /\ Ends(c) => task'[c].pc = "idle" /\ \A u \in Tasks \ {c} : task'[u] = task[u]
  BY TaskUpdates, RestType, ManagerAssumption DEF IInv, TypeOK, TaskTypes, Tasks
<1>2. CASE DeleteEvicts(c)
  <2>1. PICK q \in ResidentAs(task[c].name) : Evict(c, q)
    BY <1>2 DEF DeleteEvicts
  <2>2. q \in resident /\ objs[q].name = task[c].name
    BY DEF ResidentAs
  <2>3. QED
    BY <1>2, <2>1, <2>2, RequestEvicts DEF DeleteEvicts, Deleting
<1>3. CASE DeleteRow(c)
  <2>1. task'[c].pc = "rmtree" /\ \A u \in Tasks \ {c} : task'[u] = task[u]
    BY <1>1, <1>3 DEF DeleteRow, TypeOK, TaskTypes
  <2>2. QED
    BY <1>3, <2>1, RowGoes, RequestFrame DEF DeleteRow
<1>4. CASE DeleteAbandoned(c)
  <2>1. task[c].pc = "stopping" /\ objs[task[c].obj].st = "closed" /\ lock = c
    BY <1>1, <1>4 DEF DeleteAbandoned, StopAwaited, IInv, OwnershipInv, LockInv, InLock
  <2>2. QED
    BY <1>1, <1>4, <2>1, RequestFrame DEF DeleteAbandoned
<1>5. CASE RemoveFiles(c)
  BY <1>1, <1>5, RequestFrame DEF RemoveFiles
<1>6. CASE ProbeEnds(c)
  <2>1. CASE Makes(c, task[c].name)
    BY <1>1, <1>6, <2>1, MakesFrame, RequestFrame DEF ProbeEnds
  <2>2. CASE Ends(c) /\ UNCHANGED catalog
    BY <1>1, <1>6, <2>2, RequestFrame DEF ProbeEnds
  <2>3. QED  BY <1>6, <2>1, <2>2 DEF ProbeEnds
<1>7. CASE RemoveLeftover(c)
  <2>1. /\ task'[c].pc \in {"idle", "mkdir"} /\ \A u \in Tasks \ {c} : task'[u] = task[u]
    <3>1. CASE Ends(c)
      BY <1>1, <3>1
    <3>2. CASE Goes(c, "mkdir")
      <4>1. /\ task'[c] = [task[c] EXCEPT !.pc = "mkdir"]
            /\ \A u \in Tasks \ {c} : task'[u] = task[u]
        BY <1>1, <3>2, TaskUpdates
      <4>2. QED  BY <1>1, <4>1 DEF TypeOK, TaskTypes
    <3>3. QED  BY <1>7, <3>1, <3>2 DEF RemoveLeftover
  <2>2. QED
    BY <1>7, <2>1, RequestFrame DEF RemoveLeftover
<1>8. CASE MakeDirectory(c)
  <2>1. CASE MakeFiles(c, task[c].name)
    BY <1>1, <1>8, <2>1, MakesFrame, RequestFrame DEF MakeDirectory
  <2>2. CASE Ends(c) /\ UNCHANGED catalog
    BY <1>1, <1>8, <2>2, RequestFrame DEF MakeDirectory
  <2>3. QED  BY <1>8, <2>1, <2>2 DEF MakeDirectory
<1>9. QED
  BY <1>2, <1>3, <1>4, <1>5, <1>6, <1>7, <1>8 DEF RequestStep

\* Cancelled while it waits for a build or a stop(): it is dropped and waits on.
LEMMA DropStep ==
  ASSUME IInv, NEW c \in Clients, task[c].pc # "idle",
         task' = [task EXCEPT ![c].dropped = TRUE],
         UNCHANGED <<catalog, objs, resident, lock, todo, phase>>
  PROVE  OwnershipInv' /\ OneOwner'
<1> USE DEF IInv, OwnershipInv
<1>1. c \in Tasks /\ c \notin {"boot", "sweeper", "shutdown"}
  BY ManagerAssumption DEF Tasks
<1>2. \A u \in Tasks : /\ task'[u].pc = task[u].pc /\ task'[u].op = task[u].op
                       /\ task'[u].name = task[u].name /\ task'[u].obj = task[u].obj
                       /\ u # c => task'[u] = task[u]
  BY <1>1 DEF TypeOK, TaskTypes
<1>3. LockInv'
  BY <1>2 DEF LockInv, InLock
<1>4. PhaseInv' /\ TodoInv'
  BY <1>1, <1>2 DEF PhaseInv, TodoInv, Tasks
<1>5. \A u \in Tasks : TaskInv(u)'
  BY <1>2 DEF TaskInv, ResidentAs
<1>6. \A q \in Objs : ObjInv(q)'
  <2> SUFFICES ASSUME NEW q \in Objs  PROVE ObjInv(q)'
    OBVIOUS
  <2>1. ObjInv(q)
    OBVIOUS
  <2>2. QED  BY <2>1, <1>2 DEF ObjInv
<1>7. OneOwner'
  BY DEF OneOwner, Live
<1>8. QED  BY <1>3, <1>4, <1>5, <1>6, <1>7

LEMMA ClientKeepsInv ==
  ASSUME IInv, NEW c \in Clients, ClientStep(c)
  PROVE  OwnershipInv' /\ OneOwner'
<1> USE DEF disk, memory, sweep
<1>1. /\ c \in Tasks /\ TypeOK
      /\ Ends(c) => task'[c].pc = "idle" /\ \A u \in Tasks \ {c} : task'[u] = task[u]
      /\ \A op, pc, n, o : Starts(c, op, pc, n, o) =>
           /\ task'[c].pc = pc /\ task'[c].obj = o
           /\ \A u \in Tasks \ {c} : task'[u] = task[u]
  <2>1. c \in Tasks /\ TypeOK
    BY DEF IInv, Tasks
  <2>2. Ends(c) => task'[c].pc = "idle" /\ \A u \in Tasks \ {c} : task'[u] = task[u]
    BY <2>1, TaskUpdates, RestType
  <2>3. ASSUME NEW op, NEW pc, NEW n, NEW o, Starts(c, op, pc, n, o)
        PROVE  /\ task'[c].pc = pc /\ task'[c].obj = o
               /\ \A u \in Tasks \ {c} : task'[u] = task[u]
    <3>1. /\ task'[c] = [op |-> op, pc |-> pc, name |-> n, obj |-> o, dropped |-> FALSE]
          /\ \A u \in Tasks \ {c} : task'[u] = task[u]
      BY <2>1, <2>3, TaskUpdates
    <3>2. QED  BY <3>1
  <2>4. QED  BY <2>1, <2>2, <2>3
<1>2. ASSUME NEW n \in Names, Touch(c, n)  PROVE OwnershipInv' /\ OneOwner'
  <2>1. CASE ResidentAs(n) # {}
    <3>1. PICK q \in ResidentAs(n) : Starts(c, "touch", "have", n, q)
      BY <1>2, <2>1 DEF Touch
    <3>2. q \in Objs
      BY <1>1 DEF ResidentAs, TypeOK
    <3>3. /\ task'[c].pc = "have" /\ task'[c].obj = q
          /\ \A u \in Tasks \ {c} : task'[u] = task[u]
      BY <1>1, <3>1
    <3>4. QED  BY <1>2, <3>2, <3>3, RequestFrame DEF Touch
  <2>2. CASE ResidentAs(n) = {}
    <3>1. task'[c].pc = "lock" /\ \A u \in Tasks \ {c} : task'[u] = task[u]
      BY <1>1, <1>2, <2>2 DEF Touch
    <3>2. QED  BY <1>2, <3>1, RequestFrame DEF Touch
  <2>3. QED  BY <2>1, <2>2
<1>3. ASSUME NEW n \in Names, Delete(c, n)  PROVE OwnershipInv' /\ OneOwner'
  <2>1. task'[c].pc = "lock" /\ \A u \in Tasks \ {c} : task'[u] = task[u]
    BY <1>1, <1>3 DEF Delete
  <2>2. QED  BY <1>3, <2>1, RequestFrame DEF Delete
<1>4. ASSUME NEW n \in Names, Create(c, n)  PROVE OwnershipInv' /\ OneOwner'
  <2>1. CASE ProbesDim
    <3>1. task'[c].pc = "probe" /\ \A u \in Tasks \ {c} : task'[u] = task[u]
      BY <1>1, <1>4, <2>1 DEF Create
    <3>2. QED  BY <1>4, <2>1, <3>1, RequestFrame DEF Create
  <2>2. CASE ~ProbesDim
    <3>1. Makes(c, n)
      BY <1>4, <2>2 DEF Create
    <3>2. /\ task'[c].pc \in {"idle", "rmtree"}
          /\ \A u \in Tasks \ {c} : task'[u] = task[u]
          /\ \A o \in Objs : objs[o].st \in {"building", "open"} =>
               catalog'[objs[o].name] = catalog[objs[o].name]
      BY <3>1, MakesFrame
    <3>3. QED  BY <1>4, <3>2, RequestFrame DEF Create
  <2>3. QED  BY <2>1, <2>2
<1>5. CASE Enqueue(c)
  BY <1>1, <1>5, RequestFrame DEF Enqueue
<1>6. CASE Cancel(c)
  <2>1. CASE task[c].pc \in {"stopping", "building"}
    BY <1>6, <2>1, DropStep DEF Cancel
  <2>2. CASE task[c].pc \notin {"stopping", "building"}
    <3>1. task'[c].pc = "idle" /\ \A u \in Tasks \ {c} : task'[u] = task[u]
      BY <1>1, <1>6, <2>2 DEF Cancel
    <3>2. QED  BY <1>6, <2>2, <3>1, RequestFrame DEF Cancel
  <2>3. QED  BY <2>1, <2>2
<1>7. QED
  BY <1>2, <1>3, <1>4, <1>5, <1>6 DEF ClientStep

LEMMA SweepKeepsInv ==
  ASSUME IInv, SweepStart \/ Sweeper
  PROVE  OwnershipInv' /\ OneOwner'
<1> USE DEF disk, memory, sweep
<1> DEFINE t == "sweeper"
<1>1. /\ t \in Tasks /\ TypeOK /\ t \notin Clients
      /\ Ends(t) => task'[t].pc = "idle" /\ \A u \in Tasks \ {t} : task'[u] = task[u]
      /\ Inside(t) => task[t].pc \in {"lock", "inside"} /\ lock \in {t, "free"}
      /\ task[t].pc = "sweeping" => lock = t /\ phase = "up" /\ todo \subseteq resident
  BY TaskUpdates, RestType, ManagerAssumption
  DEF IInv, Tasks, Inside, OwnershipInv, LockInv, InLock, PhaseInv, TodoInv
<1>2. CASE SweepStart
  <2>1. /\ task'[t] = [Rest EXCEPT !.op = "sweep", !.pc = "lock"]
        /\ \A u \in Tasks \ {t} : task'[u] = task[u]
    BY <1>1, <1>2 DEF SweepStart, TypeOK
  <2>2. task'[t].pc = "lock"
    BY <2>1 DEF Rest
  <2>3. TodoInv'
    BY <1>1, <1>2, <2>1, <2>2 DEF SweepStart, TodoInv, IInv, OwnershipInv, PhaseInv, Tasks
  <2>4. QED  BY <1>1, <1>2, <2>1, <2>2, <2>3, Frame DEF SweepStart
<1>3. CASE SweepEnters
  <2>1. task'[t].pc = "sweeping" /\ \A u \in Tasks \ {t} : task'[u] = task[u]
    <3>1. /\ task'[t] = [task[t] EXCEPT !.pc = "sweeping"]
          /\ \A u \in Tasks \ {t} : task'[u] = task[u]
      BY <1>1, <1>3, TaskUpdates DEF SweepEnters
    <3>2. QED  BY <1>1, <3>1 DEF TypeOK, TaskTypes
  <2>2. phase = "up"
    BY <1>1, <1>3 DEF SweepEnters, IInv, OwnershipInv, PhaseInv
  <2>3. TodoInv'
    BY <1>3 DEF SweepEnters, TodoInv
  <2>4. QED  BY <1>1, <1>3, <2>1, <2>2, <2>3, Frame DEF SweepEnters
<1>4. CASE SweepVisits
  <2>1. PICK q \in todo :
          /\ todo' = todo \ {q}
          /\ Evict(t, q) \/ UNCHANGED <<objs, resident, task>>
    BY <1>4 DEF SweepVisits
  <2>2. CASE Evict(t, q)
    <3>1. q \in resident
      BY <1>1, <1>4 DEF SweepVisits
    <3>2. TodoInv'
      BY <1>1, <1>4, <2>1, <2>2 DEF SweepVisits, Evict, TodoInv
    <3>3. QED  BY <1>1, <1>4, <2>2, <3>1, <3>2, EvictStep DEF SweepVisits
  <2>3. CASE UNCHANGED <<objs, resident, task>>
    <3>1. PhaseInv' /\ TodoInv'
      BY <1>1, <1>4, <2>1, <2>3 DEF SweepVisits, TodoInv, PhaseInv, IInv, OwnershipInv
    <3>2. QED  BY <1>4, <2>3, <3>1, QuietStep DEF SweepVisits
  <2>4. QED  BY <2>1, <2>2, <2>3
<1>5. CASE SweepEvicted
  <2>1. /\ task[t].pc = "stopping" /\ objs[task[t].obj].st = "closed" /\ lock = t
        /\ ~task[t].dropped => phase = "up"
    BY <1>1, <1>5
    DEF SweepEvicted, StopAwaited, IInv, OwnershipInv, LockInv, InLock, PhaseInv
  <2>2. /\ \/ task'[t].pc = "idle" /\ lock' = "free"
           \/ task'[t].pc = "sweeping" /\ lock' = lock /\ ~task[t].dropped
        /\ \A u \in Tasks \ {t} : task'[u] = task[u]
    <3>1. CASE Ends(t) /\ lock' = "free"
      BY <1>1, <3>1
    <3>2. CASE /\ task' = [task EXCEPT ![t].pc = "sweeping", ![t].obj = 0]
               /\ UNCHANGED lock /\ ~task[t].dropped
      BY <1>1, <3>2 DEF TypeOK, TaskTypes
    <3>3. QED  BY <1>5, <3>1, <3>2 DEF SweepEvicted
  <2>3. TodoInv'
    BY <1>1, <1>5, <2>1, <2>2 DEF SweepEvicted, TodoInv, IInv, OwnershipInv, Tasks
  <2>4. QED  BY <1>1, <1>5, <2>1, <2>2, <2>3, Frame DEF SweepEvicted
<1>6. CASE SweepEnds
  <2>1. TodoInv'
    BY <1>1, <1>6 DEF SweepEnds, TodoInv, IInv, OwnershipInv, Tasks
  <2>2. QED  BY <1>1, <1>6, <2>1, Frame DEF SweepEnds
<1>7. QED
  BY <1>2, <1>3, <1>4, <1>5, <1>6 DEF Sweeper

LEMMA ProcessKeepsInv ==
  ASSUME IInv, TypeOK', ShutdownStart \/ Shutdown \/ Crash \/ Boot \/ Booting
  PROVE  OwnershipInv' /\ OneOwner'
<1> USE DEF disk, memory, sweep
<1>1. TypeOK /\ {"boot", "shutdown"} \subseteq Tasks \ Clients
  BY ManagerAssumption DEF IInv, Tasks
<1>2. CASE ShutdownStart
  BY <1>2, ShutdownBegins
<1>3. CASE ShutdownEvicts
  <2>1. PICK q \in todo : todo' = todo \ {q} /\ Evict("shutdown", q)
    BY <1>3 DEF ShutdownEvicts
  <2>2. task["shutdown"].pc = "closing" /\ todo \subseteq resident
    BY <1>3 DEF ShutdownEvicts, IInv, OwnershipInv, TodoInv
  <2>3. TodoInv'
    BY <2>1, <2>2 DEF TodoInv, Evict
  <2>4. QED  BY <1>1, <1>3, <2>1, <2>2, <2>3, EvictStep DEF ShutdownEvicts
<1>4. CASE ShutdownEvicted
  <2>1. /\ task["shutdown"].pc = "stopping" /\ objs[task["shutdown"].obj].st = "closed"
        /\ phase = "closing" /\ todo \subseteq resident
    BY <1>4 DEF ShutdownEvicted, StopAwaited, IInv, OwnershipInv, PhaseInv, TodoInv
  <2>2. /\ task'["shutdown"].pc = "closing"
        /\ \A u \in Tasks \ {"shutdown"} : task'[u] = task[u]
    BY <1>1, <1>4 DEF ShutdownEvicted, TypeOK, TaskTypes
  <2>3. TodoInv'
    BY <1>4, <2>1 DEF ShutdownEvicted, TodoInv
  <2>4. QED  BY <1>1, <1>4, <2>1, <2>2, <2>3, Frame DEF ShutdownEvicted
<1>5. CASE ShutdownEnds
  BY <1>5, ShutdownOver
<1>6. CASE Crash
  BY <1>1, <1>6, ResetStep DEF Crash
<1>7. CASE Boot
  BY <1>1, <1>7, ResetStep DEF Boot
<1>8. CASE BootVisits
  <2>1. PICK n \in toResume :
          \/ Starts("boot", "touch", "lock", n, 0) /\ phase' = phase
          \/ UNCHANGED task /\ phase' \in {"failed", "boot"}
    BY <1>8 DEF BootVisits
  <2>2. /\ phase = "boot" /\ task["boot"].pc = "idle"
        /\ \A c \in Clients : task[c].pc = "idle"
        /\ task["shutdown"].pc = "idle"
        /\ \/ task["sweeper"].pc = "idle"
           \/ task["sweeper"].pc = "stopping" /\ task["sweeper"].dropped
    <3>1. phase = "boot" /\ task["boot"].pc = "idle"
      BY <1>8 DEF BootVisits
    <3>2. PhaseInv
      BY DEF IInv, OwnershipInv
    <3>3. QED  BY <3>1, <3>2 DEF PhaseInv
  <2>3. CASE Starts("boot", "touch", "lock", n, 0) /\ phase' = phase
    <3>1. /\ task'["boot"] = [op |-> "touch", pc |-> "lock", name |-> n, obj |-> 0,
                              dropped |-> FALSE]
          /\ \A u \in Tasks \ {"boot"} : task'[u] = task[u]
      BY <1>1, <2>3, TaskUpdates
    <3>2. task'["boot"].pc = "lock"
      BY <3>1
    <3>3. TodoInv'
      BY <1>1, <1>8, <3>1 DEF BootVisits, TodoInv, IInv, OwnershipInv, Tasks
    <3>4. QED  BY <1>1, <1>8, <2>2, <2>3, <3>1, <3>2, <3>3, Frame DEF BootVisits
  <2>4. CASE UNCHANGED task /\ phase' \in {"failed", "boot"}
    <3>1. PhaseInv' /\ TodoInv'
      BY <1>8, <2>2, <2>4 DEF BootVisits, PhaseInv, TodoInv, IInv, OwnershipInv
    <3>2. QED  BY <1>8, <2>4, <3>1, QuietStep DEF BootVisits
  <2>5. QED  BY <2>1, <2>3, <2>4
<1>9. CASE BootEnds
  <2>1. PhaseInv' /\ TodoInv'
    BY <1>9 DEF BootEnds, PhaseInv, TodoInv, IInv, OwnershipInv
  <2>2. QED  BY <1>9, <2>1, QuietStep DEF BootEnds
<1>10. QED
  BY <1>2, <1>3, <1>4, <1>5, <1>6, <1>7, <1>8, <1>9 DEF Shutdown, Booting

-----------------------------------------------------------------------------
LEMMA InitInv == Init => IInv
<1> SUFFICES ASSUME Init  PROVE IInv
  OBVIOUS
<1>1. /\ \A t \in Tasks : task[t] = Rest
      /\ \A o \in Objs : objs[o] = Blank
      /\ resident = {} /\ todo = {}
  BY DEF Init
<1>2. TypeOK
  <2>1. /\ task \in [Tasks -> TaskTypes] /\ objs \in [Objs -> ObjTypes]
        /\ lastUsed \in [Objs -> Objs]
    BY RestType, BlankType DEF Init
  <2>2. /\ catalog \in [Names -> Nat] /\ dir \in [Names -> Nat] /\ creates \in Nat
        /\ used \in [Events -> Nat]
    BY ManagerAssumption DEF Init
  <2>3. QED  BY <2>1, <2>2 DEF Init, TypeOK
<1>3. OwnershipInv
  <2>1. /\ \A t \in Tasks : task[t].pc = "idle"
        /\ \A o \in Objs : objs[o].st = "none"
    BY <1>1, RestType, BlankType
  <2>2. LockInv /\ TodoInv
    BY <1>1, <2>1 DEF LockInv, InLock, TodoInv, Tasks
  <2>3. PhaseInv
    BY <2>1 DEF PhaseInv, Tasks
  <2>4. \A t \in Tasks : TaskInv(t)
    BY <2>1 DEF TaskInv
  <2>5. \A o \in Objs : ObjInv(o)
    BY <1>1, <2>1 DEF ObjInv
  <2>6. QED  BY <2>2, <2>3, <2>4, <2>5 DEF OwnershipInv
<1>4. OneOwner
  BY <1>1, BlankType DEF OneOwner, Live
<1>5. QED  BY <1>2, <1>3, <1>4 DEF IInv

LEMMA StepKeepsInv == IInv /\ [Next]_vars => IInv'
<1> SUFFICES ASSUME IInv, [Next]_vars  PROVE OwnershipInv' /\ OneOwner'
  BY TypeStep DEF IInv
<1> USE DEF disk, memory, sweep
<1>1. TypeOK'
  BY TypeStep
<1>2. CASE UNCHANGED vars
  <2>1. PhaseInv' /\ TodoInv'
    BY <1>2 DEF vars, PhaseInv, TodoInv, IInv, OwnershipInv
  <2>2. QED  BY <1>2, <2>1, QuietStep DEF vars
<1>3. ASSUME NEW c \in Clients, RequestStep(c) \/ ClientStep(c)
      PROVE  OwnershipInv' /\ OneOwner'
  BY <1>3, RequestKeepsInv, ClientKeepsInv
<1>4. ASSUME NEW t \in Clients \cup {"boot"}, TouchStep(t)
      PROVE  OwnershipInv' /\ OneOwner'
  BY <1>1, <1>4, TouchKeepsInv
<1>5. ASSUME NEW o \in Objs, FinishJobs(o)  PROVE OwnershipInv' /\ OneOwner'
  <2>1. PhaseInv' /\ TodoInv'
    BY <1>5 DEF FinishJobs, PhaseInv, TodoInv, IInv, OwnershipInv
  <2>2. QED  BY <1>5, <2>1, QuietStep DEF FinishJobs
<1>6. ASSUME NEW o \in Objs, StopEnds(o)  PROVE OwnershipInv' /\ OneOwner'
  BY <1>1, <1>6, StoppedStep
<1>7. ASSUME NEW n \in Names, OrphanRemoves(n)  PROVE OwnershipInv' /\ OneOwner'
  <2>1. PhaseInv' /\ TodoInv'
    BY <1>7 DEF OrphanRemoves, PhaseInv, TodoInv, IInv, OwnershipInv
  <2>2. QED  BY <1>7, <2>1, QuietStep DEF OrphanRemoves
<1>8. CASE SweepStart \/ Sweeper
  BY <1>8, SweepKeepsInv
<1>9. CASE ShutdownStart \/ Shutdown \/ Crash \/ Boot \/ Booting
  BY <1>1, <1>9, ProcessKeepsInv
<1>10. QED
  BY <1>2, <1>3, <1>4, <1>5, <1>6, <1>7, <1>8, <1>9 DEF Next, ClientStep

-----------------------------------------------------------------------------
\* Every state the manager reaches satisfies the inductive invariant.
THEOREM Invariant == Spec => []IInv
BY InitInv, StepKeepsInv, PTL DEF Spec

\* The state of the manager keeps its types.
THEOREM ManagerTypes == Spec => []TypeOK
<1>1. IInv => TypeOK
  BY DEF IInv
<1>2. QED  BY <1>1, Invariant, PTL

\* Whoever loads, stops or sweeps a collection holds _load_lock, the shutdown
\* apart, and every object that is not closed is resident or somebody's.
THEOREM Ownership == Spec => []OwnershipInv
<1>1. IInv => OwnershipInv
  BY DEF IInv
<1>2. QED  BY <1>1, Invariant, PTL

\* touch, delete_collection, housekeeping and shutdown never have two Collection
\* objects of one name that are not closed.
THEOREM DirectoryHasOneOwner == Spec => []OneOwner
<1>1. IInv => OneOwner
  BY DEF IInv
<1>2. QED  BY <1>1, Invariant, PTL

\* What touch returns at once is a collection that still has its row: a delete
\* leaves no zombie.
THEOREM NoZombies == Spec => []ResidentIsCatalogued
<1>1. IInv => ResidentIsCatalogued
  BY DEF IInv, TypeOK, OwnershipInv, ObjInv, ResidentIsCatalogued
<1>2. QED  BY <1>1, Invariant, PTL

\* An open collection is resident, so that a sweep or the shutdown closes it,
\* even if the request that loaded it was cancelled.
THEOREM NoneForgotten == Spec => []OpenIsResident
<1>1. IInv => OpenIsResident
  BY DEF IInv, OwnershipInv, ObjInv, OpenIsResident
<1>2. QED  BY <1>1, Invariant, PTL

-----------------------------------------------------------------------------
\* What the shutdown has still to visit is all that is resident, until it ends.
ClosingInv ==
  /\ phase = "closing" => resident \subseteq todo
  /\ ClosedAtExit

LEMMA ClosingUnchanged ==
  ASSUME ClosingInv, UNCHANGED <<objs, resident, todo, phase>>
  PROVE  ClosingInv'
BY DEF ClosingInv, ClosedAtExit, Live

\* Who may act while the process is neither closing nor over.
LEMMA TasksRun ==
  ASSUME IInv
  PROVE  /\ \A c \in Clients : task[c].pc # "idle" => phase = "up"
         /\ task["boot"].pc # "idle" => phase = "boot"
         /\ task["sweeper"].pc \notin {"idle", "stopping"} => phase = "up"
         /\ task["shutdown"].pc # "idle" => phase = "closing"
BY DEF IInv, OwnershipInv, PhaseInv

LEMMA ClosingStep == IInv /\ ClosingInv /\ [Next]_vars => ClosingInv'
<1> SUFFICES ASSUME IInv, ClosingInv, [Next]_vars  PROVE ClosingInv'
  OBVIOUS
<1> USE DEF disk, memory, sweep
<1>1. phase' \notin {"closing", "exited"} => ClosingInv'
  BY DEF ClosingInv, ClosedAtExit
<1>2. CASE UNCHANGED vars
  BY <1>2, ClosingUnchanged DEF vars
<1>3. ASSUME NEW c \in Clients, RequestStep(c) \/ ClientStep(c)  PROVE ClosingInv'
  <2>1. phase' = phase
    BY <1>3 DEF RequestStep, ClientStep, DeleteEvicts, DeleteRow, DeleteAbandoned,
      RemoveFiles, ProbeEnds, RemoveLeftover, MakeDirectory, Touch, Delete, Create,
      Enqueue, Cancel
  <2>2. phase = "up"
    BY <1>3, TasksRun DEF RequestStep, ClientStep, DeleteEvicts, DeleteRow,
      DeleteAbandoned, RemoveFiles, ProbeEnds, RemoveLeftover, MakeDirectory, Touch,
      Delete, Create, Enqueue, Cancel, Deleting, Inside, StopAwaited
  <2>3. QED  BY <2>1, <2>2, <1>1
<1>4. ASSUME NEW t \in Clients \cup {"boot"}, TouchStep(t)  PROVE ClosingInv'
  <2>1. task[t].pc # "idle" /\ phase' \in {phase, "failed"}
    BY <1>4 DEF TouchStep, TouchFinds, TouchMisses, TouchEvicts, TouchEvicted,
      TouchBuilds, BuildEnds, BuildFails, Release, Loads, Touching, Inside, StopAwaited
  <2>2. phase \in {"up", "boot"}
    BY <2>1, TasksRun
  <2>3. QED  BY <2>1, <2>2, <1>1
<1>5. ASSUME NEW o \in Objs, FinishJobs(o)  PROVE ClosingInv'
  BY <1>5, ClosingUnchanged DEF FinishJobs
<1>6. ASSUME NEW o \in Objs, StopEnds(o)  PROVE ClosingInv'
  <2>1. UNCHANGED <<resident, todo, phase>> /\ \A q \in Objs : Live(q)' => Live(q)
    BY <1>6 DEF StopEnds, Live, IInv, TypeOK, ObjTypes
  <2>2. QED  BY <2>1 DEF ClosingInv, ClosedAtExit
<1>7. ASSUME NEW n \in Names, OrphanRemoves(n)  PROVE ClosingInv'
  BY <1>7, ClosingUnchanged DEF OrphanRemoves
<1>8. CASE SweepStart \/ SweepEnters \/ SweepVisits \/ SweepEnds
  <2>1. phase = "up" /\ phase' = phase
    BY <1>8, TasksRun DEF SweepStart, SweepEnters, SweepVisits, SweepEnds, Inside
  <2>2. QED  BY <2>1, <1>1
<1>9. CASE SweepEvicted
  BY <1>9, ClosingUnchanged DEF SweepEvicted
<1>10. CASE ShutdownStart
  BY <1>10 DEF ShutdownStart, ClosingInv, ClosedAtExit
<1>11. CASE ShutdownEvicts
  <2>1. phase = "closing" /\ phase' = phase
    BY <1>11, TasksRun DEF ShutdownEvicts
  <2>2. PICK o \in todo : todo' = todo \ {o} /\ resident' = resident \ {o}
    BY <1>11 DEF ShutdownEvicts, Evict
  <2>3. QED  BY <2>1, <2>2 DEF ClosingInv, ClosedAtExit
<1>12. CASE ShutdownEvicted
  BY <1>12, ClosingUnchanged DEF ShutdownEvicted
<1>13. CASE ShutdownEnds
  <2>1. /\ phase = "closing" /\ phase' = "exited" /\ todo = {} /\ UNCHANGED objs
        /\ \A o \in Objs : objs[o].st # "stopping"
    BY <1>13, TasksRun DEF ShutdownEnds
  <2>2. \A o \in Objs : objs[o].st # "open"
    BY <2>1 DEF ClosingInv, IInv, OwnershipInv, ObjInv
  <2>3. \A t \in Tasks : task[t].pc # "building"
    BY <2>1, TasksRun DEF IInv, OwnershipInv, TaskInv
  <2>4. \A o \in Objs : objs[o].st # "building"
    BY <2>3 DEF IInv, OwnershipInv, ObjInv
  <2>5. QED  BY <2>1, <2>2, <2>4 DEF ClosingInv, ClosedAtExit, Live
<1>14. CASE Crash
  <2>1. phase' = "exited" /\ \A o \in Objs : objs'[o].st = "none"
    BY <1>14, BlankType DEF Crash
  <2>2. QED  BY <2>1 DEF ClosingInv, ClosedAtExit, Live
<1>15. CASE Boot \/ Booting
  <2>1. phase' \in {"boot", "failed", "up"}
    BY <1>15 DEF Boot, Booting, BootVisits, BootEnds
  <2>2. QED  BY <2>1, <1>1
<1>16. QED
  BY <1>2, <1>3, <1>4, <1>5, <1>6, <1>7, <1>8, <1>9, <1>10, <1>11, <1>12, <1>13, <1>14,
     <1>15
  DEF Next, ClientStep, Sweeper, Shutdown

\* shutdown() ends when every collection is closed, those whose eviction lost its
\* caller included: no worker or file handle outlives the lifespan.
THEOREM ShutdownClosesAll == Spec => []ClosedAtExit
<1>1. Init => ClosingInv
  BY DEF Init, ClosingInv, ClosedAtExit
<1>2. ClosingInv => ClosedAtExit
  BY DEF ClosingInv
<1>3. QED  BY <1>1, <1>2, ClosingStep, Invariant, PTL DEF Spec
-----------------------------------------------------------------------------
\* Creates and deletes of one name one after the other.

\* Who makes or removes the files of a name is alone at it, with its row not there
\* yet or no more.
Edits(c) == task[c].op \in {"create", "delete"}
EditInv(c) ==
  /\ task[c].pc \in {"probe", "mkdir"} => task[c].op = "create"
  /\ task[c].pc = "rmtree" => Edits(c)
  /\ task[c].op = "create" => catalog[task[c].name] = 0
  /\ task[c].op = "delete" /\ task[c].pc = "rmtree" => catalog[task[c].name] = 0
  /\ Edits(c) => /\ task[c].name \notin rmtrees
                 /\ \A d \in Clients \ {c} : Edits(d) => task[d].name # task[c].name
FilesInv ==
  /\ CatalogHasFiles
  /\ \A c \in Clients : EditInv(c)
  /\ \A n \in rmtrees : catalog[n] = 0

\* A step that leaves the files alone and of which no edit begins.
LEMMA FilesFrame ==
  ASSUME FilesInv, NEW t,
         UNCHANGED <<catalog, dir, rmtrees>>,
         \A u \in Tasks \ {t} : task'[u] = task[u],
         t \in Clients =>
           /\ task'[t].pc \notin {"probe", "mkdir", "rmtree"}
           /\ \/ task'[t].op \notin {"create", "delete"}
              \/ task'[t].op = task[t].op /\ task'[t].name = task[t].name
  PROVE  FilesInv'
<1>1. \A u \in Clients \ {t} : task'[u] = task[u]
  BY DEF Tasks
<1>2. ASSUME NEW c \in Clients  PROVE EditInv(c)'
  <2>1. EditInv(c)
    BY DEF FilesInv
  <2>2. CASE c = t
    BY <1>1, <2>1, <2>2 DEF EditInv, Edits
  <2>3. CASE c # t
    BY <1>1, <2>1, <2>3 DEF EditInv, Edits
  <2>4. QED  BY <2>2, <2>3
<1>3. QED  BY <1>2 DEF FilesInv, CatalogHasFiles

\* A create that is alone with its name makes its files, or begins to.
LEMMA FilesMade ==
  ASSUME TypeOK, FilesInv, NEW c \in Clients, NEW n \in Names,
         Makes(c, n) \/ MakeFiles(c, n),
         UNCHANGED rmtrees,
         catalog[n] = 0, n \notin rmtrees,
         \A d \in Clients \ {c} : Edits(d) => task[d].name # n
  PROVE  FilesInv'
<1>1. c \in Tasks /\ Clients \subseteq Tasks
  BY DEF Tasks
<1>2. CASE MakeFiles(c, n)
  <2>1. /\ task'[c] = Rest /\ \A u \in Tasks \ {c} : task'[u] = task[u]
        /\ \A m \in Names \ {n} : catalog'[m] = catalog[m] /\ dir'[m] = dir[m]
        /\ catalog'[n] = creates' /\ dir'[n] = creates'
    BY <1>1, <1>2, TaskUpdates DEF MakeFiles, TypeOK
  <2>2. ASSUME NEW d \in Clients  PROVE EditInv(d)'
    <3>1. EditInv(d) /\ task[d].name \in Names
      BY <1>1 DEF FilesInv, TypeOK, TaskTypes
    <3>2. CASE d = c
      BY <2>1, <3>2, RestType DEF EditInv, Edits
    <3>3. CASE d # c
      <4>1. task'[d] = task[d] /\ (Edits(d) => task[d].name # n)
        BY <1>1, <2>1, <3>3
      <4>2. Edits(d) => catalog'[task[d].name] = catalog[task[d].name]
        BY <2>1, <3>1, <4>1
      <4>3. \A e \in Clients : Edits(e)' => Edits(e) /\ task'[e] = task[e]
        BY <1>1, <2>1, RestType DEF Edits
      <4>4. QED  BY <3>1, <4>1, <4>2, <4>3 DEF EditInv, Edits
    <3>4. QED  BY <3>2, <3>3
  <2>3. \A m \in rmtrees : catalog'[m] = 0
    BY <2>1 DEF FilesInv, TypeOK
  <2>4. CatalogHasFiles'
    BY <2>1 DEF FilesInv, CatalogHasFiles
  <2>5. QED  BY <2>2, <2>3, <2>4 DEF FilesInv
<1>3. CASE /\ Starts(c, "create", "rmtree", n, 0)
           /\ UNCHANGED <<catalog, dir, creates>>
  <2>1. /\ task'[c].op = "create" /\ task'[c].pc = "rmtree" /\ task'[c].name = n
        /\ \A u \in Clients \ {c} : task'[u] = task[u]
    BY <1>1, <1>3 DEF Starts, TypeOK
  <2>2. ASSUME NEW d \in Clients  PROVE EditInv(d)'
    <3>1. EditInv(d)
      BY DEF FilesInv
    <3>2. CASE d = c
      BY <1>3, <2>1, <3>2 DEF EditInv, Edits
    <3>3. CASE d # c
      BY <1>3, <2>1, <3>1, <3>3 DEF EditInv, Edits
    <3>4. QED  BY <3>2, <3>3
  <2>3. QED  BY <1>3, <2>2 DEF FilesInv, CatalogHasFiles
<1>4. QED  BY <1>2, <1>3 DEF Makes

\* A row or a directory goes, of a name whose editor is the task that moves.
LEMMA FilesGone ==
  ASSUME TypeOK, FilesInv, NEW c \in Clients,
         Edits(c),
         LET n == task[c].name
         IN  /\ catalog' = [catalog EXCEPT ![n] = 0]
             /\ dir' = [dir EXCEPT ![n] = 0] \/ UNCHANGED dir,
         UNCHANGED rmtrees,
         \A u \in Tasks \ {c} : task'[u] = task[u],
         \/ task'[c].op = "none" /\ task'[c].pc = "idle"
         \/ /\ task'[c].op = task[c].op /\ task'[c].name = task[c].name
            /\ task'[c].pc = "rmtree" \/ (task'[c].pc = "mkdir" /\ task[c].op = "create")
  PROVE  FilesInv'
<1> DEFINE n == task[c].name
<1>1. c \in Tasks /\ Clients \subseteq Tasks /\ n \in Names
  BY DEF Tasks, TypeOK, TaskTypes
<1>2. /\ catalog'[n] = 0
      /\ \A m \in Names \ {n} : catalog'[m] = catalog[m] /\ dir'[m] = dir[m]
      /\ \A m \in Names : catalog[m] = 0 => catalog'[m] = 0
  BY <1>1 DEF TypeOK
<1>3. ASSUME NEW d \in Clients  PROVE EditInv(d)'
  <2>1. EditInv(d) /\ task[d].name \in Names
    BY <1>1 DEF FilesInv, TypeOK, TaskTypes
  <2>2. \A e \in Clients : Edits(e)' => Edits(e) /\ task'[e].name = task[e].name
    BY <1>1 DEF Edits
  <2>3. CASE d = c
    BY <1>2, <2>1, <2>2, <2>3 DEF EditInv, Edits
  <2>4. CASE d # c
    <3>1. task'[d] = task[d]
      BY <1>1, <2>4
    <3>2. QED  BY <1>2, <2>1, <2>2, <3>1 DEF EditInv, Edits
  <2>5. QED  BY <2>3, <2>4
<1>4. rmtrees \subseteq Names
  BY DEF TypeOK
<1>5. QED  BY <1>2, <1>3, <1>4 DEF FilesInv, CatalogHasFiles

\* The requests' own steps.
LEMMA RequestFiles ==
  ASSUME IInv, FilesInv, NEW c \in Clients, RequestStep(c)
  PROVE  FilesInv'
<1> USE DEF disk, memory, sweep
<1>1. /\ c \in Tasks /\ TypeOK /\ task[c] \in TaskTypes /\ task[c].name \in Names
      /\ EditInv(c)
  BY DEF IInv, TypeOK, Tasks, TaskTypes, FilesInv
<1>2. CASE DeleteEvicts(c)
  <2>1. PICK o \in ResidentAs(task[c].name) : Evict(c, o)
    BY <1>2 DEF DeleteEvicts
  <2>2. /\ task'[c].pc = "stopping" /\ task'[c].op = task[c].op
        /\ task'[c].name = task[c].name
        /\ \A u \in Tasks \ {c} : task'[u] = task[u]
    BY <1>1, <2>1 DEF Evict, TypeOK, TaskTypes
  <2>3. QED  BY <1>2, <2>2, FilesFrame DEF DeleteEvicts
<1>3. CASE DeleteRow(c)
  <2>1. /\ task'[c].pc = "rmtree" /\ task'[c].op = task[c].op
        /\ task'[c].name = task[c].name
        /\ \A u \in Tasks \ {c} : task'[u] = task[u]
    BY <1>1, <1>3 DEF DeleteRow, TypeOK, TaskTypes
  <2>2. Edits(c)
    BY <1>3 DEF DeleteRow, Deleting, Edits
  <2>3. QED  BY <1>1, <1>3, <2>1, <2>2, FilesGone DEF DeleteRow
<1>4. CASE DeleteAbandoned(c)
  <2>1. task'[c] = Rest /\ \A u \in Tasks \ {c} : task'[u] = task[u]
    BY <1>1, <1>4, TaskUpdates DEF DeleteAbandoned
  <2>2. QED  BY <1>4, <2>1, RestType, FilesFrame DEF DeleteAbandoned
<1>5. CASE RemoveFiles(c)
  <2>1. task'[c] = Rest /\ \A u \in Tasks \ {c} : task'[u] = task[u]
    BY <1>1, <1>5, TaskUpdates DEF RemoveFiles
  <2>2. Edits(c) /\ catalog[task[c].name] = 0
    BY <1>1, <1>5 DEF RemoveFiles, Edits, EditInv
  <2>3. catalog' = [catalog EXCEPT ![task[c].name] = 0]
    BY <1>1, <1>5, <2>2 DEF RemoveFiles, TypeOK
  <2>4. dir' = [dir EXCEPT ![task[c].name] = 0] \/ UNCHANGED dir
    BY <1>5 DEF RemoveFiles
  <2>5. QED  BY <1>1, <1>5, <2>1, <2>2, <2>3, <2>4, RestType, FilesGone DEF RemoveFiles
<1>6. CASE ProbeEnds(c)
  <2>1. CASE Makes(c, task[c].name)
    <3>1. /\ catalog[task[c].name] = 0 /\ task[c].name \notin rmtrees
          /\ \A d \in Clients \ {c} : Edits(d) => task[d].name # task[c].name
      BY <1>1, <1>6 DEF ProbeEnds, EditInv, Edits
    <3>2. QED  BY <1>1, <1>6, <2>1, <3>1, FilesMade DEF ProbeEnds
  <2>2. CASE Ends(c) /\ UNCHANGED <<catalog, dir, creates>>
    <3>1. task'[c] = Rest /\ \A u \in Tasks \ {c} : task'[u] = task[u]
      BY <1>1, <2>2, TaskUpdates
    <3>2. QED  BY <1>6, <2>2, <3>1, RestType, FilesFrame DEF ProbeEnds
  <2>3. QED  BY <1>6, <2>1, <2>2 DEF ProbeEnds
<1>7. CASE RemoveLeftover(c)
  <2>1. Edits(c) /\ task[c].op = "create" /\ catalog[task[c].name] = 0
    BY <1>1, <1>7 DEF RemoveLeftover, Edits, EditInv
  <2>2. /\ \A u \in Tasks \ {c} : task'[u] = task[u]
        /\ \/ task'[c] = Rest
           \/ /\ task'[c].pc = "mkdir" /\ task'[c].op = task[c].op
              /\ task'[c].name = task[c].name
    <3>1. Ends(c) \/ Goes(c, "mkdir")
      BY <1>7 DEF RemoveLeftover
    <3>2. QED  BY <1>1, <3>1 DEF Ends, Goes, TypeOK, TaskTypes
  <2>3. catalog' = [catalog EXCEPT ![task[c].name] = 0]
    BY <1>1, <1>7, <2>1 DEF RemoveLeftover, TypeOK
  <2>4. dir' = [dir EXCEPT ![task[c].name] = 0]
    BY <1>7 DEF RemoveLeftover
  <2>5. QED
    BY <1>1, <1>7, <2>1, <2>2, <2>3, <2>4, RestType, FilesGone DEF RemoveLeftover
<1>8. CASE MakeDirectory(c)
  <2>1. /\ catalog[task[c].name] = 0 /\ task[c].name \notin rmtrees
        /\ \A d \in Clients \ {c} : Edits(d) => task[d].name # task[c].name
    BY <1>1, <1>8 DEF MakeDirectory, EditInv, Edits
  <2>2. CASE MakeFiles(c, task[c].name)
    BY <1>1, <1>8, <2>1, <2>2, FilesMade DEF MakeDirectory
  <2>3. CASE Ends(c) /\ UNCHANGED <<catalog, dir, creates>>
    <3>1. task'[c] = Rest /\ \A u \in Tasks \ {c} : task'[u] = task[u]
      BY <1>1, <2>3, TaskUpdates
    <3>2. QED  BY <1>8, <2>3, <3>1, RestType, FilesFrame DEF MakeDirectory
  <2>4. QED  BY <1>8, <2>2, <2>3 DEF MakeDirectory
<1>9. QED
  BY <1>2, <1>3, <1>4, <1>5, <1>6, <1>7, <1>8 DEF RequestStep

\* What clients start and cancel, creates and deletes of a name one at a time.
LEMMA ClientFiles ==
  ASSUME ~Overlap, IInv, FilesInv, NEW c \in Clients, ClientStep(c)
  PROVE  FilesInv'
<1> USE DEF disk, memory, sweep
<1>1. /\ c \in Tasks /\ TypeOK /\ task[c] \in TaskTypes /\ task[c].name \in Names
      /\ EditInv(c) /\ Clients \subseteq Tasks
  BY DEF IInv, TypeOK, Tasks, TaskTypes, FilesInv
<1>2. ASSUME NEW n \in Names, Touch(c, n)  PROVE FilesInv'
  <2>1. /\ task'[c].op = "touch" /\ task'[c].pc \in {"have", "lock"}
        /\ \A u \in Tasks \ {c} : task'[u] = task[u]
    BY <1>1, <1>2 DEF Touch, Starts, TypeOK
  <2>2. QED  BY <1>2, <2>1, FilesFrame DEF Touch
<1>3. ASSUME NEW n \in Names, ~Busy(n)
      PROVE  n \notin rmtrees /\ \A d \in Clients \ {c} : Edits(d) => task[d].name # n
  BY <1>3 DEF Busy, Edits
<1>4. \* A task that starts an edit of n.
      ASSUME NEW n \in Names, NEW op \in {"create", "delete"}, NEW pc \in {"lock", "probe"},
             pc = "probe" => op = "create", op = "create" => catalog[n] = 0,
             ~Busy(n), Starts(c, op, pc, n, 0), UNCHANGED <<catalog, dir, rmtrees>>
      PROVE  FilesInv'
  <2>1. /\ task'[c].op = op /\ task'[c].pc = pc /\ task'[c].name = n
        /\ \A u \in Clients \ {c} : task'[u] = task[u]
    BY <1>1, <1>4 DEF Starts, TypeOK
  <2>2. n \notin rmtrees /\ \A d \in Clients \ {c} : Edits(d) => task[d].name # n
    BY <1>3, <1>4
  <2>3. ASSUME NEW d \in Clients  PROVE EditInv(d)'
    <3>1. EditInv(d)
      BY DEF FilesInv
    <3>2. CASE d = c
      BY <1>4, <2>1, <2>2, <3>2 DEF EditInv, Edits
    <3>3. CASE d # c
      BY <1>4, <2>1, <2>2, <3>1, <3>3 DEF EditInv, Edits
    <3>4. QED  BY <3>2, <3>3
  <2>4. QED  BY <1>4, <2>3 DEF FilesInv, CatalogHasFiles
<1>5. ASSUME NEW n \in Names, Delete(c, n)  PROVE FilesInv'
  BY <1>4, <1>5 DEF Delete
<1>6. ASSUME NEW n \in Names, Create(c, n)  PROVE FilesInv'
  <2>1. catalog[n] = 0 /\ ~Busy(n) /\ UNCHANGED rmtrees
    BY <1>6 DEF Create
  <2>2. CASE ProbesDim
    BY <1>4, <1>6, <2>1, <2>2 DEF Create
  <2>3. CASE ~ProbesDim
    BY <1>1, <1>3, <1>6, <2>1, <2>3, FilesMade DEF Create
  <2>4. QED  BY <2>2, <2>3
<1>7. CASE Enqueue(c)
  <2>1. task'[c] = Rest /\ \A u \in Tasks \ {c} : task'[u] = task[u]
    BY <1>1, <1>7, TaskUpdates DEF Enqueue
  <2>2. QED  BY <1>7, <2>1, RestType, FilesFrame DEF Enqueue
<1>8. CASE Cancel(c)
  <2>1. CASE task[c].pc = "rmtree"
    <3>1. /\ task'[c] = Rest /\ \A u \in Clients \ {c} : task'[u] = task[u]
          /\ rmtrees' = rmtrees \cup {task[c].name}
          /\ UNCHANGED <<catalog, dir>>
      BY <1>1, <1>8, <2>1, TaskUpdates DEF Cancel
    <3>2. Edits(c) /\ catalog[task[c].name] = 0
      BY <1>1, <2>1 DEF EditInv, Edits
    <3>3. ASSUME NEW d \in Clients  PROVE EditInv(d)'
      <4>1. EditInv(d)
        BY DEF FilesInv
      <4>2. CASE d = c
        BY <3>1, <4>2, RestType DEF EditInv, Edits
      <4>3. CASE d # c
        <5>1. \A e \in Clients : Edits(e)' => Edits(e) /\ task'[e] = task[e]
          BY <3>1, RestType DEF Edits
        <5>2. QED  BY <1>1, <3>1, <3>2, <4>1, <4>3, <5>1 DEF EditInv, Edits
      <4>4. QED  BY <4>2, <4>3
    <3>4. QED  BY <3>1, <3>2, <3>3 DEF FilesInv, CatalogHasFiles
  <2>2. CASE task[c].pc \in {"lock", "probe"}
    <3>1. task'[c] = Rest /\ \A u \in Tasks \ {c} : task'[u] = task[u]
      BY <1>1, <1>8, <2>2, TaskUpdates DEF Cancel
    <3>2. QED  BY <1>8, <2>2, <3>1, RestType, FilesFrame DEF Cancel
  <2>3. CASE task[c].pc \in {"stopping", "building"}
    <3>1. /\ task'[c].pc = task[c].pc /\ task'[c].op = task[c].op
          /\ task'[c].name = task[c].name
          /\ \A u \in Tasks \ {c} : task'[u] = task[u]
      BY <1>1, <1>8, <2>3 DEF Cancel, TypeOK, TaskTypes
    <3>2. QED  BY <1>8, <2>3, <3>1, FilesFrame DEF Cancel
  <2>4. QED  BY <1>8, <2>1, <2>2, <2>3 DEF Cancel
<1>9. QED
  BY <1>2, <1>5, <1>6, <1>7, <1>8 DEF ClientStep

\* Touches leave the disk alone.
LEMMA TouchFiles ==
  ASSUME IInv, FilesInv, NEW t \in Clients \cup {"boot"}, TouchStep(t)
  PROVE  FilesInv'
<1> USE DEF disk, memory, sweep
<1>1. t \in Tasks /\ TypeOK /\ task \in [Tasks -> TaskTypes] /\ task[t] \in TaskTypes
  BY DEF IInv, TypeOK, Tasks
<1>2. UNCHANGED <<catalog, dir, rmtrees>>
  BY DEF TouchStep, TouchFinds, TouchMisses, TouchEvicts, TouchEvicted, TouchBuilds,
     BuildEnds, BuildFails, Release
<1>3. \/ Ends(t) \/ Goes(t, "have")
      \/ \E pc \in {"have", "inside", "building", "stopping"}, o \in 0..Slots :
           task' = [task EXCEPT ![t].pc = pc, ![t].obj = o]
  <2>1. CASE TouchFinds(t) \/ TouchEvicts(t) \/ TouchEvicted(t) \/ TouchBuilds(t)
    BY <1>1, <2>1, ObjsInSlots
    DEF TouchFinds, TouchEvicts, TouchEvicted, TouchBuilds, Evict, ResidentAs, TypeOK
  <2>2. CASE TouchMisses(t) \/ BuildEnds(t) \/ BuildFails(t) \/ Release(t)
    BY <2>2 DEF TouchMisses, BuildEnds, Built, BuildFails, Release
  <2>3. QED  BY <2>1, <2>2 DEF TouchStep
<1>4. /\ \A u \in Tasks \ {t} : task'[u] = task[u]
      /\ \/ task'[t] = Rest
         \/ /\ task'[t].pc \in {"have", "inside", "building", "stopping"}
            /\ task'[t].op = task[t].op /\ task'[t].name = task[t].name
  <2>1. CASE Ends(t)
    BY <1>1, <2>1, TaskUpdates
  <2>2. CASE Goes(t, "have")
    BY <1>1, <2>2 DEF Goes, TaskTypes
  <2>3. ASSUME NEW pc \in {"have", "inside", "building", "stopping"}, NEW o \in 0..Slots,
               task' = [task EXCEPT ![t].pc = pc, ![t].obj = o]
        PROVE  /\ \A u \in Tasks \ {t} : task'[u] = task[u]
               /\ task'[t].pc = pc
               /\ task'[t].op = task[t].op /\ task'[t].name = task[t].name
    BY <1>1, <2>3 DEF TaskTypes
  <2>4. QED  BY <1>3, <2>1, <2>2, <2>3
<1>5. QED  BY <1>2, <1>4, RestType, FilesFrame

\* Sweeps, shutdowns, crashes and boots.
LEMMA ProcessFiles ==
  ASSUME IInv, FilesInv,
         SweepStart \/ Sweeper \/ ShutdownStart \/ Shutdown \/ Crash \/ Boot \/ Booting
  PROVE  FilesInv'
<1> USE DEF disk, memory, sweep
<1>1. /\ TypeOK /\ Clients \subseteq Tasks /\ Rest.op = "none" /\ Rest.pc = "idle"
      /\ Clients \cap {"boot", "sweeper", "shutdown"} = {}
      /\ {"boot", "sweeper", "shutdown"} \subseteq Tasks
  BY RestType, ManagerAssumption DEF IInv, Tasks
<1>2. CASE Crash
  <2>1. /\ \A c \in Clients : task'[c] = Rest
        /\ rmtrees' = {} /\ UNCHANGED catalog
        /\ \A m \in Names : catalog[m] # 0 => dir'[m] = dir[m]
    BY <1>1, <1>2 DEF Crash, TypeOK
  <2>2. QED
    BY <1>1, <2>1 DEF FilesInv, CatalogHasFiles, EditInv, Edits
<1>3. CASE Boot
  <2>1. /\ \A c \in Clients : task'[c] = Rest
        /\ UNCHANGED <<catalog, dir, rmtrees>>
    BY <1>1, <1>3 DEF Boot
  <2>2. QED
    BY <1>1, <2>1 DEF FilesInv, CatalogHasFiles, EditInv, Edits
<1>4. CASE SweepStart \/ Sweeper \/ ShutdownStart \/ Shutdown \/ Booting
  <2>1. /\ UNCHANGED <<catalog, dir, rmtrees>>
        /\ \A c \in Clients : task'[c] = task[c]
    <3>1. CASE SweepStart \/ ShutdownStart
      BY <1>1, <3>1 DEF SweepStart, ShutdownStart, TypeOK
    <3>2. CASE Sweeper
      BY <1>1, <3>2 DEF Sweeper, SweepEnters, SweepVisits, SweepEvicted, SweepEnds, Goes,
         Ends, Evict, TypeOK
    <3>3. CASE Shutdown
      BY <1>1, <3>3 DEF Shutdown, ShutdownEvicts, ShutdownEvicted, ShutdownEnds, Ends,
         Evict, TypeOK
    <3>4. CASE Booting
      BY <1>1, <3>4 DEF Booting, BootVisits, BootEnds, Starts, TypeOK
    <3>5. QED  BY <1>4, <3>1, <3>2, <3>3, <3>4
  <2>2. QED  BY <2>1 DEF FilesInv, CatalogHasFiles, EditInv, Edits
<1>5. QED  BY <1>2, <1>3, <1>4

LEMMA FilesStep == ~Overlap /\ IInv /\ FilesInv /\ [Next]_vars => FilesInv'
<1> SUFFICES ASSUME ~Overlap, IInv, FilesInv, [Next]_vars  PROVE FilesInv'
  OBVIOUS
<1> USE DEF disk, memory, sweep
<1>1. ASSUME UNCHANGED <<catalog, dir, rmtrees, task>>  PROVE FilesInv'
  BY <1>1 DEF FilesInv, CatalogHasFiles, EditInv, Edits
<1>2. CASE UNCHANGED vars
  BY <1>1, <1>2 DEF vars
<1>3. ASSUME NEW o \in Objs, FinishJobs(o) \/ StopEnds(o)  PROVE FilesInv'
  BY <1>1, <1>3 DEF FinishJobs, StopEnds
<1>4. ASSUME NEW n \in Names, OrphanRemoves(n)  PROVE FilesInv'
  <2>1. catalog[n] = 0 /\ \A m \in Names \ {n} : dir'[m] = dir[m]
    BY <1>4 DEF OrphanRemoves, FilesInv, IInv, TypeOK
  <2>2. QED  BY <1>4, <2>1 DEF OrphanRemoves, FilesInv, CatalogHasFiles, EditInv, Edits
<1>5. ASSUME NEW c \in Clients, RequestStep(c) \/ ClientStep(c)  PROVE FilesInv'
  BY <1>5, RequestFiles, ClientFiles
<1>6. QED
  BY <1>2, <1>3, <1>4, <1>5, TouchFiles, ProcessFiles DEF Next, ClientStep

\* A collection in the catalog has the files its own create made, through failed and
\* cancelled deletes, leftovers and crashes, if creates and deletes of one name come
\* one after the other.
THEOREM CataloguedHaveFiles ==
  ASSUME ~Overlap  PROVE Spec => []CatalogHasFiles
<1>1. Init => FilesInv
  BY RestType DEF Init, FilesInv, CatalogHasFiles, EditInv, Edits, Tasks
<1>2. FilesInv => CatalogHasFiles
  BY DEF FilesInv
<1>3. IInv /\ FilesInv /\ [Next]_vars => FilesInv'
  BY FilesStep
<1>4. QED  BY <1>1, <1>2, <1>3, Invariant, PTL DEF Spec
-----------------------------------------------------------------------------
\* Memory. While nobody ingests no journal has open jobs, so there is a victim.

LiveObjs == {o \in Objs : Live(o)}
BudgetInv ==
  used["enqueue"] = 0 => pending = {} /\ Cardinality(LiveObjs) <= MaxResident

\* One of a set of objects has been used least recently.
LEMMA LeastRecent ==
  ASSUME TypeOK, NEW S \in SUBSET Objs, S # {}
  PROVE  \E o \in S : \A q \in S : lastUsed[o] <= lastUsed[q]
<1> DEFINE Upto(o) == {q \in S : lastUsed[q] <= lastUsed[o]}
           F == {Upto(o) : o \in S}
<1>1. IsFiniteSet(Objs) /\ IsFiniteSet(S)
  <2>1. IsFiniteSet(Objs)
    BY FS_Interval, ManagerAssumption DEF Objs
  <2>2. QED  BY <2>1, FS_Subset
<1>2. F \subseteq FiniteSubsetsOf(S) /\ F # {}
  <2>1. ASSUME NEW o \in S  PROVE Upto(o) \in FiniteSubsetsOf(S)
    <3>1. Upto(o) \in SUBSET S
      OBVIOUS
    <3>2. IsFiniteSet(Upto(o))
      BY <1>1, <3>1, FS_Subset
    <3>3. QED  BY <3>1, <3>2 DEF FiniteSubsetsOf
  <2> HIDE DEF Upto
  <2>2. QED  BY <2>1
<1>3. PICK X \in F : \A Y \in F : <<Y, X>> \notin StrictSubsetOrdering(S)
  <2> DEFINE R == StrictSubsetOrdering(S)
             T == FiniteSubsetsOf(S)
  <2>1. IsWellFoundedOn(R, T)
    BY FS_StrictSubsetOrderingWellFounded
  <2> HIDE DEF R, T, F
  <2>2. F \subseteq T /\ F # {}
    BY <1>2 DEF T
  <2>3. \E X \in F : \A Y \in F : ~(<<Y, X>> \in R)
    BY <2>1, <2>2, WFMin
  <2>4. QED  BY <2>3 DEF R
<1>4. PICK o \in S : X = Upto(o)
  OBVIOUS
<1>5. \A q \in S : lastUsed[q] \in Nat
  BY ManagerAssumption DEF TypeOK, Objs
<1>6. ASSUME NEW q \in S, ~(lastUsed[o] <= lastUsed[q])  PROVE FALSE
  <2>1. Upto(q) \subseteq Upto(o) /\ Upto(o) # Upto(q)
    <3>1. o \in Upto(o) /\ o \notin Upto(q)
      BY <1>5, <1>6
    <3>2. Upto(q) \subseteq Upto(o)
      BY <1>5, <1>6
    <3>3. QED  BY <3>1, <3>2
  <2>2. <<Upto(q), X>> \in StrictSubsetOrdering(S)
    BY <1>4, <2>1 DEF StrictSubsetOrdering
  <2>3. QED  BY <1>3, <1>6, <2>2
<1>7. QED  BY <1>6

LEMMA LiveFinite ==
  /\ IsFiniteSet(LiveObjs) /\ Cardinality(LiveObjs) \in Nat
  /\ MaxResident \in Nat \ {0}
<1>1. IsFiniteSet(Objs)
  BY FS_Interval, ManagerAssumption DEF Objs
<1>2. LiveObjs \in SUBSET Objs
  BY DEF LiveObjs
<1>3. QED  BY <1>1, <1>2, FS_Subset, FS_CardinalityType, ManagerAssumption

\* A step that opens no object, and no job while nobody has.
LEMMA BudgetFrame ==
  ASSUME BudgetInv, LiveObjs' \subseteq LiveObjs,
         used'["enqueue"] = 0 => used["enqueue"] = 0 /\ pending' \subseteq pending
  PROVE  BudgetInv'
<1>1. Cardinality(LiveObjs') <= Cardinality(LiveObjs)
  BY LiveFinite, FS_Subset
<1>2. Cardinality(LiveObjs') \in Nat
  BY LiveFinite, FS_Subset, FS_CardinalityType
<1>3. QED  BY <1>1, <1>2, LiveFinite DEF BudgetInv

\* The counter of one kind of event never goes back.
LEMMA SpendCounts ==
  ASSUME TypeOK, NEW e \in Events, Spend(e)
  PROVE  /\ used'["enqueue"] = 0 => used["enqueue"] = 0
         /\ e = "enqueue" => used'["enqueue"] # 0
<1>1. used \in [Events -> Nat] /\ used["enqueue"] \in Nat /\ used[e] \in Nat
  BY DEF TypeOK, Events
<1>2. QED  BY <1>1 DEF Spend, Events

\* What is built fits: else the least recently used collection is evicted first.
LEMMA BuildsFit ==
  ASSUME IInv, BudgetInv, NEW t \in Clients \cup {"boot"}, TouchBuilds(t)
  PROVE  BudgetInv'
<1> USE DEF disk, memory, sweep
<1> SUFFICES ASSUME used'["enqueue"] = 0
             PROVE  pending' = {} /\ Cardinality(LiveObjs') <= MaxResident
  BY DEF BudgetInv
<1>1. /\ t \in Tasks /\ TypeOK
      /\ UNCHANGED <<used, pending>> /\ pending = {} /\ Cardinality(LiveObjs) <= MaxResident
  BY DEF TouchBuilds, BudgetInv, Tasks, IInv
<1>2. PICK o \in Objs : /\ objs' = [objs EXCEPT ![o] = [name |-> task[t].name, made |-> 0,
                                       row |-> catalog[task[t].name], st |-> "building"]]
  BY DEF TouchBuilds
<1>3. LiveObjs' = LiveObjs \cup {o}
  BY <1>1, <1>2 DEF LiveObjs, Live, TypeOK, ObjTypes
<1>4. LiveObjs = resident
  <2>1. /\ lock \in {t, "free"} /\ task[t].pc \in {"lock", "inside"}
    BY DEF TouchBuilds, Loads, Touching, Inside
  <2>2. phase # "closing"
    BY <2>1, ManagerAssumption DEF IInv, OwnershipInv, PhaseInv
  <2>3. \A q \in Objs : objs[q].st \notin {"building", "stopping"}
    BY <1>1, <2>1, <2>2, AloneInLock
  <2>4. QED
    BY <1>1, <2>3 DEF LiveObjs, Live, IInv, OwnershipInv, ObjInv, TypeOK
<1>5. ~Full
  <2>1. SUFFICES ASSUME Full  PROVE \E q \in resident : Victim(q)
    BY DEF TouchBuilds
  <2>2. resident # {}
    <3>1. Cardinality({}) = 0
      BY FS_EmptySet
    <3>2. Cardinality(resident) # 0
      BY <2>1, LiveFinite DEF Full
    <3>3. QED  BY <3>1, <3>2
  <2>3. PICK q \in resident : \A p \in resident : lastUsed[q] <= lastUsed[p]
    BY <1>1, <2>2, LeastRecent DEF TypeOK
  <2>4. Victim(q)
    BY <1>1, <2>3 DEF Victim, NoPendingJobs
  <2>5. QED  BY <2>4
<1>6. Cardinality(LiveObjs) < MaxResident
  BY <1>4, <1>5, LiveFinite DEF Full
<1>7. Cardinality(LiveObjs') <= Cardinality(LiveObjs) + 1
  <2>1. Cardinality(LiveObjs \cup {o}) \in {Cardinality(LiveObjs), Cardinality(LiveObjs) + 1}
    BY LiveFinite, FS_AddElement
  <2>2. QED  BY <1>3, <2>1, LiveFinite
<1>8. Cardinality(LiveObjs') \in Nat
  BY <1>3, LiveFinite, FS_AddElement, FS_CardinalityType
<1>9. QED  BY <1>1, <1>6, <1>7, <1>8, LiveFinite

LEMMA EvictLive ==
  ASSUME IInv, NEW t, NEW o \in resident, Evict(t, o)
  PROVE  LiveObjs' \subseteq LiveObjs
<1>1. o \in Objs /\ objs[o].st = "open" /\ objs \in [Objs -> ObjTypes]
  BY DEF IInv, TypeOK, OwnershipInv, ObjInv
<1>2. QED  BY <1>1 DEF Evict, LiveObjs, Live, ObjTypes

LEMMA TouchBudget ==
  ASSUME IInv, BudgetInv, NEW t \in Clients \cup {"boot"}, TouchStep(t)
  PROVE  BudgetInv'
<1> USE DEF disk, memory, sweep
<1>1. CASE TouchFinds(t) \/ TouchMisses(t) \/ TouchEvicted(t) \/ Release(t)
  <2>1. UNCHANGED <<objs, pending, used>>
    BY <1>1 DEF TouchFinds, TouchMisses, TouchEvicted, Release
  <2>2. QED  BY <2>1, BudgetFrame DEF LiveObjs, Live
<1>2. CASE TouchEvicts(t)
  <2>1. LiveObjs' \subseteq LiveObjs
    BY <1>2, EvictLive DEF TouchEvicts
  <2>2. QED  BY <1>2, <2>1, BudgetFrame DEF TouchEvicts
<1>3. CASE BuildEnds(t) \/ BuildFails(t)
  <2>1. /\ task[t].obj \in Objs /\ objs[task[t].obj].st = "building"
        /\ objs \in [Objs -> ObjTypes] /\ TypeOK
    BY <1>3 DEF BuildEnds, BuildFails, IInv, TypeOK, OwnershipInv, TaskInv, Tasks
  <2>2. /\ \A q \in Objs \ {task[t].obj} : objs'[q] = objs[q]
        /\ UNCHANGED pending
    BY <1>3, <2>1 DEF BuildEnds, BuildFails
  <2>3. used'["enqueue"] = 0 => used["enqueue"] = 0
    BY <1>3, <2>1, SpendCounts DEF BuildEnds, BuildFails, Events
  <2>4. LiveObjs' \subseteq LiveObjs
    BY <2>1, <2>2 DEF LiveObjs, Live
  <2>5. QED  BY <2>2, <2>3, <2>4, BudgetFrame
<1>4. CASE TouchBuilds(t)
  BY <1>4, BuildsFit
<1>5. QED  BY <1>1, <1>2, <1>3, <1>4 DEF TouchStep

LEMMA RequestBudget ==
  ASSUME IInv, BudgetInv, NEW c \in Clients, RequestStep(c) \/ ClientStep(c)
  PROVE  BudgetInv'
<1> USE DEF disk, memory, sweep
<1>1. CASE DeleteEvicts(c)
  <2>1. LiveObjs' \subseteq LiveObjs
    BY <1>1, EvictLive DEF DeleteEvicts, ResidentAs
  <2>2. QED  BY <1>1, <2>1, BudgetFrame DEF DeleteEvicts
<1>2. CASE Enqueue(c)
  <2>1. used'["enqueue"] # 0
    BY <1>2, SpendCounts DEF Enqueue, IInv, Events
  <2>2. QED  BY <2>1 DEF BudgetInv
<1>3. CASE \/ DeleteRow(c) \/ DeleteAbandoned(c) \/ RemoveFiles(c) \/ ProbeEnds(c)
           \/ RemoveLeftover(c) \/ MakeDirectory(c) \/ Cancel(c)
           \/ \E n \in Names : Touch(c, n) \/ Delete(c, n) \/ Create(c, n)
  <2>1. UNCHANGED <<objs, pending>>
    BY <1>3 DEF DeleteRow, DeleteAbandoned, RemoveFiles, ProbeEnds, RemoveLeftover,
      MakeDirectory, Cancel, Touch, Delete, Create
  <2>2. UNCHANGED used \/ Spend("fault") \/ Spend("cancel")
    BY <1>3 DEF DeleteRow, DeleteAbandoned, RemoveFiles, ProbeEnds, RemoveLeftover,
      MakeDirectory, Cancel, Touch, Delete, Create
  <2>3. used'["enqueue"] = 0 => used["enqueue"] = 0
    BY <2>2, SpendCounts DEF IInv, Events
  <2>4. QED  BY <2>1, <2>3, BudgetFrame DEF LiveObjs, Live
<1>4. QED  BY <1>1, <1>2, <1>3 DEF RequestStep, ClientStep

LEMMA ProcessBudget ==
  ASSUME IInv, BudgetInv,
         SweepStart \/ Sweeper \/ ShutdownStart \/ Shutdown \/ Crash \/ Boot \/ Booting
  PROVE  BudgetInv'
<1> USE DEF disk, memory, sweep
<1>1. CASE SweepVisits
  <2>1. todo \subseteq resident
    BY <1>1 DEF SweepVisits, IInv, OwnershipInv, TodoInv
  <2>2. LiveObjs' \subseteq LiveObjs
    <3>1. CASE \E o \in todo : Evict("sweeper", o)
      BY <2>1, <3>1, EvictLive
    <3>2. CASE UNCHANGED objs
      BY <3>2 DEF LiveObjs, Live
    <3>3. QED  BY <1>1, <3>1, <3>2 DEF SweepVisits
  <2>3. QED  BY <1>1, <2>2, BudgetFrame DEF SweepVisits
<1>2. CASE ShutdownEvicts
  <2>1. todo \subseteq resident
    BY <1>2 DEF ShutdownEvicts, IInv, OwnershipInv, TodoInv
  <2>2. LiveObjs' \subseteq LiveObjs
    BY <1>2, <2>1, EvictLive DEF ShutdownEvicts
  <2>3. QED  BY <1>2, <2>2, BudgetFrame DEF ShutdownEvicts
<1>3. CASE Crash \/ Boot
  <2>1. LiveObjs' = {}
    BY <1>3, BlankType DEF Crash, Boot, LiveObjs, Live
  <2>2. UNCHANGED pending /\ (UNCHANGED used \/ Spend("crash"))
    BY <1>3 DEF Crash, Boot
  <2>3. used'["enqueue"] = 0 => used["enqueue"] = 0
    BY <2>2, SpendCounts DEF IInv, Events
  <2>4. QED  BY <2>1, <2>2, <2>3, BudgetFrame
<1>4. CASE \/ SweepStart \/ SweepEnters \/ SweepEvicted \/ SweepEnds \/ ShutdownStart
           \/ ShutdownEvicted \/ ShutdownEnds \/ Booting
  <2>1. UNCHANGED <<objs, pending>>
    BY <1>4 DEF SweepStart, SweepEnters, SweepEvicted, SweepEnds, ShutdownStart,
      ShutdownEvicted, ShutdownEnds, Booting, BootVisits, BootEnds
  <2>2. UNCHANGED used \/ Spend("sweep") \/ Spend("shutdown")
    BY <1>4 DEF SweepStart, SweepEnters, SweepEvicted, SweepEnds, ShutdownStart,
      ShutdownEvicted, ShutdownEnds, Booting, BootVisits, BootEnds
  <2>3. used'["enqueue"] = 0 => used["enqueue"] = 0
    BY <2>2, SpendCounts DEF IInv, Events
  <2>4. QED  BY <2>1, <2>3, BudgetFrame DEF LiveObjs, Live
<1>5. QED  BY <1>1, <1>2, <1>3, <1>4 DEF Sweeper, Shutdown

LEMMA BudgetStep == IInv /\ BudgetInv /\ [Next]_vars => BudgetInv'
<1> SUFFICES ASSUME IInv, BudgetInv, [Next]_vars  PROVE BudgetInv'
  OBVIOUS
<1> USE DEF disk, memory, sweep
<1>1. CASE UNCHANGED vars
  BY <1>1 DEF vars, BudgetInv, LiveObjs, Live
<1>2. ASSUME NEW o \in Objs, FinishJobs(o)  PROVE BudgetInv'
  BY <1>2, BudgetFrame DEF FinishJobs, LiveObjs, Live
<1>3. ASSUME NEW o \in Objs, StopEnds(o)  PROVE BudgetInv'
  <2>1. LiveObjs' \subseteq LiveObjs
    BY <1>3 DEF StopEnds, LiveObjs, Live, IInv, TypeOK, ObjTypes
  <2>2. QED  BY <1>3, <2>1, BudgetFrame DEF StopEnds
<1>4. ASSUME NEW n \in Names, OrphanRemoves(n)  PROVE BudgetInv'
  BY <1>4, BudgetFrame DEF OrphanRemoves, LiveObjs, Live
<1>5. ASSUME NEW c \in Clients, RequestStep(c) \/ ClientStep(c)  PROVE BudgetInv'
  BY <1>5, RequestBudget
<1>6. QED
  BY <1>1, <1>2, <1>3, <1>4, <1>5, TouchBudget, ProcessBudget DEF Next, ClientStep

\* While nobody ingests, collections that are loaded, loading or closing are never
\* more than max_resident_collections: an eviction ends before the next load begins.
THEOREM MemoryIsBounded == Spec => []WithinBudget
<1>1. Init => BudgetInv
  <2>1. Init => LiveObjs = {}
    BY BlankType DEF Init, LiveObjs, Live
  <2>2. QED  BY <2>1, FS_EmptySet, ManagerAssumption DEF Init, BudgetInv
<1>2. BudgetInv => WithinBudget
  BY DEF BudgetInv, WithinBudget, LiveObjs
<1>3. QED  BY <1>1, <1>2, BudgetStep, Invariant, PTL DEF Spec
==============================================================================
