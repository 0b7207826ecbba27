------------------------------- MODULE Manager -------------------------------
(***************************************************************************)
(* The collection manager (store.py, class CollectionManager) under the    *)
(* lifespan of app.py: the catalog and the collection directories on disk, *)
(* the collections kept in memory with their LRU cap and idle sweep, and   *)
(* the requests that create, touch and delete them while stop() runs.      *)
(*                                                                         *)
(* A collection is its directory's identity: the number of the create that *)
(* made the files, with a journal that is empty or not (`pending`). The    *)
(* event loop runs one task at a time; a step ends where a task awaits.    *)
(***************************************************************************)
EXTENDS Integers, FiniteSets

CONSTANTS
  Names,        \* collection names
  Clients,      \* concurrent requests
  MaxResident,  \* Settings.max_resident_collections
  Catalog0,     \* the collections there are at first, by name
  Created0,     \* how many that is
  MaxCreates,   \* bound: numbers of creates, those of Catalog0 included
  Slots,        \* bound: Collection objects that exist at one time
  Ops,          \* what clients do: "touch", "create", "delete"
  ProbesDim,    \* do creates ask the embedding endpoint for the dimension?
  Overlap,      \* may creates and deletes of one name overlap?
  Limit         \* bounds: how often each kind of event happens

Events == {"crash", "cancel", "fault", "shutdown", "sweep", "enqueue"}

Tasks == Clients \cup {"boot", "sweeper", "shutdown"}
Objs  == 1..Slots
Blank == [name |-> CHOOSE n \in Names : TRUE, row |-> 0, made |-> 0, st |-> "none"]
Rest  == [op |-> "none", pc |-> "idle", name |-> Blank.name, obj |-> 0,
          dropped |-> FALSE]

ASSUME ManagerAssumption ==
  /\ IsFiniteSet(Names) /\ Names # {}
  /\ IsFiniteSet(Clients) /\ Clients \cap {"boot", "sweeper", "shutdown", "free"} = {}
  /\ MaxResident \in Nat \ {0} /\ MaxCreates \in Nat /\ Slots \in Nat
  /\ Catalog0 \in [Names -> Nat] /\ Created0 \in Nat
  /\ ProbesDim \in BOOLEAN /\ Overlap \in BOOLEAN
  /\ Limit \in [Events -> Nat]

VARIABLES
  catalog,   \* the rows of catalog.db: the create each name belongs to, or 0
  creates,   \* how many creates have made files
  dir,       \* whose files each name's directory holds, or 0: no directory
  pending,   \* creates whose journal has open jobs
  objs,      \* the Collection objects
  resident,  \* manager.resident
  lastUsed,  \* the objects' order by last_used
  lock,      \* who holds _load_lock, or "free"
  task,      \* where each task is
  todo,      \* the objects a sweep or the shutdown has still to visit
  stale,     \* objects not used since the sweep took its cutoff
  toResume,  \* the names resume_pending has still to visit
  rmtrees,   \* rmtree threads whose caller was cancelled, by name
  phase,     \* the process
  used       \* how often each bounded event, and each create, has happened

disk   == <<catalog, creates, dir, pending>>
memory == <<objs, resident, lastUsed>>
sweep  == <<todo, stale, toResume>>
vars   == <<disk, memory, lock, task, sweep, rmtrees, phase, used>>

Init ==
  /\ catalog = Catalog0 /\ dir = Catalog0 /\ pending = {}
  /\ creates = Created0
  /\ objs = [o \in Objs |-> Blank]
  /\ resident = {} /\ lastUsed = [o \in Objs |-> o]
  /\ lock = "free"
  /\ task = [t \in Tasks |-> Rest]
  /\ todo = {} /\ stale = {} /\ toResume = {} /\ rmtrees = {}
  /\ phase = "up"
  /\ used = [e \in Events |-> 0]

-----------------------------------------------------------------------------
Spend(e) == used[e] < Limit[e] /\ used' = [used EXCEPT ![e] = @ + 1]

Live(o) == objs[o].st \in {"building", "open", "stopping"}
ResidentAs(n) == {o \in resident : objs[o].name = n}
NoPendingJobs(o) == objs[o].made \notin pending

\* A task starts, goes on, ends.
Starts(t, op, pc, n, o) ==
  task' = [task EXCEPT ![t] = [op |-> op, pc |-> pc, name |-> n, obj |-> o,
                               dropped |-> FALSE]]
Goes(t, pc) == task' = [task EXCEPT ![t].pc = pc]
Ends(t) == task' = [task EXCEPT ![t] = Rest]

\* last_used = now: o becomes the most recently used object.
Used(o) ==
  /\ lastUsed' = [q \in Objs |-> IF q = o THEN Slots
                                 ELSE IF lastUsed[q] > lastUsed[o] THEN lastUsed[q] - 1
                                 ELSE lastUsed[q]]
  /\ stale' = stale \ {o}

\* The task runs inside _load_lock: it has it, or it is free and it takes it.
Inside(t) == \/ task[t].pc = "lock" /\ lock = "free"
             \/ task[t].pc = "inside" /\ lock = t

\* _evict: out of `resident` first, then stop() as a task of its own.
Evict(t, o) ==
  /\ resident' = resident \ {o}
  /\ objs' = [objs EXCEPT ![o].st = "stopping"]
  /\ task' = [task EXCEPT ![t].pc = "stopping", ![t].obj = o]

\* Both ends of the awaited stop(): it ended, or its caller was cancelled and
\* has waited for the end all the same.
StopAwaitedUnlessCancelled(t) == \* fault: a cancelled caller does not wait
  task[t].pc = "stopping" /\ (objs[task[t].obj].st = "closed" \/ task[t].dropped)
StopAwaited(t) == task[t].pc = "stopping" /\ objs[task[t].obj].st = "closed"

\* A create or delete of n is under way, or a thread of one.
Busy(n) == \/ n \in rmtrees
           \/ \E c \in Clients : task[c].op \in {"create", "delete"} /\ task[c].name = n

-----------------------------------------------------------------------------
\* touch: a resident collection is returned at once, else the lock is awaited.
Touch(c, n) ==
  /\ phase = "up" /\ "touch" \in Ops
  /\ task[c].pc = "idle"
  /\ IF ResidentAs(n) # {}
     THEN \E o \in ResidentAs(n) :
            /\ Used(o)
            /\ Starts(c, "touch", "have", n, o)
     ELSE /\ Starts(c, "touch", "lock", n, 0)
          /\ UNCHANGED <<lastUsed, stale>>
  /\ UNCHANGED <<disk, objs, resident, lock, todo, toResume, rmtrees, phase, used>>

Touching(t) == task[t].op = "touch" /\ Inside(t)

\* Another task has loaded it meanwhile.
TouchFinds(t) ==
  /\ Touching(t)
  /\ \E o \in ResidentAs(task[t].name) :
       /\ Used(o)
       /\ task' = [task EXCEPT ![t].pc = "have", ![t].obj = o]
  /\ lock' = "free"
  /\ UNCHANGED <<disk, objs, resident, todo, toResume, rmtrees, phase, used>>

TouchRetries(t) == \* fault: a request for a name without a row tries again
  /\ Touching(t)
  /\ ResidentAs(task[t].name) = {}
  /\ catalog[task[t].name] = 0
  /\ Goes(t, "lock")
  /\ lock' = "free"
  /\ UNCHANGED <<disk, memory, sweep, rmtrees, phase, used>>

\* No row: KeyError, a 404.
TouchMisses(t) ==
  /\ Touching(t)
  /\ ResidentAs(task[t].name) = {}
  /\ catalog[task[t].name] = 0
  /\ Ends(t)
  /\ lock' = "free"
  /\ UNCHANGED <<disk, memory, sweep, rmtrees, phase, used>>

\* The least recently used collection without open jobs.
Victim(o) ==
  /\ o \in resident /\ NoPendingJobs(o)
  /\ \A q \in resident : NoPendingJobs(q) => lastUsed[o] <= lastUsed[q]

Loads(t) == /\ Touching(t)
            /\ ResidentAs(task[t].name) = {}
            /\ catalog[task[t].name] # 0

FullLate == Cardinality(resident) > MaxResident  \* fault: off by one
Full == Cardinality(resident) >= MaxResident

TouchEvicts(t) ==
  /\ Loads(t)
  /\ Full
  /\ \E o \in resident : Victim(o) /\ Evict(t, o)
  /\ lock' = t
  /\ UNCHANGED <<disk, lastUsed, sweep, rmtrees, phase, used>>

TouchEvicted(t) ==
  /\ task[t].op = "touch" /\ StopAwaited(t)
  /\ IF task[t].dropped THEN Ends(t) /\ lock' = "free"
     ELSE task' = [task EXCEPT ![t].pc = "inside", ![t].obj = 0] /\ UNCHANGED lock
  /\ UNCHANGED <<disk, memory, sweep, rmtrees, phase, used>>

Free(o) == objs[o].st \in {"none", "closed"} /\ \A t \in Tasks : task[t].obj # o

\* _construct: the collection is built on a thread. Over budget when every
\* resident collection has open jobs.
TouchBuilds(t) ==
  /\ Loads(t)
  /\ Full => ~ \E o \in resident : Victim(o)
  /\ \E o \in Objs :
       /\ Free(o) /\ \A q \in Objs : Free(q) => o <= q
       /\ objs' = [objs EXCEPT ![o] = [name |-> task[t].name, made |-> 0,
                                       row |-> catalog[task[t].name],
                                       st |-> "building"]]
       /\ task' = [task EXCEPT ![t].pc = "building", ![t].obj = o]
  /\ lock' = t
  /\ UNCHANGED <<disk, resident, lastUsed, sweep, rmtrees, phase, used>>

\* The build ends and is registered, whether or not its caller was cancelled.
BuiltUnregistered(t, o) == \* fault: a cancelled caller drops the collection
  IF task[t].dropped THEN Ends(t) /\ UNCHANGED resident
  ELSE resident' = resident \cup {o} /\ Goes(t, "have")
Built(t, o) ==
  /\ resident' = resident \cup {o}
  /\ IF task[t].dropped THEN Ends(t) ELSE Goes(t, "have")

BuildEnds(t) ==
  LET o == task[t].obj
      n == task[t].name
  IN  /\ task[t].pc = "building"
      /\ dir[n] # 0
      /\ objs' = [objs EXCEPT ![o].st = "open", ![o].made = dir[n]]
      /\ Built(t, o)
      /\ Used(o)
      /\ lock' = "free"
      /\ UNCHANGED <<disk, todo, toResume, rmtrees, phase, used>>

\* A build that raises, always so when the directory is gone.
BuildFails(t) ==
  /\ task[t].pc = "building"
  /\ \/ dir[task[t].name] = 0 /\ UNCHANGED used
     \/ dir[task[t].name] # 0 /\ Spend("fault")
  /\ objs' = [objs EXCEPT ![task[t].obj].st = "closed"]
  /\ Ends(t)
  /\ lock' = "free"
  /\ phase' = IF t = "boot" THEN "failed" ELSE phase
  /\ UNCHANGED <<disk, resident, lastUsed, sweep, rmtrees>>

\* The request journals a job on the object it holds, if that is not closed yet.
Enqueue(c) ==
  LET o == task[c].obj
  IN  /\ task[c].pc = "have" /\ c \in Clients
      /\ objs[o].st \in {"open", "stopping"}
      /\ Spend("enqueue")
      /\ pending' = pending \cup {objs[o].made}
      /\ Ends(c)
      /\ UNCHANGED <<catalog, creates, dir, memory, lock, sweep, rmtrees, phase>>

\* Any other use of it, or the closed error.
Release(t) ==
  /\ task[t].pc = "have"
  /\ Ends(t)
  /\ UNCHANGED <<disk, memory, lock, sweep, rmtrees, phase, used>>

\* The collection's worker, or the last sync of its stop(), ends its open jobs.
FinishJobs(o) ==
  /\ objs[o].st \in {"open", "stopping"}
  /\ objs[o].made \in pending
  /\ pending' = pending \ {objs[o].made}
  /\ UNCHANGED <<catalog, creates, dir, memory, lock, task, sweep, rmtrees, phase, used>>

StopEnds(o) ==
  /\ objs[o].st = "stopping"
  /\ objs' = [objs EXCEPT ![o].st = "closed"]
  /\ UNCHANGED <<disk, resident, lastUsed, lock, task, sweep, rmtrees, phase, used>>

-----------------------------------------------------------------------------
\* delete_collection, once the handler has found the row.
Delete(c, n) ==
  /\ phase = "up" /\ "delete" \in Ops
  /\ task[c].pc = "idle"
  /\ catalog[n] # 0
  /\ Overlap \/ ~Busy(n)
  /\ Starts(c, "delete", "lock", n, 0)
  /\ UNCHANGED <<disk, memory, lock, sweep, rmtrees, phase, used>>

Deleting(c) == task[c].op = "delete" /\ Inside(c)

DeleteEvicts(c) ==
  /\ Deleting(c)
  /\ \E o \in ResidentAs(task[c].name) : Evict(c, o)
  /\ lock' = c
  /\ UNCHANGED <<disk, lastUsed, sweep, rmtrees, phase, used>>

DeleteRowUnlocked(c) == \* fault: the lock covers the eviction only
  /\ task[c].op = "delete"
  /\ \/ Inside(c) /\ ResidentAs(task[c].name) = {} /\ Goes(c, "closing") /\ lock' = "free"
        /\ UNCHANGED catalog
     \/ StopAwaited(c) /\ ~task[c].dropped /\ lock' = "free"
        /\ task' = [task EXCEPT ![c].pc = "closing", ![c].obj = 0]
        /\ UNCHANGED catalog
     \/ task[c].pc = "closing" /\ Goes(c, "rmtree") /\ UNCHANGED lock
        /\ catalog' = [catalog EXCEPT ![task[c].name] = 0]
  /\ UNCHANGED <<creates, dir, pending, memory, sweep, rmtrees, phase, used>>

\* The row goes while the lock is still held, the files after it.
DeleteRow(c) ==
  /\ \/ Deleting(c) /\ ResidentAs(task[c].name) = {}
     \/ task[c].op = "delete" /\ StopAwaited(c) /\ ~task[c].dropped
  /\ catalog' = [catalog EXCEPT ![task[c].name] = 0]
  /\ task' = [task EXCEPT ![c].pc = "rmtree", ![c].obj = 0]
  /\ lock' = "free"
  /\ UNCHANGED <<creates, dir, pending, memory, sweep, rmtrees, phase, used>>

\* A delete cancelled during the stop() raises once that has ended.
DeleteAbandoned(c) ==
  /\ task[c].op = "delete" /\ StopAwaited(c) /\ task[c].dropped
  /\ Ends(c)
  /\ lock' = "free"
  /\ UNCHANGED <<disk, memory, sweep, rmtrees, phase, used>>

\* The rmtree, without the lock: what is there is removed, errors are ignored.
RemoveFiles(c) ==
  /\ task[c].op = "delete" /\ task[c].pc = "rmtree"
  /\ \/ dir' = [dir EXCEPT ![task[c].name] = 0] /\ UNCHANGED used
     \/ Spend("fault") /\ UNCHANGED dir
  /\ Ends(c)
  /\ UNCHANGED <<catalog, creates, pending, memory, lock, sweep, rmtrees, phase>>

OrphanRemoves(n) ==
  /\ n \in rmtrees
  /\ rmtrees' = rmtrees \ {n}
  /\ dir' = [dir EXCEPT ![n] = 0]
  /\ UNCHANGED <<catalog, creates, pending, memory, lock, task, sweep, phase, used>>

-----------------------------------------------------------------------------
\* create_collection from the directory check on: what a crashed create or a
\* failed delete left is removed first, on a thread. Files and row are made in
\* one step of the loop; the row of a name that got one meanwhile is refused.
MakeFiles(c, n) ==
  /\ creates' = creates + 1
  /\ dir' = [dir EXCEPT ![n] = creates']
  /\ catalog' = IF catalog[n] = 0 THEN [catalog EXCEPT ![n] = creates'] ELSE catalog
  /\ Ends(c)

KeepsLeftover(c, n) == \* fault: a directory that is there is used
  IF dir[n] = 0 THEN MakeFiles(c, n)
  ELSE /\ catalog' = IF catalog[n] = 0 THEN [catalog EXCEPT ![n] = creates + 1]
                     ELSE catalog
       /\ creates' = creates + 1
       /\ Ends(c) /\ UNCHANGED dir

Makes(c, n) ==
  IF dir[n] = 0 THEN MakeFiles(c, n)
  ELSE /\ Starts(c, "create", "rmtree", n, 0)
       /\ UNCHANGED <<catalog, dir, creates>>

Create(c, n) ==
  /\ phase = "up" /\ "create" \in Ops
  /\ task[c].pc = "idle"
  /\ catalog[n] = 0
  /\ Overlap \/ ~Busy(n)
  /\ creates + Cardinality({q \in Clients : task[q].op = "create"}) < MaxCreates
  /\ IF ProbesDim
     THEN /\ Starts(c, "create", "probe", n, 0)
          /\ UNCHANGED <<catalog, dir, creates>>
     ELSE Makes(c, n)
  /\ UNCHANGED <<pending, memory, lock, sweep, rmtrees, phase, used>>

\* The embedding endpoint answers with a vector of the dimension, or fails.
ProbeEnds(c) ==
  /\ task[c].pc = "probe"
  /\ \/ Makes(c, task[c].name) /\ UNCHANGED used
     \/ Ends(c) /\ Spend("fault") /\ UNCHANGED <<catalog, dir, creates>>
  /\ UNCHANGED <<pending, memory, lock, sweep, rmtrees, phase>>

\* The rmtree of the leftover; it raises when another one was faster.
RemoveLeftover(c) ==
  LET n == task[c].name
  IN  /\ task[c].op = "create" /\ task[c].pc = "rmtree"
      /\ IF dir[n] = 0 THEN Ends(c) ELSE Goes(c, "mkdir")
      /\ dir' = [dir EXCEPT ![n] = 0]
      /\ UNCHANGED <<catalog, pending, creates, memory, lock, sweep, rmtrees, phase,
                     used>>

\* mkdir raises on a directory another create has made meanwhile.
MakeDirectory(c) ==
  LET n == task[c].name
  IN  /\ task[c].pc = "mkdir"
      /\ IF dir[n] = 0 THEN MakeFiles(c, n)
         ELSE Ends(c) /\ UNCHANGED <<catalog, dir, creates>>
      /\ UNCHANGED <<pending, memory, lock, sweep, rmtrees, phase, used>>

\* A request is cancelled. Inside _evict and _construct that takes effect when
\* the stop() or the build has ended; a thread of an rmtree runs on.
Cancel(c) ==
  /\ task[c].pc \in {"lock", "probe", "stopping", "building", "rmtree"}
  /\ Spend("cancel")
  /\ IF task[c].pc \in {"stopping", "building"}
     THEN task' = [task EXCEPT ![c].dropped = TRUE]
     ELSE Ends(c)
  /\ rmtrees' = IF task[c].pc = "rmtree" THEN rmtrees \cup {task[c].name} ELSE rmtrees
  /\ UNCHANGED <<disk, memory, lock, sweep, phase>>

-----------------------------------------------------------------------------
\* housekeeping: the cutoff is taken, then the lock, then a snapshot of the
\* resident collections; each is judged when its turn comes.
SweepStart ==
  /\ phase = "up"
  /\ task["sweeper"].pc = "idle"
  /\ Spend("sweep")
  /\ stale' \in SUBSET resident
  /\ \A o \in stale', q \in resident : lastUsed[q] < lastUsed[o] => q \in stale'
  /\ task' = [task EXCEPT !["sweeper"] = [Rest EXCEPT !.op = "sweep", !.pc = "lock"]]
  /\ UNCHANGED <<disk, memory, lock, todo, toResume, rmtrees, phase>>

SweepEnters ==
  /\ task["sweeper"].op = "sweep" /\ Inside("sweeper")
  /\ todo' = resident
  /\ Goes("sweeper", "sweeping")
  /\ lock' = "sweeper"
  /\ UNCHANGED <<disk, memory, stale, toResume, rmtrees, phase, used>>

SweepVisits ==
  /\ task["sweeper"].pc = "sweeping"
  /\ \E o \in todo :
       /\ todo' = todo \ {o}
       /\ IF o \in stale /\ NoPendingJobs(o)
          THEN Evict("sweeper", o)
          ELSE UNCHANGED <<objs, resident, task>>
  /\ UNCHANGED <<disk, lastUsed, lock, stale, toResume, rmtrees, phase, used>>

SweepEvicted ==
  /\ task["sweeper"].op = "sweep" /\ StopAwaited("sweeper")
  /\ IF task["sweeper"].dropped THEN Ends("sweeper") /\ lock' = "free"
     ELSE /\ task' = [task EXCEPT !["sweeper"].pc = "sweeping", !["sweeper"].obj = 0]
          /\ UNCHANGED lock
  /\ UNCHANGED <<disk, memory, sweep, rmtrees, phase, used>>

SweepEnds ==
  /\ task["sweeper"].pc = "sweeping"
  /\ todo = {}
  /\ Ends("sweeper")
  /\ lock' = "free"
  /\ UNCHANGED <<disk, memory, sweep, rmtrees, phase, used>>

-----------------------------------------------------------------------------
\* The server has drained its requests; the lifespan cancels housekeeping,
\* without awaiting it, and runs shutdown(), which takes no lock.
ShutdownStart ==
  /\ phase = "up"
  /\ \A c \in Clients : task[c].pc = "idle"
  /\ task["sweeper"].pc # "sweeping"
  /\ Spend("shutdown")
  /\ phase' = "closing"
  /\ todo' = resident
  /\ task' = [task EXCEPT
       !["shutdown"] = [Rest EXCEPT !.op = "shutdown", !.pc = "closing"],
       !["sweeper"] = IF @.pc = "stopping" THEN [@ EXCEPT !.dropped = TRUE] ELSE Rest]
  /\ UNCHANGED <<disk, memory, lock, stale, toResume, rmtrees>>

ShutdownEvicts ==
  /\ task["shutdown"].pc = "closing"
  /\ \E o \in todo : todo' = todo \ {o} /\ Evict("shutdown", o)
  /\ UNCHANGED <<disk, lastUsed, lock, stale, toResume, rmtrees, phase, used>>

ShutdownEvicted ==
  /\ task["shutdown"].op = "shutdown" /\ StopAwaited("shutdown")
  /\ task' = [task EXCEPT !["shutdown"].pc = "closing", !["shutdown"].obj = 0]
  /\ UNCHANGED <<disk, memory, lock, sweep, rmtrees, phase, used>>

\* An eviction whose caller was cancelled may still be under way.
ShutdownEndsEarly == \* fault: _stopping is not waited for
  /\ task["shutdown"].pc = "closing"
  /\ todo = {}
  /\ phase' = "exited"
  /\ Ends("shutdown")
  /\ UNCHANGED <<disk, memory, lock, sweep, rmtrees, used>>

ShutdownEnds ==
  /\ task["shutdown"].pc = "closing"
  /\ todo = {}
  /\ \A o \in Objs : objs[o].st # "stopping"
  /\ phase' = "exited"
  /\ Ends("shutdown")
  /\ UNCHANGED <<disk, memory, lock, sweep, rmtrees, used>>

\* The process dies, perhaps between a create's files and its row.
Crash ==
  /\ phase \in {"boot", "up", "closing"}
  /\ Spend("crash")
  /\ phase' = "exited"
  /\ objs' = [o \in Objs |-> Blank]
  /\ resident' = {} /\ todo' = {} /\ stale' = {} /\ rmtrees' = {}
  /\ lock' = "free"
  /\ task' = [t \in Tasks |-> Rest]
  /\ \/ UNCHANGED <<dir, creates>>
     \/ /\ creates < MaxCreates
        /\ creates' = creates + 1
        /\ \E n \in Names : /\ catalog[n] = 0 /\ dir[n] = 0
                            /\ dir' = [dir EXCEPT ![n] = creates']
  /\ toResume' = {}
  /\ UNCHANGED <<catalog, pending, lastUsed>>

\* A new process. resume_pending is to visit every collection in the catalog.
Boot ==
  /\ phase \in {"exited", "failed"}
  /\ rmtrees = {}
  /\ phase' = "boot"
  /\ toResume' = {n \in Names : catalog[n] # 0}
  /\ objs' = [o \in Objs |-> Blank]
  /\ resident' = {} /\ todo' = {} /\ stale' = {}
  /\ lock' = "free"
  /\ task' = [t \in Tasks |-> Rest]
  /\ UNCHANGED <<disk, lastUsed, rmtrees, used>>

BootSkips == \* fault: an open job alone does not load its collection
  /\ phase = "boot" /\ task["boot"].pc = "idle"
  /\ \E n \in toResume : toResume' = toResume \ {n}
  /\ UNCHANGED <<disk, memory, lock, task, todo, stale, rmtrees, phase, used>>

\* Its meta.db is read, which fails without a directory; one with open jobs is
\* touched.
BootVisits ==
  /\ phase = "boot" /\ task["boot"].pc = "idle"
  /\ \E n \in toResume :
       /\ toResume' = toResume \ {n}
       /\ IF dir[n] # 0 /\ dir[n] \in pending THEN Starts("boot", "touch", "lock", n, 0)
          ELSE UNCHANGED task
       /\ phase' = IF dir[n] = 0 THEN "failed" ELSE phase
  /\ UNCHANGED <<disk, memory, lock, todo, stale, rmtrees, used>>

BootEnds ==
  /\ phase = "boot" /\ task["boot"].pc = "idle"
  /\ toResume = {}
  /\ phase' = "up"
  /\ UNCHANGED <<disk, memory, lock, task, sweep, rmtrees, used>>

-----------------------------------------------------------------------------
TouchStep(t) ==
  \/ TouchFinds(t) \/ TouchMisses(t) \/ TouchEvicts(t) \/ TouchEvicted(t)
  \/ TouchBuilds(t) \/ BuildEnds(t) \/ BuildFails(t) \/ Release(t)

RequestStep(c) ==
  \/ DeleteEvicts(c) \/ DeleteRow(c) \/ DeleteAbandoned(c) \/ RemoveFiles(c)
  \/ ProbeEnds(c) \/ RemoveLeftover(c) \/ MakeDirectory(c)

Sweeper == SweepEnters \/ SweepVisits \/ SweepEvicted \/ SweepEnds
Shutdown == ShutdownEvicts \/ ShutdownEvicted \/ ShutdownEnds
Booting == BootVisits \/ BootEnds

Next ==
  \/ \E c \in Clients, n \in Names : Touch(c, n) \/ Delete(c, n) \/ Create(c, n)
  \/ \E c \in Clients : Enqueue(c) \/ RequestStep(c) \/ Cancel(c)
  \/ \E t \in Clients \cup {"boot"} : TouchStep(t)
  \/ \E o \in Objs : FinishJobs(o) \/ StopEnds(o)
  \/ \E n \in Names : OrphanRemoves(n)
  \/ SweepStart \/ Sweeper \/ ShutdownStart \/ Shutdown
  \/ Crash \/ Boot \/ Booting

Spec == Init /\ [][Next]_vars

\* Tasks, threads and stop() go on, _load_lock is granted in turn (asyncio.Lock
\* is FIFO), workers drain their journals, and the platform restarts a process
\* that exited. Nobody has to send a request, cancel one or stop the server.
Fairness ==
  /\ \A c \in Clients : SF_vars(TouchStep(c) \/ RequestStep(c))
  /\ SF_vars(Sweeper)
  /\ WF_vars(TouchStep("boot") \/ Booting \/ Shutdown \/ Boot)
  /\ \A o \in Objs : WF_vars(FinishJobs(o) \/ StopEnds(o))
  /\ \A n \in Names : WF_vars(OrphanRemoves(n))

FairSpec == Spec /\ Fairness
-----------------------------------------------------------------------------
PCs == {"idle", "lock", "inside", "stopping", "building", "have", "probe", "rmtree",
        "mkdir", "sweeping", "closing"}

States == {"none", "building", "open", "stopping", "closed"}
ObjTypes  == [name : Names, row : Nat, made : Nat, st : States]
TaskTypes == [op : {"none", "touch", "create", "delete", "sweep", "shutdown"},
              pc : PCs, name : Names, obj : 0..Slots, dropped : BOOLEAN]

\* Every variable has its type; the one type invariant of the module.
TypeOK ==
  /\ catalog \in [Names -> Nat] /\ dir \in [Names -> Nat]
  /\ creates \in Nat /\ pending \subseteq Nat
  /\ objs \in [Objs -> ObjTypes]
  /\ resident \subseteq Objs /\ lastUsed \in [Objs -> Objs]
  /\ lock \in Tasks \cup {"free"}
  /\ task \in [Tasks -> TaskTypes]
  /\ todo \subseteq Objs /\ stale \subseteq Objs /\ toResume \subseteq Names
  /\ rmtrees \subseteq Names
  /\ phase \in {"boot", "up", "closing", "exited", "failed"}
  /\ used \in [Events -> Nat]

\* No directory is ever opened beside a Collection object that still uses it,
\* whichever requests, sweeps or shutdowns are cancelled in the middle.
OneOwner ==
  \A o, q \in Objs : Live(o) /\ Live(q) /\ objs[o].name = objs[q].name => o = q

\* Why OneOwner and ResidentIsCatalogued hold. Who loads, stops or sweeps has
\* the lock, the shutdown apart, which runs when no request or boot does.
InLock(t) == \/ task[t].pc \in {"inside", "building", "sweeping"}
             \/ task[t].pc = "stopping" /\ t # "shutdown"

LockInv == \A t \in Tasks : InLock(t) => lock = t

PhaseInv ==
  /\ \A c \in Clients : task[c].pc # "idle" => phase = "up"
  /\ task["boot"].pc # "idle" => phase = "boot"
  /\ task["shutdown"].pc # "idle" => phase = "closing"
  /\ task["sweeper"].pc # "idle" =>
       \/ phase = "up"
       \/ task["sweeper"].pc = "stopping" /\ task["sweeper"].dropped

\* What a sweep or the shutdown has still to visit is resident.
TodoInv ==
  (\/ task["sweeper"].pc = "sweeping"
   \/ task["sweeper"].pc = "stopping" /\ ~task["sweeper"].dropped
   \/ task["shutdown"].pc # "idle") => todo \subseteq resident

\* Who builds or stops an object, and that nothing is loaded meanwhile.
TaskInv(t) ==
  LET o == task[t].obj
  IN  /\ task[t].pc = "building" =>
           /\ t \in Clients \cup {"boot"}
           /\ o \in Objs /\ objs[o].st = "building" /\ objs[o].name = task[t].name
           /\ ResidentAs(task[t].name) = {}
      /\ task[t].pc = "stopping" =>
           /\ o \in Objs /\ objs[o].st \in {"stopping", "closed"}
           /\ t \in Clients /\ task[t].op = "delete" => ResidentAs(task[t].name) = {}
      /\ task[t].pc = "have" => o \in Objs

\* Every object that is not closed belongs to someone.
ObjInv(o) ==
  /\ objs[o].st = "building" =>
       \E t \in Tasks : task[t].pc = "building" /\ task[t].obj = o
  /\ objs[o].st = "stopping" =>
       \E t \in Tasks : task[t].pc = "stopping" /\ task[t].obj = o
  /\ o \in resident <=> objs[o].st = "open"
  /\ objs[o].st \in {"building", "open"} =>
       objs[o].row # 0 /\ catalog[objs[o].name] = objs[o].row

OwnershipInv ==
  /\ LockInv /\ PhaseInv /\ TodoInv
  /\ \A t \in Tasks : TaskInv(t)
  /\ \A o \in Objs : ObjInv(o)

\* A resident collection is the one the catalog has a row for: no zombie of a
\* deleted collection survives to shadow a new one of the same name.
ResidentIsCatalogued ==
  \A o \in resident : objs[o].row # 0 /\ catalog[objs[o].name] = objs[o].row

\* An open collection can be found, so that something will close it and its
\* worker is known.
OpenIsResident == \A o \in Objs : objs[o].st = "open" => o \in resident

\* Memory: while nobody ingests, the collections being loaded, in use or being
\* closed are never more than the cap together.
WithinBudget ==
  used["enqueue"] = 0 => Cardinality({o \in Objs : Live(o)}) <= MaxResident

\* When the process has shut down, every collection it had is closed, evictions
\* whose caller was cancelled included.
ClosedAtExit == phase = "exited" => \A o \in Objs : ~Live(o)

\* A collection in the catalog has its own files: neither those of an earlier
\* collection of that name, nor another's, nor none.
CatalogHasFiles == \A n \in Names : catalog[n] # 0 => dir[n] = catalog[n]

\* Once the row is gone the rmtree of a delete can run without the lock
\* (delete_collection): it removes no files of a collection in the catalog.
DeleteSparesOthers ==
  [][\A c \in Clients :
       task[c].op = "delete" /\ task[c].pc = "rmtree" /\ task'[c].pc = "idle"
         /\ dir[task[c].name] # 0 /\ dir' # dir
       => catalog[task[c].name] # dir[task[c].name]]_vars

\* Every request ends: nobody keeps _load_lock for ever.
RequestsEnd == \A c \in Clients : task[c].pc # "idle" ~> task[c].pc = "idle"

\* Jobs left open by the last process are done after a boot, unless somebody
\* deletes their collection: none is forgotten, or evicted before that.
BootResumesJobs ==
  \A n \in Names, k \in 1..MaxCreates :
    (phase = "boot" /\ n \in toResume /\ catalog[n] = k /\ k \in pending)
      ~> (k \notin pending \/ \E c \in Clients : task[c].op = "delete" /\ task[c].name = n)
==============================================================================
