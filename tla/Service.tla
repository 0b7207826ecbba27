------------------------------ MODULE Service -------------------------------
(***************************************************************************)
(* The server (app.py): processes on one data directory that take turns by *)
(* its lock, their start-up, shutdown and sudden death; the HTTP requests  *)
(* on one collection while it is loaded, migrated, evicted and deleted;    *)
(* what each request is answered.                                          *)
(*                                                                         *)
(* A collection object is a number; `obj` keeps what a late request still  *)
(* finds on it. The manager (Manager) is reduced to one name, stop() to    *)
(* the moments a request can tell apart.                                   *)
(***************************************************************************)
EXTENDS MetaDb, Integers, FiniteSets, Functions

CONSTANTS
  Procs,    \* processes, one replica each
  Reqs,     \* concurrent requests
  Ops,      \* what requests do
  Slots,    \* bound: collection objects that exist at one time
  Limit,    \* bounds: how often each kind of event happens,
  Total     \* and how many events there are

Events == {"launch", "kill", "term", "request", "fault", "evict", "cancel"}
Objs == 1..Slots

ASSUME ServiceAssumption ==
  /\ "free" \notin Procs /\ "boot" \notin Reqs /\ Procs # {}
  /\ Ops \subseteq {"read", "search", "ingest", "patch", "create", "delete"}
  /\ Slots \in Nat /\ Limit \in [Events -> Nat] /\ Total \in Nat

VARIABLES
  catalog,  \* the collection has a row in catalog.db
  db,       \* its meta.db
  flock,    \* who has the lock on raggio.lock, or "free"
  phase,    \* of each process: does it answer requests?
  start,    \* where its start task is
  obj,      \* the collection objects
  req,      \* the requests
  used      \* events so far

disk  == <<catalog, db>>
procs == <<flock, phase, start>>
vars  == <<disk, procs, obj, req, used>>

NoObj == [proc |-> CHOOSE p \in Procs : TRUE, st |-> "none", at |-> 0, by |-> "boot",
          deleted |-> FALSE, client |-> "none"]
NoReq == [op |-> "none", proc |-> CHOOSE p \in Procs : TRUE, pc |-> "idle", obj |-> 0,
          gone |-> FALSE, code |-> "none"]

Init ==
  /\ catalog = TRUE
  /\ db \in Legacy \cup {Upserted(Fresh(keyed)) : keyed \in BOOLEAN}
  /\ flock = "free"
  /\ phase = [p \in Procs |-> "off"] /\ start = [p \in Procs |-> "none"]
  /\ obj = [g \in Objs |-> NoObj] /\ req = [r \in Reqs |-> NoReq]
  /\ used = [e \in Events |-> 0]

-----------------------------------------------------------------------------
Spend(e) ==
  /\ used[e] < Limit[e] /\ FoldFunction(+, 0, used) < Total
  /\ used' = [used EXCEPT ![e] = @ + 1]

Of(p) == {g \in Objs : obj[g].proc = p /\ obj[g].st # "none"}
Resident(p) == {g \in Of(p) : obj[g].st = "open"}
Closed(g) == obj[g].st \in {"closing", "closed"}
Pending(p) == {r \in Reqs : req[r].pc \notin {"idle", "done"} /\ req[r].proc = p}

\* _load_lock: who loads, evicts or deletes has it.
Locked(p) == \/ \E g \in Of(p) : obj[g].st \in {"loading", "stopping", "closing"}
             \/ \E r \in Pending(p) : req[r].pc = "stopping"

Sets(r, pc) == req' = [req EXCEPT ![r].pc = pc]
Answered(code) == [NoReq EXCEPT !.pc = "done", !.code = code]
Answers(r, code) == req' = [req EXCEPT ![r] = Answered(code)]
Becomes(g, st) == obj' = [obj EXCEPT ![g].st = st]

\* GET /healthz.
Health(p) == CASE start[p] = "ok" -> "ok" [] start[p] = "failed" -> "failed"
               [] OTHER -> "starting"
Serving(p) == phase[p] = "serving"

\* A collection object is made, on a thread, for a request or for the start.
Free(g) == obj[g].st \in {"none", "closed", "failed"} /\ \A r \in Reqs : req[r].obj # g
Load(p, by) ==
  \E g \in Objs :
    /\ Free(g) /\ \A q \in Objs : Free(q) => g <= q
    /\ obj' = [obj EXCEPT ![g] = [NoObj EXCEPT !.proc = p, !.st = "loading", !.at = 1,
                                               !.by = by]]

\* The process is gone: its lock, its memory and its connections with it.
Dies(p) ==
  /\ phase' = [phase EXCEPT ![p] = "off"] /\ start' = [start EXCEPT ![p] = "none"]
  /\ flock' = IF flock = p THEN "free" ELSE flock
  /\ obj' = [g \in Objs |-> IF obj[g].proc = p THEN NoObj ELSE obj[g]]
  /\ req' = [r \in Reqs |-> IF req[r].proc = p THEN NoReq ELSE req[r]]

-----------------------------------------------------------------------------
\* lifespan: one try for the lock. With it the start comes first; without, the
\* process answers while its start task tries again and again.
Launch(p) ==
  /\ phase[p] = "off" /\ Spend("launch")
  /\ IF flock = "free"
     THEN /\ flock' = p
          /\ phase' = [phase EXCEPT ![p] = "starting"]
          /\ start' = [start EXCEPT ![p] = "opening"]
     ELSE /\ phase' = [phase EXCEPT ![p] = "serving"]
          /\ start' = [start EXCEPT ![p] = "polling"]
          /\ UNCHANGED flock
  /\ UNCHANGED <<disk, obj, req>>

Poll(p) ==
  /\ start[p] = "polling" /\ flock = "free"
  /\ flock' = p /\ start' = [start EXCEPT ![p] = "opening"]
  /\ UNCHANGED <<disk, phase, obj, req, used>>

\* CollectionManager(): the catalog is open from here on.
OpenCatalog(p) ==
  /\ start[p] = "opening"
  /\ start' = [start EXCEPT ![p] = "booting"]
  /\ UNCHANGED <<disk, flock, phase, obj, req, used>>

\* resume_pending: a collection with open jobs is loaded, and then start-up is over.
Boot(p) ==
  /\ start[p] = "booting" /\ ~Locked(p)
  /\ IF catalog /\ db.jobs /\ Resident(p) = {}
     THEN Load(p, "boot") /\ UNCHANGED <<phase, start>>
     ELSE /\ start' = [start EXCEPT ![p] = "ok"]
          /\ phase' = [phase EXCEPT ![p] = IF @ = "starting" THEN "serving" ELSE @]
          /\ UNCHANGED obj
  /\ UNCHANGED <<disk, flock, req, used>>

\* The start raises, the load of a collection in it, perhaps. The lifespan awaits the
\* usual start, and the process ends; a start in the background leaves it failed.
StartFails(p) ==
  /\ start[p] = "booting" /\ Spend("fault")
  /\ IF phase[p] = "starting" THEN Dies(p)
     ELSE /\ start' = [start EXCEPT ![p] = "failed"]
          /\ obj' = [g \in Objs |-> IF g \in Of(p) /\ obj[g].st = "loading"
                                    THEN [obj[g] EXCEPT !.st = "failed"] ELSE obj[g]]
          /\ UNCHANGED <<flock, phase, req>>
  /\ UNCHANGED disk

\* SIGTERM: of the old replica once the new one answers, of a failed one, or at will.
\* The server ends its requests first.
Replaced(p) == \E q \in Procs \ {p} : Serving(q) /\ Health(q) # "failed"
Term(p) ==
  /\ Serving(p)
  /\ (Replaced(p) /\ start[p] # "polling") \/ Health(p) = "failed"
  /\ phase' = [phase EXCEPT ![p] = "draining"]
  /\ UNCHANGED <<disk, flock, start, obj, req, used>>

TermAtWill(p) ==
  /\ Serving(p) /\ Spend("term")
  /\ phase' = [phase EXCEPT ![p] = "draining"]
  /\ UNCHANGED <<disk, flock, start, obj, req>>

\* The rest of the lifespan: the start is cancelled, and ends with the load it is in.
Drained(p) ==
  /\ phase[p] = "draining" /\ Pending(p) = {}
  /\ phase' = [phase EXCEPT ![p] = "closing"]
  /\ start' = [start EXCEPT ![p] = CASE @ \in {"polling", "opening"} -> "none"
                                     [] @ = "booting" -> "cancelled"
                                     [] OTHER -> @]
  /\ UNCHANGED <<disk, flock, obj, req, used>>

\* shutdown(): every resident collection is stopped; then the lock is released.
ShutdownEvicts(p) ==
  /\ phase[p] = "closing" /\ ~Locked(p)
  /\ \E g \in Resident(p) : Becomes(g, "stopping")
  /\ UNCHANGED <<disk, procs, req, used>>

AllClosedOrWaits(p) ==  \* fault: a collection whose load failed is waited for
  \A g \in Of(p) : obj[g].st = "closed"
AllClosed(p) == \A g \in Of(p) : obj[g].st \in {"closed", "failed"}
ExitsUnlocked(p) ==  \* fault: the lock is released before the collections are closed
  /\ phase[p] = "closing"
  /\ IF AllClosed(p) THEN Dies(p) /\ UNCHANGED disk
     ELSE flock' = "free" /\ UNCHANGED <<disk, phase, start, obj, req>>
  /\ UNCHANGED used
Exits(p) ==
  /\ phase[p] = "closing" /\ AllClosed(p)
  /\ Dies(p)
  /\ UNCHANGED <<disk, used>>

Kill(p) ==
  /\ phase[p] # "off" /\ Spend("kill")
  /\ Dies(p)
  /\ UNCHANGED disk

-----------------------------------------------------------------------------
\* Collection(): its database is brought up to date statement by statement. Who asked
\* for it gets it once it is registered.
LoadStep(g) ==
  /\ obj[g].st = "loading"
  /\ db' = Run(db, OpenSteps[obj[g].at])
  /\ IF obj[g].at < Len(OpenSteps)
     THEN obj' = [obj EXCEPT ![g].at = @ + 1] /\ UNCHANGED req
     ELSE /\ Becomes(g, "open")
          /\ req' = [r \in Reqs |-> IF r = obj[g].by
                                    THEN [req[r] EXCEPT !.pc = "have", !.obj = g]
                                    ELSE req[r]]
  /\ UNCHANGED <<catalog, procs, used>>

LoadFails(g) ==
  /\ obj[g].st = "loading" /\ obj[g].by \in Reqs
  /\ Spend("fault")
  /\ Becomes(g, "failed") /\ Answers(obj[g].by, "error")
  /\ UNCHANGED <<disk, procs>>

\* An idle collection, or the least recently used one, goes.
Evict(p) ==
  /\ start[p] = "ok" /\ phase[p] # "closing" /\ ~Locked(p) /\ ~db.jobs
  /\ Spend("evict")
  /\ \E g \in Resident(p) : Becomes(g, "stopping")
  /\ UNCHANGED <<disk, procs, req>>

\* stop(): _closed is set and the connections are closed, under the write lock; then
\* the embedder's client is.
StopCloses(g) ==
  /\ obj[g].st = "stopping"
  /\ Becomes(g, "closing")
  /\ UNCHANGED <<disk, procs, req, used>>

StopEnds(g) ==
  /\ obj[g].st = "closing"
  /\ obj' = [obj EXCEPT ![g].st = "closed",
                        ![g].client = IF @ = "open" THEN "closed" ELSE @]
  /\ UNCHANGED <<disk, procs, req, used>>

\* The worker ingests what was asked for.
Work(g) ==
  /\ obj[g].st = "open" /\ db.jobs
  /\ db' = Upserted(db)
  /\ UNCHANGED <<catalog, procs, obj, req, used>>

-----------------------------------------------------------------------------
\* A request arrives: require_ready, then what its handler does before it awaits.
Deleting == \E r \in Reqs : req[r].op = "delete" /\ req[r].pc \in {"lock", "stopping", "rmtree"}

Arrive(r, p, op) ==
  /\ req[r].pc \in {"idle", "done"} /\ Serving(p) /\ Spend("request")
  /\ LET new == [NoReq EXCEPT !.op = op, !.proc = p, !.gone = ~catalog \/ Deleting]
         Is(pc) == [new EXCEPT !.pc = pc]
     IN  IF start[p] # "ok"
         THEN req' = [req EXCEPT ![r] = Answered("starting")] /\ UNCHANGED disk
         ELSE CASE op = "create" /\ catalog ->
                     req' = [req EXCEPT ![r] = Answered("exists")] /\ UNCHANGED disk
                [] op = "create" /\ ~catalog ->
                     /\ ~Deleting
                     /\ catalog' = TRUE /\ db' = Fresh(db.keyed)
                     /\ req' = [req EXCEPT ![r] = Answered("ok")]
                [] op = "delete" /\ catalog ->
                     /\ req' = [q \in Reqs |-> IF q = r THEN Is("lock")
                                               ELSE [req[q] EXCEPT !.gone = TRUE]]
                     /\ UNCHANGED disk
                [] op = "delete" /\ ~catalog ->
                     req' = [req EXCEPT ![r] = Answered("missing")] /\ UNCHANGED disk
                [] OTHER -> req' = [req EXCEPT ![r] = Is("touch")] /\ UNCHANGED disk
  /\ UNCHANGED <<procs, obj>>

\* get_collection: touch() returns the resident collection, or loads it.
Touch(r) ==
  LET p == req[r].proc IN
  /\ req[r].pc = "touch"
  /\ IF Resident(p) # {}
     THEN \E g \in Resident(p) : /\ req' = [req EXCEPT ![r].pc = "have", ![r].obj = g]
                                 /\ UNCHANGED obj
     ELSE /\ ~Locked(p)
          /\ IF catalog THEN Load(p, r) /\ Sets(r, "loading")
             ELSE Answers(r, "missing") /\ UNCHANGED obj
  /\ UNCHANGED <<disk, procs, used>>

\* _closed_error: a collection that a DELETE closed is missing; for one that was evicted
\* the exception's handler asks the catalog.
RaisesClosed(r) ==
  IF obj[req[r].obj].deleted THEN Answers(r, "missing") ELSE Sets(r, "closed")

\* The routes that read or write the collection: no await between the check for a
\* closed one and the use.
Use(r) ==
  LET g == req[r].obj IN
  /\ req[r].pc = "have" /\ req[r].op \in {"read", "ingest", "patch"}
  /\ IF Closed(g) THEN RaisesClosed(r) /\ UNCHANGED db
     ELSE /\ Answers(r, "ok")
          /\ db' = CASE req[r].op = "read" -> db
                     [] req[r].op = "ingest" -> [db EXCEPT !.jobs = TRUE]
                     [] req[r].op = "patch" -> Patched(db)
  /\ UNCHANGED <<catalog, procs, obj, used>>

\* A search first embeds its text, with a client made on the first use: not for a
\* collection that is closed, as nobody would close the client.
EmbedBuildsAnyway(r) ==  \* fault: a client is made for a closed collection, too
  LET g == req[r].obj IN
  /\ req[r].pc = "have" /\ req[r].op = "search"
  /\ Sets(r, "embed")
  /\ obj' = [obj EXCEPT ![g].client = IF @ = "none" THEN "open" ELSE @]
  /\ UNCHANGED <<disk, procs, used>>
Embed(r) ==
  LET g == req[r].obj IN
  /\ req[r].pc = "have" /\ req[r].op = "search"
  /\ IF obj[g].client = "none" /\ Closed(g) THEN RaisesClosed(r) /\ UNCHANGED obj
     ELSE /\ Sets(r, "embed")
          /\ obj' = [obj EXCEPT ![g].client = IF @ = "none" THEN "open" ELSE @]
  /\ UNCHANGED <<disk, procs, used>>

\* The endpoint answers, or three attempts fail: always with a closed client.
EmbedEnds(r) ==
  LET g == req[r].obj IN
  /\ req[r].pc = "embed"
  /\ \/ obj[g].client = "open" /\ Sets(r, "scan") /\ UNCHANGED used
     \/ /\ \/ obj[g].client = "closed" /\ UNCHANGED used
           \/ obj[g].client = "open" /\ Spend("fault")
        /\ IF obj[g].deleted \/ Closed(g) THEN RaisesClosed(r) ELSE Answers(r, "error")
  /\ UNCHANGED <<disk, procs, obj>>

Scan(r) ==
  /\ req[r].pc = "scan"
  /\ IF Closed(req[r].obj) THEN RaisesClosed(r) ELSE Answers(r, "ok")
  /\ UNCHANGED <<disk, procs, obj, used>>

\* collection_closed.
HandlesClosedBlindly(r) ==  \* fault: the catalog is not asked
  /\ req[r].pc = "closed"
  /\ Answers(r, "retry")
  /\ UNCHANGED <<disk, procs, obj, used>>
HandlesClosed(r) ==
  /\ req[r].pc = "closed"
  /\ Answers(r, IF catalog THEN "retry" ELSE "missing")
  /\ UNCHANGED <<disk, procs, obj, used>>

-----------------------------------------------------------------------------
\* delete_collection: flag and stop the resident collection, then the row, under
\* _load_lock; the files without it.
DeleteLocks(r) ==
  LET p == req[r].proc IN
  /\ req[r].pc = "lock" /\ ~Locked(p)
  /\ IF Resident(p) = {}
     THEN catalog' = FALSE /\ Sets(r, "rmtree") /\ UNCHANGED obj
     ELSE \E g \in Resident(p) :
            /\ obj' = [obj EXCEPT ![g].deleted = TRUE, ![g].st = "stopping"]
            /\ req' = [req EXCEPT ![r].pc = "stopping", ![r].obj = g]
            /\ UNCHANGED catalog
  /\ UNCHANGED <<db, procs, used>>

\* Its caller goes: once the stop() has ended it raises, and the row stays.
DeleteRow(r) ==
  /\ req[r].pc = "stopping" /\ obj[req[r].obj].st = "closed"
  /\ \/ catalog' = FALSE /\ Sets(r, "rmtree") /\ UNCHANGED used
     \/ Spend("cancel") /\ req' = [req EXCEPT ![r] = NoReq] /\ UNCHANGED catalog
  /\ UNCHANGED <<db, procs, obj>>

DeleteFiles(r) ==
  /\ req[r].pc = "rmtree"
  /\ db' = Nothing(db.keyed)
  /\ Answers(r, "ok")
  /\ UNCHANGED <<catalog, procs, obj, used>>

-----------------------------------------------------------------------------
ProcStep(p) ==
  Poll(p) \/ OpenCatalog(p) \/ Boot(p) \/ Drained(p) \/ ShutdownEvicts(p) \/ Exits(p)
ObjStep(g) == LoadStep(g) \/ StopCloses(g) \/ StopEnds(g) \/ Work(g)
ReqStep(r) ==
  \/ Touch(r) \/ Use(r) \/ Embed(r) \/ EmbedEnds(r) \/ Scan(r) \/ HandlesClosed(r)
  \/ DeleteLocks(r) \/ DeleteRow(r) \/ DeleteFiles(r)

Next ==
  \/ \E p \in Procs : \/ Launch(p) \/ ProcStep(p) \/ StartFails(p) \/ Evict(p)
                      \/ Term(p) \/ TermAtWill(p) \/ Kill(p)
  \/ \E g \in Objs : ObjStep(g) \/ LoadFails(g)
  \/ \E r \in Reqs : ReqStep(r)
  \/ \E r \in Reqs, p \in Procs, op \in Ops : Arrive(r, p, op)

Spec == Init /\ [][Next]_vars

\* Start and shutdown go on, threads and requests end, the platform stops the old
\* replica once the new one answers and restarts a failed one.
Fairness ==
  /\ \A p \in Procs : WF_vars(ProcStep(p)) /\ WF_vars(Term(p))
  /\ \A g \in Objs : WF_vars(ObjStep(g))
  /\ \A r \in Reqs : SF_vars(ReqStep(r))
FairSpec == Spec /\ Fairness

-----------------------------------------------------------------------------
ObjTypes == [proc : Procs, at : Nat, by : Reqs \cup {"boot"}, deleted : BOOLEAN,
             st : {"none", "loading", "open", "stopping", "closing", "closed", "failed"},
             client : {"none", "open", "closed"}]
ReqTypes == [op : Ops \cup {"none"}, proc : Procs, obj : 0..Slots, gone : BOOLEAN,
             pc : {"idle", "touch", "loading", "have", "embed", "scan", "closed", "lock",
                   "stopping", "rmtree", "done"},
             code : {"none", "ok", "starting", "exists", "missing", "retry", "error"}]
TypeOK ==
  /\ catalog \in BOOLEAN /\ flock \in Procs \cup {"free"}
  /\ phase \in [Procs -> {"off", "starting", "serving", "draining", "closing"}]
  /\ start \in [Procs -> {"none", "polling", "opening", "booting", "ok", "failed", "cancelled"}]
  /\ obj \in [Objs -> ObjTypes] /\ req \in [Reqs -> ReqTypes]

\* One process at a time has databases of the directory open, the start-up and the
\* shutdown included: that of the lock. (Two on one WAL database corrupt it.)
HasOpen(p) ==
  \/ start[p] \in {"booting", "ok", "failed", "cancelled"}
  \/ \E g \in Of(p) : obj[g].st \in {"loading", "open", "stopping", "closing"}
OneProcess == \A p \in Procs : HasOpen(p) => flock = p

\* Whatever layout it had, and wherever earlier opens were killed, a collection that
\* serves has the schema its queries name, and its full text index holds exactly its
\* records, patched metadata included.
ServedSchema ==
  \A g \in Objs : obj[g].st \in {"open", "stopping"} => Current(db) /\ Mirrored(db)

\* A kill during the migration leaves no database without an index on doc_id.
DocIndexKept == [][DocIndexed(db) /\ catalog => DocIndexed(db') \/ ~catalog']_vars

\* A 404 is given only for a collection that was missing or being deleted while the
\* request ran; the "closed, retry" of a 503 only for one that exists; and a request
\* that lost the race with stop() never ends as a 500.
AnswersAreTrue ==
  [][\A r \in Reqs : req[r].pc # "done" /\ req'[r].pc = "done" =>
       /\ req'[r].code = "missing" => req[r].gone \/ ~catalog
       /\ req'[r].code = "retry" => catalog
       /\ req'[r].code = "error" /\ req[r].obj # 0 => ~Closed(req[r].obj)]_vars

\* A collection that is closed has no HTTP client left open.
NoClientLeak == \A g \in Objs : obj[g].st = "closed" => obj[g].client # "open"

\* A replica that waits for the lock gets it, once the platform stops the other.
TakesOver == \A p \in Procs : start[p] = "polling" ~> start[p] # "polling"
=============================================================================
