--------------------------- MODULE IngestJournal ---------------------------
(***************************************************************************)
(* The durable ingest path of one collection (store.py, class Collection): *)
(* the job journal, the single worker that drains it in batches, the       *)
(* records table, the vector index in memory and in its file, deletes that *)
(* share the write lock with the worker, stop(), crashes and reopening.    *)
(*                                                                         *)
(* A row of `records` stands for a record and its vector; `mem` and `file` *)
(* hold the vectors an index knows, each named by the row it was built     *)
(* from, so an index entry whose row is no longer in `records` is a ghost. *)
(* Documents, embeddings and the SQL schema are abstracted away; a payload *)
(* is the set of external ids (keys) it writes.                            *)
(*                                                                         *)
(* Steps that run while the collection's write lock is held are merged up  *)
(* to the first point another actor can observe (see WriteLocked).         *)
(***************************************************************************)
EXTENDS Integers, Sequences, FiniteSets, Functions

CONSTANTS
  Keys,            \* external ids of documents
  MaxJobs,         \* bound: jobs enqueued in one behaviour
  Asks,            \* the payloads clients submit: [op, keys]
  BatchJobs,       \* Settings.sync_batch_jobs
  MaxRemovals,     \* SYNC_MAX_REMOVALS
  InterruptFinish, \* may a stop() or an error cut off the finish of a popped job?
  CancelDelete,    \* may the caller of delete_document be cancelled mid-thread?
  Limit            \* bounds: how often each kind of event happens

Events == {"crash", "stop", "delete", "fault", "die", "cancel"}

ASSUME KeysAssumption == IsFiniteSet(Keys)
ASSUME BoundsAssumption ==
  /\ MaxJobs \in Nat
  /\ BatchJobs \in Nat \ {0}
  /\ MaxRemovals \in Nat \ {0}
  /\ Limit \in [Events -> Nat]
ASSUME SwitchAssumption == InterruptFinish \in BOOLEAN /\ CancelDelete \in BOOLEAN

JobIds   == 1..MaxJobs
Payloads == [op : {"ingest"}, keys : SUBSET Keys] \cup [op : {"index"}, keys : {{}}]
ASSUME AsksAssumption == Asks \subseteq Payloads

Statuses == {"none", "pending", "processing", "done", "error"}
Open     == {"pending", "processing"}
Finished == {"done", "error"}
Rows     == [id : Nat \ {0}, key : Keys, job : JobIds]
Outcomes == [job : JobIds, status : Finished]

VARIABLES
  \* meta.db and the index file: they survive a crash
  jobs,       \* jobs.status by job id ("none": no such row)
  ask,        \* the journaled payload by job id
  records,    \* the committed rows of the records table
  file,       \* the index as last synced to disk
  \* the Collection object: lost in a crash
  mem,        \* the in-memory index
  removed,    \* _removed_since_sync
  pc,         \* where the worker task is
  after,      \* the worker's claim cursor
  cur,        \* the claimed job that has not joined a batch, or 0
  replaced,   \* rows the current upsert replaced
  added,      \* rows the current upsert inserted
  batch,      \* _unsynced: processed jobs no index sync covers yet
  fin,        \* the outcome whose _finish_job thread runs (at most one)
  wake,       \* the _wake event
  waking,     \* enqueues whose row is committed and whose caller has not resumed
  acked,      \* jobs whose enqueue returned
  deleting,   \* a delete_document holds the write lock, its rows are gone
  oDelete,    \* keys of deletes whose cancelled caller left a thread behind
  oSync,      \* a cancelled delete left its index sync behind
  oFinish,    \* outcomes whose finish thread outlives the cancelled worker
  oClaim,     \* a claim thread outlives the cancelled worker
  phase,      \* the collection: running, the steps of stop(), down
  used        \* how often each bounded event has happened

journal == <<jobs, ask>>
stores  == <<records, file, mem, removed>>
worker  == <<pc, after, cur, replaced, added, batch, fin>>
callers == <<wake, waking, acked>>
threads == <<deleting, oDelete, oSync, oFinish, oClaim>>
vars    == <<journal, stores, worker, callers, threads, phase, used>>

PCs    == {"off", "top", "claim", "none", "wait", "prep", "presync", "unindex", "add",
           "flush", "backoff", "finish", "finishing", "rebuild", "dead"}
Phases == {"running", "stopsync", "stopfinish", "closing", "down"}

Init ==
  /\ jobs = [j \in JobIds |-> "none"]
  /\ ask = [j \in JobIds |-> [op |-> "ingest", keys |-> {}]]
  /\ records = {} /\ file = {} /\ mem = {} /\ removed = 0
  /\ pc = "top" /\ after = 0 /\ cur = 0
  /\ replaced = {} /\ added = {} /\ batch = <<>> /\ fin = <<>>
  /\ wake = FALSE /\ waking = {} /\ acked = {}
  /\ deleting = FALSE /\ oDelete = {} /\ oSync = FALSE
  /\ oFinish = {} /\ oClaim = FALSE
  /\ phase = "running"
  /\ used = [e \in Events |-> 0]

-----------------------------------------------------------------------------
Ids(rows) == {r.id : r \in rows}

\* An event of a bounded kind happens.
Spend(e) == used[e] < Limit[e] /\ used' = [used EXCEPT ![e] = @ + 1]

\* Someone holds lock.write() between two steps of this module: the worker
\* inside its write section, a delete before its sync, or stop().
WriteLocked == \/ pc \in {"presync", "unindex", "add"}
               \/ deleting
               \/ phase # "running"

\* MAX(id)+1 over the jobs ever journaled (none is ever deleted).
IsNextJob(j) == jobs[j] = "none" /\ \A i \in 1..(j - 1) : jobs[i] # "none"

\* _CLAIM_SQL: the lowest open job above a cursor.
ClaimableAnyStatus(j) == jobs[j] # "none" /\ j > after  \* fault
Claimable(j) == jobs[j] \in Open /\ j > after
IsClaimedLast(j) == \* fault: ORDER BY id DESC
  Claimable(j) /\ \A i \in JobIds : Claimable(i) => i <= j
IsClaimed(j) == Claimable(j) /\ \A i \in JobIds : Claimable(i) => j <= i

\* Where the worker goes with job j. An index job is a barrier: the open batch
\* is flushed before it runs.
ClaimedPcNoBarrier(j) == IF ask[j].op = "ingest" THEN "prep" ELSE "rebuild" \* fault
ClaimedPc(j) == IF ask[j].op = "ingest" THEN "prep"
                ELSE IF batch = <<>> THEN "rebuild" ELSE "flush"

\* MAX(id)+1 over the records, read before the replaced rows are deleted.
IsNextId(n) == \A r \in records : r.id < n
NextIds == {n \in {1} \cup {r.id + 1 : r \in records} : IsNextId(n)}

\* The rows job j inserts for the keys S under consecutive ids from n on.
NewRows(ids, j) == {[id |-> ids[k], key |-> k, job |-> j] : k \in DOMAIN ids}
Numberings(S, n) == Injection(S, n..(n + Cardinality(S) - 1))

\* n more removals would take the next sync over the cap.
OverCapLate(n) == removed > MaxRemovals  \* fault: counts the new ones too late
OverCap(n) == removed > 0 /\ removed + n > MaxRemovals

\* index.sync: the file becomes the in-memory index.
SyncFile == file' = mem /\ removed' = 0

-----------------------------------------------------------------------------
\* enqueue: the row and its payload commit in one transaction under db_lock,
\* unless the collection is closed. The caller resumes on the loop later.
Enqueue(a) ==
  /\ phase \notin {"closing", "down"}
  /\ \E j \in JobIds :
       /\ IsNextJob(j)
       /\ jobs' = [jobs EXCEPT ![j] = "pending"]
       /\ ask' = [ask EXCEPT ![j] = a]
       /\ waking' = waking \cup {j}
  /\ UNCHANGED <<stores, worker, wake, acked, threads, phase, used>>

\* The caller resumes: it sets the event and has its 202.
EnqueueReturns(j) ==
  /\ j \in waking
  /\ waking' = waking \ {j}
  /\ acked' = acked \cup {j}
  /\ wake' = TRUE
  /\ UNCHANGED <<journal, stores, worker, threads, phase, used>>

\* A caller cancelled while its row commits never sets the event.
EnqueueCancelled(j) ==
  /\ j \in waking
  /\ Spend("cancel")
  /\ waking' = waking \ {j}
  /\ UNCHANGED <<journal, stores, worker, wake, acked, threads, phase>>

-----------------------------------------------------------------------------
\* _run_worker, the loop's head: clear the event before the claim's thread runs.
LoopTop ==
  /\ pc = "top"
  /\ wake' = FALSE
  /\ pc' = "claim"
  /\ UNCHANGED <<journal, stores, after, cur, replaced, added, batch, fin,
                 waking, acked, threads, phase, used>>

\* _claim_next found a job.
ClaimJob ==
  /\ pc = "claim"
  /\ \E j \in JobIds :
       /\ IsClaimed(j)
       /\ jobs' = [jobs EXCEPT ![j] = "processing"]
       /\ after' = j
       /\ cur' = j
       /\ pc' = ClaimedPc(j)
  /\ UNCHANGED <<ask, stores, replaced, added, batch, fin, callers, threads,
                 phase, used>>

\* _claim_next found none. The loop hears of it later, when jobs may be there.
ClaimNone ==
  /\ pc = "claim"
  /\ \A j \in JobIds : ~Claimable(j)
  /\ pc' = "none"
  /\ UNCHANGED <<journal, stores, after, cur, replaced, added, batch, fin,
                 callers, threads, phase, used>>

NoneClaimedClearsWake ==  \* fault: the event is cleared after the claim
  /\ pc = "none"
  /\ pc' = IF batch = <<>> THEN "wait" ELSE "flush"
  /\ wake' = FALSE
  /\ UNCHANGED <<journal, stores, after, cur, replaced, added, batch, fin,
                 waking, acked, threads, phase, used>>

\* Close the open batch, or wait for the event.
NoneClaimed ==
  /\ pc = "none"
  /\ pc' = IF batch = <<>> THEN "wait" ELSE "flush"
  /\ UNCHANGED <<journal, stores, after, cur, replaced, added, batch, fin,
                 callers, threads, phase, used>>

\* A claim that raises kills the worker task.
ClaimRaises ==
  /\ pc = "claim"
  /\ Spend("die")
  /\ pc' = "dead"
  /\ UNCHANGED <<journal, stores, after, cur, replaced, added, batch, fin,
                 callers, threads, phase>>

WakeUp ==
  /\ pc = "wait"
  /\ wake
  /\ pc' = "top"
  /\ UNCHANGED <<journal, stores, after, cur, replaced, added, batch, fin,
                 callers, threads, phase, used>>

\* The current job joins the open batch, which closes at its job cap or when
\* its time cap has passed.
JoinBatch(status) ==
  /\ batch' = Append(batch, [job |-> cur, status |-> status])
  /\ cur' = 0
  /\ \E late \in BOOLEAN :
       pc' = IF late \/ Len(batch) + 1 >= BatchJobs THEN "flush" ELSE "top"

\* A job whose payload holds no row ends before it takes the lock.
ProcessEmpty ==
  /\ pc = "prep"
  /\ ask[cur].keys = {}
  /\ JoinBatch("done")
  /\ UNCHANGED <<journal, stores, after, replaced, added, fin, callers,
                 threads, phase, used>>

\* A bad payload, a failed embedding or a rolled back upsert: no row changed.
ProcessFails ==
  /\ pc = "prep"
  /\ Spend("fault")
  /\ JoinBatch("error")
  /\ UNCHANGED <<journal, stores, after, replaced, added, fin, callers,
                 threads, phase>>

\* The write section begins: one transaction replaces the rows of the payload's
\* keys. Removals that would pass the cap are synced first.
UpsertRows ==
  /\ pc = "prep"
  /\ ask[cur].keys # {}
  /\ ~WriteLocked
  /\ \E n \in NextIds : \E ids \in Numberings(ask[cur].keys, n) :
       /\ replaced' = {r \in records : r.key \in ask[cur].keys}
       /\ added' = NewRows(ids, cur)
       /\ records' = (records \ replaced') \cup added'
  /\ pc' = IF replaced' = {} THEN "add"
           ELSE IF OverCap(Cardinality(replaced')) THEN "presync" ELSE "unindex"
  /\ UNCHANGED <<journal, file, mem, removed, after, cur, batch, fin, callers,
                 threads, phase, used>>

\* The removal-cap sync; its failure is logged and swallowed.
PreSync ==
  /\ pc = "presync"
  /\ \/ SyncFile /\ UNCHANGED used
     \/ Spend("fault") /\ UNCHANGED <<file, removed>>
  /\ pc' = "unindex"
  /\ UNCHANGED <<journal, records, mem, after, cur, replaced, added, batch, fin,
                 callers, threads, phase>>

\* _unindex: the ids leave the in-memory index.
RemoveIds(ids) == mem' = {e \in mem : e.id \notin ids}

UnindexReplaced ==
  /\ pc = "unindex"
  /\ RemoveIds(Ids(replaced))
  /\ removed' = removed + Cardinality(replaced)
  /\ pc' = "add"
  /\ UNCHANGED <<journal, records, file, after, cur, replaced, added, batch, fin,
                 callers, threads, phase, used>>

\* add_with_ids, the end of the write section. No sync: the batch's covers it.
AddWithIds ==
  /\ pc = "add"
  /\ mem' = mem \cup added
  /\ JoinBatch("done")
  /\ UNCHANGED <<journal, records, file, removed, after, replaced, added, fin,
                 callers, threads, phase, used>>

\* An add that raises, part of its slices in: the job fails, its rows stay.
AddRaises ==
  /\ pc = "add"
  /\ Spend("fault")
  /\ \E part \in SUBSET added : mem' = mem \cup part
  /\ JoinBatch("error")
  /\ UNCHANGED <<journal, records, file, removed, after, replaced, added, fin,
                 callers, threads, phase>>

-----------------------------------------------------------------------------
\* _flush_unsynced: the one sync of the batch, under lock.write().
FlushSync ==
  /\ pc = "flush"
  /\ ~WriteLocked
  /\ SyncFile
  /\ pc' = "finish"
  /\ UNCHANGED <<journal, records, mem, after, cur, replaced, added, batch, fin,
                 callers, threads, phase, used>>

FlushGivesUp ==  \* fault: the batch finishes although its sync failed
  /\ pc = "flush"
  /\ ~WriteLocked
  /\ Spend("fault")
  /\ pc' = "finish"
  /\ UNCHANGED <<journal, stores, after, cur, replaced, added, batch, fin,
                 callers, threads, phase>>

\* A sync that raises is retried after a sleep that holds no lock.
FlushSyncFails ==
  /\ pc = "flush"
  /\ ~WriteLocked
  /\ Spend("fault")
  /\ pc' = "backoff"
  /\ UNCHANGED <<journal, stores, after, cur, replaced, added, batch, fin,
                 callers, threads, phase>>

FlushRetry ==
  /\ pc = "backoff"
  /\ pc' = "flush"
  /\ UNCHANGED <<journal, stores, after, cur, replaced, added, batch, fin,
                 callers, threads, phase, used>>

\* Each job leaves the batch before its finish runs, in claim order.
PopJob ==
  /\ pc = "finish"
  /\ batch # <<>>
  /\ fin' = <<Head(batch)>>
  /\ batch' = Tail(batch)
  /\ pc' = "finishing"
  /\ UNCHANGED <<journal, stores, after, cur, replaced, added, callers, threads,
                 phase, used>>

FlushDone ==
  /\ pc = "finish"
  /\ batch = <<>>
  /\ pc' = IF cur = 0 THEN "top" ELSE "rebuild"
  /\ UNCHANGED <<journal, stores, after, cur, replaced, added, batch, fin,
                 callers, threads, phase, used>>

SetStatus(o) == jobs' = [jobs EXCEPT ![o.job] = o.status]

\* _finish_job commits.
FinishJob ==
  /\ pc = "finishing"
  /\ SetStatus(fin[1])
  /\ fin' = <<>>
  /\ pc' = "finish"
  /\ UNCHANGED <<ask, stores, after, cur, replaced, added, batch, callers,
                 threads, phase, used>>

\* A finish that raises kills the worker; the popped job keeps its status.
FinishRaises ==
  /\ pc = "finishing"
  /\ InterruptFinish
  /\ Spend("die")
  /\ fin' = <<>>
  /\ pc' = "dead"
  /\ UNCHANGED <<journal, stores, after, cur, replaced, added, batch, callers,
                 threads, phase>>

\* An index job, alone: it swaps in an index built from every record, or only
\* retunes or tidies up, or is refused. It finishes at once.
IndexJob ==
  /\ pc = "rebuild"
  /\ ~WriteLocked
  /\ \/ /\ mem' = records /\ file' = records
        /\ fin' = <<[job |-> cur, status |-> "done"]>> /\ UNCHANGED used
     \/ /\ UNCHANGED <<mem, file, used>>
        /\ fin' = <<[job |-> cur, status |-> "done"]>>
     \/ /\ Spend("fault") /\ UNCHANGED <<mem, file>>
        /\ fin' = <<[job |-> cur, status |-> "error"]>>
  /\ cur' = 0
  /\ pc' = "finishing"
  /\ UNCHANGED <<journal, records, removed, after, replaced, added, batch,
                 callers, threads, phase>>

-----------------------------------------------------------------------------
\* _delete_doc_rows: the rows go in one transaction and their ids leave the
\* index before db_lock is released.
DeleteRows(k) ==
  LET gone == {r \in records : r.key = k}
  IN  /\ records' = records \ gone
      /\ RemoveIds(Ids(gone))
      /\ removed' = removed + Cardinality(gone)

\* delete_document up to its index sync, when it deletes anything.
DeleteDocument(k) ==
  /\ ~WriteLocked
  /\ Spend("delete")
  /\ \E r \in records : r.key = k
  /\ DeleteRows(k)
  /\ deleting' = TRUE
  /\ UNCHANGED <<journal, file, worker, callers, oDelete, oSync, oFinish, oClaim,
                 phase>>

DeleteSync ==
  /\ deleting
  /\ deleting' = FALSE
  /\ \/ SyncFile /\ UNCHANGED used
     \/ Spend("fault") /\ UNCHANGED <<file, removed>>
  /\ UNCHANGED <<journal, records, mem, worker, callers, oDelete, oSync, oFinish,
                 oClaim, phase>>

\* The caller is cancelled while a thread of its delete runs: lock.write() is
\* released at once, the thread runs on, and nothing after it happens.
DeleteCancelled(k) ==
  /\ CancelDelete
  /\ ~WriteLocked
  /\ Spend("delete")
  /\ oDelete' = oDelete \cup {k}
  /\ UNCHANGED <<journal, stores, worker, callers, deleting, oSync, oFinish,
                 oClaim, phase>>

DeleteSyncCancelled ==
  /\ CancelDelete
  /\ deleting
  /\ deleting' = FALSE
  /\ oSync' = TRUE
  /\ UNCHANGED <<journal, stores, worker, callers, oDelete, oFinish, oClaim,
                 phase, used>>

OrphanDeleteRows(k) ==
  /\ k \in oDelete
  /\ DeleteRows(k)
  /\ oDelete' = oDelete \ {k}
  /\ UNCHANGED <<journal, file, worker, callers, deleting, oSync, oFinish, oClaim,
                 phase, used>>

OrphanSync ==
  /\ oSync
  /\ SyncFile
  /\ oSync' = FALSE
  /\ UNCHANGED <<journal, records, mem, worker, callers, deleting, oDelete,
                 oFinish, oClaim, phase, used>>

-----------------------------------------------------------------------------
\* stop(): under lock.write() it cancels the worker. A thread the worker was
\* awaiting runs on without it.
StopBegin ==
  /\ ~WriteLocked
  /\ Spend("stop")
  /\ pc = "finishing" => InterruptFinish
  /\ phase' = "stopsync"
  /\ pc' = "off"
  /\ cur' = 0
  /\ fin' = <<>>
  /\ oFinish' = oFinish \cup {fin[i] : i \in DOMAIN fin}
  /\ oClaim' = (pc = "claim")
  /\ UNCHANGED <<journal, stores, after, replaced, added, batch, callers,
                 deleting, oDelete, oSync>>

\* _sync_and_finish: a failed sync finishes nothing.
StopSync ==
  /\ phase = "stopsync"
  /\ \/ SyncFile /\ phase' = "stopfinish" /\ UNCHANGED used
     \/ Spend("fault") /\ phase' = "closing" /\ UNCHANGED <<file, removed>>
  /\ UNCHANGED <<journal, records, mem, worker, callers, threads>>

\* Each job of the batch finishes in order and only then leaves it.
StopFinish ==
  /\ phase = "stopfinish"
  /\ batch # <<>>
  /\ SetStatus(batch[1])
  /\ batch' = Tail(batch)
  /\ UNCHANGED <<ask, stores, pc, after, cur, replaced, added, fin, callers,
                 threads, phase, used>>

\* The batch is done, or a finish raised and no later one is tried.
StopFinished ==
  /\ phase = "stopfinish"
  /\ \/ batch = <<>> /\ UNCHANGED used
     \/ batch # <<>> /\ Spend("die")
  /\ phase' = "closing"
  /\ UNCHANGED <<journal, stores, worker, callers, threads>>

\* The cancelled worker's threads land as long as the database is open.
OrphanFinish(o) ==
  /\ o \in oFinish
  /\ SetStatus(o)
  /\ oFinish' = oFinish \ {o}
  /\ UNCHANGED <<ask, stores, worker, callers, deleting, oDelete, oSync, oClaim,
                 phase, used>>

OrphanClaim ==
  /\ oClaim
  /\ oClaim' = FALSE
  /\ jobs' = [j \in JobIds |-> IF IsClaimed(j) THEN "processing" ELSE jobs[j]]
  /\ UNCHANGED <<ask, stores, worker, callers, deleting, oDelete, oSync, oFinish,
                 phase, used>>

\* The Collection object is gone, with everything it kept in memory.
Discard ==
  /\ phase' = "down"
  /\ mem' = {} /\ removed' = 0
  /\ pc' = "off" /\ after' = 0 /\ cur' = 0
  /\ replaced' = {} /\ added' = {} /\ batch' = <<>> /\ fin' = <<>>
  /\ wake' = FALSE /\ waking' = {}
  /\ deleting' = FALSE /\ oDelete' = {} /\ oSync' = FALSE
  /\ oFinish' = {} /\ oClaim' = FALSE

\* _close_conns: what still waits for db_lock fails on the closed connection.
\* An enqueue that had committed still returns to its caller.
CloseConns ==
  /\ phase = "closing"
  /\ Discard
  /\ acked' = acked \cup waking
  /\ UNCHANGED <<journal, records, file, used>>

Crash ==
  /\ phase # "down"
  /\ Spend("crash")
  /\ Discard
  /\ UNCHANGED <<journal, records, file, acked>>

OpenWithGhosts ==  \* fault: the loaded ids are not compared with the records
  /\ phase = "down"
  /\ phase' = "running"
  /\ mem' = file
  /\ file' = mem'
  /\ pc' = "top"
  /\ UNCHANGED <<journal, records, removed, after, cur, replaced, added, batch,
                 fin, callers, threads, used>>

\* Collection.__init__ loads the file and _reconcile_ghosts evicts the ids that
\* have no record; then start_worker.
OpenCollection ==
  /\ phase = "down"
  /\ phase' = "running"
  /\ mem' = {e \in file : e.id \in Ids(records)}
  /\ file' = mem'
  /\ pc' = "top"
  /\ UNCHANGED <<journal, records, removed, after, cur, replaced, added, batch,
                 fin, callers, threads, used>>

-----------------------------------------------------------------------------
Client ==
  \/ \E a \in Asks : Enqueue(a)
  \/ \E j \in JobIds : EnqueueReturns(j) \/ EnqueueCancelled(j)
  \/ \E k \in Keys : DeleteDocument(k) \/ DeleteCancelled(k)
  \/ DeleteSync \/ DeleteSyncCancelled

Worker ==
  \/ LoopTop \/ ClaimJob \/ ClaimNone \/ NoneClaimed \/ ClaimRaises \/ WakeUp
  \/ ProcessEmpty \/ ProcessFails \/ UpsertRows \/ PreSync
  \/ UnindexReplaced \/ AddWithIds \/ AddRaises
  \/ FlushSync \/ FlushSyncFails \/ FlushRetry
  \/ PopJob \/ FlushDone \/ FinishJob \/ FinishRaises \/ IndexJob

Orphan ==
  \/ \E k \in Keys : OrphanDeleteRows(k)
  \/ OrphanSync
  \/ \E o \in oFinish : OrphanFinish(o)
  \/ OrphanClaim

Stop == StopBegin \/ StopSync \/ StopFinish \/ StopFinished \/ CloseConns

\* Nothing is left to do: the worker waits, or died and awaits a stop().
Idle ==
  /\ ~WriteLocked
  /\ waking = {} /\ oDelete = {} /\ ~oSync
  /\ \/ pc = "dead"
     \/ pc = "wait" /\ ~wake /\ \A j \in acked : jobs[j] \in Finished
  /\ UNCHANGED vars

Next == Client \/ Worker \/ Orphan \/ Stop \/ Crash \/ OpenCollection \/ Idle

Spec == Init /\ [][Next]_vars

\* Every task and thread the program started goes on, and a collection that
\* went down is opened again (the next request, or resume_pending at boot).
Fairness ==
  /\ WF_vars(Worker)
  /\ WF_vars(DeleteSync)
  /\ WF_vars(StopSync \/ StopFinish \/ StopFinished \/ CloseConns)
  /\ WF_vars(OpenCollection)
  /\ \A j \in JobIds : WF_vars(EnqueueReturns(j))

FairSpec == Spec /\ Fairness
-----------------------------------------------------------------------------
\* Every variable has its type; the one type invariant of the module.
TypeOK ==
  /\ jobs \in [JobIds -> Statuses] /\ ask \in [JobIds -> Payloads]
  /\ records \subseteq Rows /\ file \subseteq Rows /\ mem \subseteq Rows
  /\ removed \in Nat
  /\ pc \in PCs /\ phase \in Phases
  /\ after \in 0..MaxJobs /\ cur \in 0..MaxJobs
  /\ replaced \subseteq Rows /\ added \subseteq Rows
  /\ batch \in Seq(Outcomes) /\ fin \in Seq(Outcomes)
  /\ wake \in BOOLEAN /\ waking \subseteq JobIds /\ acked \subseteq JobIds
  /\ deleting \in BOOLEAN /\ oDelete \subseteq Keys /\ oSync \in BOOLEAN
  /\ oFinish \subseteq Outcomes /\ oClaim \in BOOLEAN
  /\ used \in [Events -> Nat]

\* The outcomes that are to be recorded as 'done' or 'error' with no further
\* sync: their jobs' rows must be in the file already.
Due ==
  Range(fin) \cup oFinish \cup
  (IF pc \in {"finish", "finishing"} \/ phase = "stopfinish" THEN Range(batch) ELSE {})

Succeeds(r, outcomes) == [job |-> r.job, status |-> "done"] \in outcomes

\* Where the worker and stop() can be: what is claimed is open, jobs are batched
\* and finished below the cursor, and nothing of the worker outlives stop().
ControlInv ==
  /\ cur # 0 => jobs[cur] = "processing" /\ cur <= after
  /\ \A o \in Range(batch) \cup Range(fin) :
       phase = "running" => o.job <= after /\ (cur # 0 => o.job < cur)
  /\ pc \in {"prep", "presync", "unindex", "add", "rebuild"} => cur # 0
  /\ pc = "rebuild" => batch = <<>>
  /\ cur # 0 /\ pc \notin {"prep", "presync", "unindex", "add", "dead"} =>
       ask[cur].op = "index"
  /\ fin # <<>> <=> pc = "finishing"
  /\ Len(fin) <= 1
  /\ phase # "running" => pc = "off" /\ cur = 0
  /\ phase = "running" => oFinish = {} /\ ~oClaim
  /\ phase = "down" => batch = <<>> /\ fin = <<>> /\ oFinish = {} /\ ~oClaim
                        /\ ~deleting /\ ~oSync

\* Why DoneRowsDurable holds: the in-memory index knows every row of a job that
\* is done or in a batch to be done, no removal takes an id that a live row
\* has, and what is due to be finished is in the file.
RowInv(r) ==
  /\ jobs[r.job] = "done" => r \in file
  /\ Succeeds(r, Due) => r \in file
  /\ phase # "down" /\
     (jobs[r.job] = "done" \/ Succeeds(r, Range(batch) \cup Due)) => r \in mem
  /\ r.key \in ask[r.job].keys /\ jobs[r.job] # "none"
  /\ \A q \in records : q.id = r.id => q = r
  /\ pc \in {"presync", "unindex"} => r.id \notin Ids(replaced)
  /\ pc \in {"presync", "unindex", "add"} /\ r.job = cur => r \in added

RowsInv == \A r \in records : RowInv(r)

DurabilityInv == ControlInv /\ RowsInv

\* The job journal invariant: once a job is 'done', the synced index file holds
\* the vector of every record it wrote, so no crash can lose it any more.
DoneRowsDurable ==
  \A r \in records : jobs[r.job] = "done" => r \in file

\* Record ids are reused (MAX(id)+1), yet no index ever answers for a finished
\* job's record with the vector of another row that once had its id.
DoneRowsUnambiguous ==
  \A r \in records : jobs[r.job] = "done" =>
    \A e \in mem \cup file : e.id = r.id => e = r

\* Outside a write section the running index holds no id without a record: a
\* ghost would take a result slot in every search (_reconcile_ghosts).
NoGhosts == ~WriteLocked => Ids(mem) \subseteq Ids(records)

\* An upsert never adds a vector under an id the index still holds.
FreshIds == pc = "add" => Ids(added) \cap Ids(mem) = {}

\* For all the reuse of MAX(id)+1, crashes between database and index included, an id
\* means one record wherever it is looked up.
IdsAreSound == DoneRowsUnambiguous /\ NoGhosts /\ FreshIds

\* Jobs finish in the order they were journaled, across batches, failures,
\* barriers, stops and crashes: no job is open below a finished one.
FinishOrder ==
  \A i, j \in JobIds : i < j /\ jobs[j] \in Finished => jobs[i] \in Finished

\* What a 'done' job wrote is replaced only by later jobs: no replay of an
\* earlier job puts an older version of the document back.
DoneNotReverted ==
  \A j \in JobIds : jobs[j] = "done" /\ ask[j].op = "ingest" =>
    \A r \in records : r.key \in ask[j].keys => r.job >= j

\* The journal is worked off in its order, and what a job wrote stays in that order.
JobsKeepOrder == FinishOrder /\ DoneNotReverted

\* Unless a sync failed, removals pile up past the cap only from nothing, by one job
\* that is over it alone, or by a delete, which syncs next (SYNC_MAX_REMOVALS).
RemovalsCapped ==
  [][~deleting' /\ used["fault"] = 0 /\ removed' > removed =>
       removed = 0 \/ removed' <= MaxRemovals]_vars

\* A finished job keeps its outcome: no claim, replay or late thread of a
\* cancelled worker reopens it or changes its status.
FinishedIsFinal ==
  [][\A j \in JobIds : jobs[j] \in Finished => jobs'[j] = jobs[j]]_vars

\* Seen from outside, the journal is the ledger: a FIFO queue of jobs that
\* crashes, stops and retries leave as it is.
ledgerBar == [j \in JobIds |-> IF jobs[j] \in Open THEN "open" ELSE jobs[j]]
Ledger == INSTANCE JobLedger WITH ledger <- ledgerBar
ImplementsLedger == Ledger!Spec

\* A job whose enqueue was acknowledged is finished, in spite of finitely many
\* failed syncs, stops and crashes, and even when other callers were cancelled
\* before they could set the wake event.
AckedJobFinishes ==
  \A j \in JobIds : j \in acked ~> jobs[j] \in Finished
=============================================================================
