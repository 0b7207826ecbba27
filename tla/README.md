# Raggio in TLA+

A verification project for raggio, a vector and full-text search server: TLA+
models of its concurrent and crash-prone parts, TLC configurations that check
them on small instances, and proofs that TLAPS checks for every value of the
constants. `store.py`, `app.py` and `lib.rs` below are `src/src/raggio/store.py`,
`src/src/raggio/app.py` and `src/native/src/lib.rs`. `PROJECT.json` maps every
definition to its lines.

## The system

Raggio is one process per data directory, one asyncio event loop, and a thread
pool for everything that blocks (SQLite, the vector index, `rmtree`). A thread
outlives the task that awaits it: a cancelled task leaves its thread running.
That, crashes, and state read before an `await` and used after it, are where
the hard behaviours come from.

| part | state | operations | interacts with |
|---|---|---|---|
| ingest journal and worker (`Collection.enqueue`, `_run_worker`, `_flush_unsynced`, `stop`) | `jobs`, `job_payloads`, `records` in meta.db; the index in memory and in its file; the open batch `_unsynced`; `_wake` | enqueue, claim, upsert, index add, batch sync, finish, index job, stop, crash, reopen | write lock; `db_lock`; deletes |
| document delete (`delete_document`) | the same tables and index | delete rows and ids, sync | write lock, worker |
| readers-writer lock (`_RWLock`) | reader count, writer flag, writers waiting, a condition | read, write, cancel | searches, worker, deletes, stop |
| read connections (`_ReadConn`, `_reading`, `_close_conns`) | a registry of per-thread SQLite handles, a guard, `closing`, `closed` | register, enter, leave, sweep, interrupt, close | stop |
| collection manager (`CollectionManager`, `lifespan`) | catalog.db, the collection directories, `resident`, `_load_lock`, `_stopping` | create, touch with LRU eviction, delete, idle sweep, boot, shutdown | every collection's `stop()` |
| searches and their caches (`search`, `_vector_ids`, `_allow_cache`) | cached id arrays and a generation counter, per cache | filter scan, write, reset | lock, worker, deletes, patches |
| IVF index, attach and detach (`_IvfIndex`, `_attach_index`, `_detach_index`) | `ivf/` shards and centroids, the flat file, catalog `index_config`, `_dirty`, `_id_cache` | build outside the lock, backfill, diff, swap, sync per shard, reopen | worker, deletes, searches, catalog |
| scan batching (`_scan_batched`, `_scan_scoped`) | queues of waiting searches, futures, a drain task each | join a queue, drain, fail | searches, stop |
| shard pool (`_ShardPool`) | a thread pool | run the shard searches of a query, close | searches, stop |
| start-up and shutdown (`lifespan`, `lock_data_dir`) | raggio.lock, the start task, its outcome | try or poll for the lock, boot, fail, drain, shut down, exit | the other replica, manager |
| schema migration (`open_meta_db`) | meta.db's tables, columns, indexes, FTS table and triggers | one transaction after the other | every load |
| HTTP API | none of its own | readiness, routes, typed errors (404, 409, 503) | manager, collections |
| embedding client | a lazily made HTTP client per collection | make, use, close | searches, worker, `stop()` |
| payload codec (`_encode_payload`, `_decode_payload`, `_payload_rows`) | the journal row | encode, decode with checks, flatten | enqueue, worker |
| ranking and filters (`_filter_sql`, `_text_ids`, `_rrf`, `_relative`, `_expand`) | the document frequency cache | filter, prune, rank, fuse, expand, list | searches, worker |
| native BM25 scorer (`lib.rs`) | none | rank candidates | text searches |
| settings | environment | read once | all |

What makes each part correct:

* **Journal.** A job that is `done` has its vectors in the synced file; jobs are
  claimed and finished in order; nothing done is undone by a replay; ids are
  reused, but never while an index still answers for the old row; every
  acknowledged job is finished.
* **Lock.** A writer is alone; a cancelled waiter wakes whom it held back;
  readers do not starve the writer.
* **Read connections.** No handle is closed under its reader or interrupted
  after its close; none is left open; `stop()` ends although a read does not.
* **Manager.** One object per directory at a time; no zombie of a deleted
  collection; a row has its own files; the cap bounds memory; a shutdown leaves
  nothing open; the load lock is always released.
* **Searches.** A cache never serves an answer older than a write that has
  returned, allowlist and index are of one state, and every waiter of a shared
  scan is answered.
* **Index swap.** What was ingested or deleted while an index was built is in the
  new one or not, as it should be; a crash at any step leaves an index that loads or
  a job that rebuilds it; a shard that counts as clean is on disk; a shard's id
  cache is never stale.
* **Server.** One process has the directory; a waiting replica takes over; a
  killed migration is completed; a request that loses a race with an eviction or a
  DELETE is told the truth; no client is leaked.
* **Retrieval.** The records are what was posted last; both scorers rank alike;
  a filtered search ranks a small allowlist exactly; pruning loses no match.

## Modules

| module | models | proofs |
|---|---|---|
| `IngestJournal` | the ingest path, deletes, stop, crash and reopening of one collection | `IngestJournalProofs` |
| `JobLedger` | what the journal promises: a FIFO ledger of jobs | `IngestJournalProofs` |
| `RWLock` | `_RWLock` with waiting, waking, barging and cancellation | `RWLockProofs` |
| `ReadConns` | `_ReadConn` and the closing sweep | `ReadConnsProofs` |
| `Searches` | vector searches, the allowlist cache, shared scans and the writes they race; instantiates `RWLock` | `SearchesProofs` |
| `Manager` | `CollectionManager` and the order of the lifespan | `ManagerProofs` |
| `IndexSwap` | index jobs, their swap on disk and in memory, shard syncs, shard-id caches | `IndexSwapProofs` |
| `MetaDb` | meta.db and the transactions of `open_meta_db`, as operators | |
| `Service` | two replicas, start-up, requests, answers; extends `MetaDb` | `ServiceProofs` |
| `Payload` | the payload codec and `_payload_rows`, as operators | `RetrievalProofs` |
| `Scoring` | pruning, both BM25 scorers, both fusions, as operators | `RetrievalProofs` |
| `Retrieval` | posts through the journal into records, and every kind of question; extends `Payload` and `Scoring` | `RetrievalProofs` |
| `MC...` | values of the constants for TLC | |

The modules split the system where it is joined by narrow promises, and each
reduces its neighbours to those: `IndexSwap` has one open ingest job instead of
the journal, `IngestJournal` one `IndexJob` step instead of the swap, `Service` one
name instead of the manager's many, `Retrieval` runs one job and one question at a
time, since the interleavings are in the other modules. `Searches` is composed with
`RWLock`, `Service` with `MetaDb`, `Retrieval` with `Payload` and `Scoring`.

Definitions marked `fault` are not part of a specification. Each is a plausible
bug in the definition below it, kept to show that a property notices it.

### IngestJournal

One collection. The stores that survive a crash are `jobs` and `ask` (the
journal), `records` and `file`; the rest is the `Collection` object. A payload is the
set of external ids it writes; a row carries the job that wrote it, so that
an index entry can be told from a later row with the same id.

| code | model |
|---|---|
| `_run_worker` | `pc`: top, claim, none, wait, prep, presync, unindex, add, flush, backoff, finish, finishing, rebuild, dead |
| `_unsynced`, the claim cursor, `_removed_since_sync`, `_wake` | `batch`, `after`, `removed`, `wake` |
| enqueue's commit and its return to the loop | `Enqueue`, then `EnqueueReturns` or `EnqueueCancelled` |
| `_process_job`: upsert, cap sync, `_unindex`, `add_with_ids` | `UpsertRows`, `PreSync`, `UnindexReplaced`, `AddWithIds` or `AddRaises` |
| `_flush_unsynced` | `FlushSync`, `FlushSyncFails`/`FlushRetry`, `PopJob`, `FinishJob` |
| `delete_document`, cancelled at either await | `DeleteDocument`, `DeleteSync`, `DeleteCancelled`, `DeleteSyncCancelled` |
| threads that outlive their task | `oDelete`, `oSync`, `oFinish`, `oClaim` and the `Orphan...` actions |
| `stop()` | `StopBegin`, `StopSync`, `StopFinish`, `StopFinished`, `CloseConns` |
| `__init__`, `_reconcile_ghosts`, `start_worker` | `OpenCollection` |

Steps inside `lock.write()` are separate where an orphaned thread can come in
between. The enqueue takes only `db_lock`, so it interleaves everywhere.

Two constants switch behaviours that break some of the properties (see Findings),
so that the rest can be checked with and without them: `InterruptFinish` (a stop
or an error cuts off the finish of a job that has left the batch) and
`CancelDelete` (a delete's caller is cancelled while its thread runs).

### RWLock and ReadConns

`RWLock` has one action for each way in, wait, resumption, exit and
cancellation of `read()` and `write()`. A waiter is runnable again after
`notify_all`, and between the notification and its turn others may barge in.

`ReadConns` splits `_ReadConn.__exit__` and `close_when_idle` at each access to
`lock`, `state` and `closing`, since the hand-off at the deadline is
argued in the code from the order of those accesses. `Drain`
is the end of an access under `state`. `NextConn` walks the registry the
sweep has swapped out, and `DeadlinePasses` may happen at any time.

### Searches

One collection, with `RWLock` instantiated for its lock: a client is a reader, a
writer upserts, deletes or patches. Data are reduced to the writes they reflect:
an allowlist is the number of commits before its `SELECT`, the index and an
answer are sets of writes.

| code | model |
|---|---|
| `search()` up to the await of `_vector_ids` | `SearchStart` or `SearchResume`, with `VectorIds` choosing full scan, scoped scan or thread |
| `run()` on its thread | `CacheHit` or `CacheMiss`, `ReadGen`, `SelectIds`, `StoreIds`, then `ScanAllowed` |
| `_scan_queue`, `_scan_task`; `_scoped_scans` | `drain[Full]`; `drain[<<scope, list>>]` |
| `_drain_scans`, `_drain_scoped` | `DrainStarts`, `DrainScans` or `DrainScanRaises`, `DrainAnswers` or `DrainFails`; `Taken` is what the loop takes next |
| `_upsert_rows`, `_delete_doc_rows`, `_patch_rows` | `Commit`, `ChangeIndex`, `Invalidate` in the order of `UpsertSteps`, `DeleteSteps`, `PatchSteps` |
| a cancelled caller | `SearchCancel`, `WriteCancel`: the lock is free, thread and future stay (`Orphan`) |

Two allowlists of one scope with the same content share a scan in the model and
not in the code. An empty index, a closed collection and the search of an empty
list return at once and are left out.

### Manager

A collection is the number of the create that made its files: `catalog` has it
in the row, `dir` in the directory, `pending` in the journal. A `Collection`
object is a slot of `objs` and goes building, open, stopping, closed. `lastUsed`
is the order of `last_used` and nothing more. A task is an `op`, a `pc` (which
await it is at), the collection it is about, the object it builds, stops or
holds, and whether it was cancelled inside `_evict` or `_construct`, where a
cancel takes effect late. `resume_pending` runs the same touch as a request.

`Overlap` says whether creates and deletes of one name may run at the same time
and `ProbesDim` whether a create asks the embedding endpoint. The sweep's
walk over its snapshot has no await except in an eviction; its
model lets other tasks run there too, which only adds behaviours. The removal of
a directory is one step at any time between its start and end. The answer of
a closed collection (404 or 503) and `Collection.deleted` are in `Service`.

### IndexSwap

One collection with an index job and an ingest job. An entry of an index is a row
id with the put that wrote its vector, so that a reused id or a stale vector shows.
The stores that survive a crash are `rec`, `bare` and `vecs` (meta.db), `flat` and
`dir` (the files), `catalog`, `put` and `job` (the journal).

| code | model |
|---|---|
| `_attach_index`, `_detach_index` up to the swap | `JobStart`, `Sample`, `Backfill`, `Stream` (a row at a time, searches and deletes in between) |
| the swap, under `lock.write()` | `SwapBegins` (the diff), `SwapRemove`, `SwapRename` or `SwapReplace`, `SwapCatalog`, `SwapAssign`; `SwapFails` at a step of `FailingSteps` |
| a replay past the swap, a retune | the short branches of `JobStart` |
| `_IvfIndex.sync`, `_shard_written` | `SyncShard` and `SyncClears` per shard; `Written`, which races a sync and an id cache |
| `_shard_ids` | `ProbeBegins`, `ProbeReads`, `ProbeStores` |
| `_process_job`, `_flush_unsynced` | `Put`, `Flush`, then the sync's steps and `SyncEnds` or `SyncFails` |
| `delete_document`; its removal or its sync without its caller | `DeleteBegins`, `DeleteCommits`, `DeleteUnindexes`, `DeleteWritten`; `DeleteAbandoned`, `DeleteSyncAbandoned` |
| a sync that has lost its caller, on the index it began with (`late`) | `LateFlat`, `LateShard` and `LateClears` per shard, `LateRaises`; `Leave`, when `self.index` becomes another |
| `Collection()` and `_reconcile_ghosts` | `Open` |

`rmtree` may stop after any set of files. Which shard a vector belongs to is
any one of them: the k-means is left out, the promises do not depend on it. `Put` is one
step: what an abandoned delete can do between an upsert and its add is in
`IngestJournal`.

A sync that has lost its caller holds no lock. It writes the shards of the index
it began with into `ivf/`, which a swap may have replaced meanwhile (Findings 14);
`mixed` is set when it changes a file there, and from then on the properties ask nothing
of the files.

### MetaDb and Service

`MetaDb` keeps one record and asks of a database which tables, columns and indexes
it has, what its full text index is built on (`fts`) and what it holds (`entry`).
`Run` is one transaction of `open_meta_db`, `OpenSteps` their order; `Legacy` are the
layouts that earlier versions left, `Upserted` and `Patched` what a version without
the later columns may do to them.

`Service` has two processes on one directory. A process is `starting` (the lock was
free: the start is awaited before it serves) or `serving` with a start task that
polls; `start` is where that task is. A collection object goes loading, open,
stopping, closing, closed; loading is one migration step at a time.

| code | model |
|---|---|
| `lifespan`, `lock_data_dir` | `Launch`, `Poll`, `OpenCatalog`, `Boot`, `StartFails` |
| SIGTERM, the server's drain, `shutdown()` | `Term`, `TermAtWill`, `Drained`, `ShutdownEvicts`, `Exits`; `Kill` anywhere |
| `require_ready` and what a handler does before its first await | `Arrive` |
| `get_collection`, the routes on a collection | `Touch`, `Use`; a search is `Embed`, `EmbedEnds`, `Scan` |
| `_closed_error`, `collection_closed`, `collection_deleted` | `RaisesClosed`, `HandlesClosed` |
| `embedder`, the client's close in `stop()` | `Embed`, `StopEnds` |
| `delete_collection` | `DeleteLocks`, `DeleteRow` (or its caller goes), `DeleteFiles` |

A create starts only when no delete of the name runs, so that the known race of
the two (`manager_recreate`) is not reported a second time here.

### Payload, Scoring and Retrieval

A vector is a direction, a cosine falls with the distance of two, and the index sees
half of it (`Quantized`), which is what over-fetch and rescore are for. A text is
a sequence of words that fold to one token, several or none. Scores are whole
numbers of the code's formulas with k1 = b = 1, at a scale that leaves no token of a text
worth 0; float rounding is left out. FTS5's and turbovec's rankings are external. `Sorted`
and `Selected` do what the library's `SetToSortSeq` and `SelectSeq` do, defined so that a
prover can expand them.

| code | model |
|---|---|
| `_encode_payload`, `_decode_payload`, `_payload_rows`, `_rows_matrix` | `Encode`, `Decodable` and `Decode`, `PayloadRows`, `Normalizable` |
| `enqueue`; a journal row that loses its end; `_process_job` | `Post`; `Tear`; `Work` |
| `_filter_sql` | `Valid`, `Holds`, `Filtered` |
| `_IvfIndex.search`, `_search_rescored`, `_search_allowed`, `_vector_ids` | `Probed`, `IvfSearch`, `SearchRescored`, `SearchAllowed`, `VectorIds` |
| `_df`, `_prune_common`, `_text_ids`, `_bm25_rescore` | `DfsFor` and `CacheKept`, `PruneCommon`, `TextIds`, `Bm25Rescore` |
| `_avgdl`, `_avgdl_cache` | `MeansFor`, `MeanKept`; `Rescores`, when it is wanted |
| `_bm25_topn`; `bm25_topn` in `lib.rs` | `Bm25TopN`, by `Bm25Score`; `NativeTopN`, by `NativeScore`, which is `TermIx`, `Counted`, `OnToken` |
| `_rrf`, `_relative` | `Rrf`, `Relative` |
| `search`, `_expand`, `list_records`, `get_document` | `Ask`, `VectorLeg`, `TextLeg`, `Answer`; `Siblings`, `SummaryOf`; `Listed`; `DocumentOf` |

The document frequency cache and the mean text length (`avgdl`) stay between questions, so
they are stale when these are asked after further posts, until `churn` is past its limit.
The code takes the mean of up to 256 random probes; in the model it is any number
between the shortest and the longest text that is not empty (`Means`). A scorer that
divides by a mean of 0 raises, and with it the search (`Raised`). A shared full scan goes with the
widest `nprobe` and depth of those who share it: `VectorLeg` tries them all.

## Runs

| run | question | result |
|---|---|---|
| `journal_orderly` | three jobs, a crash, a delete and a failure in every order: refinement of `JobLedger`; `JobsKeepOrder` (finish order, no document reverted); capped syncs; durable rows; `IdsAreSound` (ids of done rows are one row's, no ghosts, fresh ids) | holds |
| `journal_interrupted` | with both switches on, a finished job stays finished | holds |
| `journal_live` | an acknowledged job is finished although another caller was cancelled before it set the event, a sync failed, the collection stopped or crashed; empty payloads and index jobs | holds |
| `rwlock` | exclusion, no lost wake-up; `LockIsGranted` (a writer is not starved by readers, readers behind a cancelled writer are not forgotten) | holds |
| `readconns` | `UsesOpen` (reads and interrupts on open handles only), no leak; the sweep ends in any case; all handles are closed if reads end | holds |
| `searches` | two clients, two writes of any kind, two cancellations or exceptions: no stale list stays cached, a search sees every write that returned before it began, list and index agree under the lock, no future is forgotten, no deadlock | holds |
| `manager_safety` | two requests, a sweep, a shutdown, a crash, a cancel and a failure on two collections under a cap of one; creates and deletes of one name one after the other | holds |
| `manager_live` | every touch and delete ends; open jobs in both collections and a crash: a boot has all done | holds |
| `index_swap` | attach, retune and detach jobs while rows are put, deleted and searched, one stop or crash, one failure: the index is the rows, nothing is lost for good, clean shards are on disk, id caches are current; a delete's caller may go at either await | holds |
| `service` | two replicas and two requests, a kill, a SIGTERM, an eviction, a cancelled delete and a failure: one process at a time, the waiting replica takes over, an interrupted migration is completed, answers are true, no client is leaked | holds |
| `retrieval` | two payloads, one torn on disk, every kind of question: the records are what was posted, both scorers agree, small allowlists are exact, matches are found, and only a collection that has had text without a token can raise | holds |
| `manager_recreate` | does a delete remove files of its own collection only? (Findings) | violated |

### Bounds

* Journal: two keys and three jobs let a job replace another's row and a third
  close or follow the batch (`BatchJobs = 2`). `MaxRemovals = 1` puts the cap within
  one job's reach. Each kind of event has its own budget in `Limit`; one crash and
  one failure can fall anywhere, and after the crash there is room for a
  second life that replays. `MaxJobs` bounds the journal.
* Lock: three readers and two writers, one more than is needed for a writer to be
  queued behind a reader while another barges in. Entries are not
  bounded.
* Read connections: three threads, so that one reads, one opens its
  connection and one is gone when the sweep passes. Each thread has one connection.
* Searches: one orphan and one live search, or two live ones, against two writes:
  an orphan that spans a write, or a search that joins a drain another one began. The
  cache holds one list and a scoped scan one query, so that evictions, second groups
  and skipped groups happen. `MaxUpsets` bounds cancellations and exceptions together.
  Clients and writers are symmetric, and the run asks no liveness.
* Manager: two names under a cap of one make every load an eviction; two requests
  and a sweep are enough for a task inside the lock, one queued and one on
  the fast path. `Slots` is never reached: names plus requests cannot hold more
  objects. `MaxCreates` bounds creates. `manager_live` has one request, a sweep and
  the boot as the rivals for the load lock; two requests at once are in
  `manager_safety` only, where the state space still allows them.

* Index swap: two shards and two stored rows, one of them without a retained vector,
  so that a shard can be dirty beside a clean one, a file can be missing and a
  backfill is needed; one event of each kind, which lets a put, a delete (whose
  caller may go), a search's cache fill, a failure and a stop or crash fall into any
  step of one index job, and the reopened collection replay it. One sync at a time runs
  without its caller, and only after it has looked up `self.index`. Failures are at
  `remove` and `replace`: see Findings 5. 2.8 million states.
* Service: two replicas, so that one waits while the other runs, stops or dies; two
  requests, one of which can close what the other has found; three objects, so
  that a request can hold a closed one beside a new one. `Total` bounds the events of a
  run to five of those that `Limit` allows. 0.3 million states.
* Retrieval: two payloads of five kinds after one old row: every overwrite of a
  summary, a chunk and an old row, an id twice in one payload and under two
  documents. The thresholds of the code (over-fetch, owner probing, two-stage and
  direct text search, hybrid depth, cache churn) are scaled down so that the rows
  fall on both sides of each; one of the five payloads is punctuation, and the next may
  leave its mean of 0 in the cache or drop it. 0.3 million states.

### Fairness

Weak fairness of the worker, the orphaned threads that must end, `stop()` and the
reopening: the event loop and the thread pool run what is runnable, and a
collection that went down is opened by the next request or by `resume_pending`.
Waiters for `_load_lock` are resumed by asyncio in FIFO order, which the manager
model takes as strong fairness of a task's steps: the lock is free again and
again, and each waiter gets its turn. The platform restarts a process that
exited. Failures, crashes, cancels and stops are never fair and end with their
budgets. No fairness is assumed of clients, or of a read that does not end:
`AllClosed` names the end of reads as its own premise, `SweepReturns` does
without. `WriterNotStarved` has the other writers stay away from some time on,
since `_RWLock` lets writers barge past each other. In `Service` the platform stops
the old replica once the new one answers `/healthz`, and one whose start has failed
(`Term`, as the comments of `lifespan` presume); requests wait for `_load_lock`,
so their steps are strongly fair. Launches are not fair: `TakesOver` is about a
replica that waits.

### Findings

1. `manager_recreate`: the rmtree of a delete runs without the lock and removes
   the files of a collection created meanwhile; the row stays (`store.py:3200`).

The following were met while modelling, most as counterexamples of TLC in settings that
are not kept as runs; the settings named bring them back.

2. `_flush_unsynced` takes a job out of the batch before its finish runs
   (`store.py:1706`). If that finish is cut off, later jobs of the batch become
   `done` and a replay of the earlier one overwrites them
   (`IngestJournal` with `InterruptFinish = TRUE`: `DoneNotReverted` fails).
3. A cancelled delete's thread can run between an upsert's commit and its index add
   (`store.py:1809`); the add leaves ids without a row, and the next upsert
   reuses one (`CancelDelete = TRUE`: `FreshIds` fails).
4. Two creates that probe the dimension both pass the existence check; the second
   removes the first one's files (`store.py:3088`; `Manager` with `ProbesDim` and
   `Overlap`: `CatalogHasFiles` fails).
5. A swap that raises after the rename or the replace, or in the catalog's commit, ends
   in `error` with files that are not those of the index in memory; what was dirty
   and what was not is then about other files (`IndexSwap` with `FailingSteps`
   beyond `remove`, `rename` and `replace`). A `rename` that fails has removed
   `ivf/` already: the next start finds no shards, as after a crash between the two,
   where however the job replays.
6. A crash between the catalog's commit of an attach and the unlink of the flat file
   (or of a detach and its rmtree) leaves the old file. The replay of an attach
   that names only `nprobe` takes the shortcut for a retune and never unlinks it,
   against the comment at `store.py:1299`; it is loaded only if `centroids.npy` is
   lost, too.
7. An id whose delete lost its caller or its sync, and that `MAX(id) + 1` gives out
   again, can be in two shards at once; `IndexIsTheRows` excepts such ids (`orphans`).
   With two ingests and two deletes even that is too much to ask: a shard file keeps the
   entry of such an id, a crash in the middle of a sync reloads it, and the new row of
   the id is then next to an entry of the old one. So `IndexIsExact` (Proofs) is about
   a collection whose deletes have all returned.
8. `_prune_common` promises that "The rarest token always survives"
   (`store.py:2530`). With a stale frequency cache the token kept may match nothing
   any more, and a query with matches finds none: `MatchesAreFound` asks for it only
   while the cached frequencies are true.
9. A sampled mean length of 0.0, when every text probed is punctuation, makes both scorers
   divide by zero (`store.py:485`, `lib.rs:191`): a direct or a two-stage text search raises. The
   mean is cached (`store.py:2600`), so this goes on after texts with tokens have been
   posted and the punctuation is gone, until more than `max(1000, total // 4)` rows have
   changed, although "sampling error barely moves ranking" (`store.py:2577`). `MatchesAreFound`
   allows a search to raise only where a text without a token was ever posted.
10. An allowlist of more than 128 ids whose rows have no retained vectors is looked up
    in the probed shards only and may find fewer than `k`.
11. A DELETE whose caller is cancelled has flagged the object `deleted` while the row
    stays: a request that holds it is told 404 although a retry would find the collection.
12. A job can be journaled after the check that its collection has no open jobs and
    before `stop()` closes it (`store.py:3117`); it waits for the next touch,
    although `docs/storage.md:152` says "Collections with pending ingest jobs are
    never evicted".
13. An index removal that raises in `_delete_doc_rows` skips `_invalidate_allow`:
    `CacheIsCurrent` is stated without it.
14. A delete whose caller goes while it syncs (`store.py:2823`) releases the write lock, and the
    thread writes on. A swap that waits for the lock replaces `ivf/` (`store.py:2178`) under
    it, and the shards of the old index land among those of the new one. The index job ends
    `done`, and with a crash before the next sync of such a shard a row that was in it
    is not in any index (`IndexSwap` without `mixed` in `NothingLost`); an id can
    come back in two shards (`IndexIsTheRows`); and a shard that counts as clean is not what is
    on disk (`CleanShardsAreOnDisk`), also where the sync outlives a `stop()` whose own
    sync failed and the collection is opened again.

## Proofs

All theorems hold for every value of the constants under the modules' named
assumptions (`KeysAssumption`, `BoundsAssumption`, `SwitchAssumption`,
`AsksAssumption`, `TasksAssumption`, `ManagerAssumption`, `SearchesAssumption`,
`SwapAssumption`, `MetaDbAssumption`, `ServiceAssumption`, `ScoringAssumption`,
`RetrievalAssumption` and the seven below), which TLC evaluates in the runs. Those of
`Retrieval` say what its data are:

* `FoldAssumption`, `TextsAssumption`, `VectorsAssumption`: a word folds to a sequence of
  tokens, the endpoint gives every text a direction, and `Scale` is no less than the
  length of a text. In the code an idf is at least 1e-6, so there a token is
  never worth 0 either.
* `PayloadsAssumption`, `OldAssumption`: what is posted are documents of such texts, and
  the old rows have distinct external ids (`UNIQUE`, `store.py:765`).
* `QuestionsAssumption`: a search has the text or the vector its mode needs, and asks for
  at least one hit. No leg goes deeper than `TEXT_AND_CAND`, 1000 (`store.py:93`): `k` is at
  most 1000 (`app.py:92`) and `HYBRID_DEPTH` 100.
* `CandidatesAssumption`: `TEXT_OR_CAND` is not 0 (500, `store.py:90`).

* **`IngestJournalProofs`**: `TypeCorrect`, `Durability`, `DoneRowsAreDurable`,
  for both values of both switches. `DoneRowsDurable` is not inductive: a
  `done` row must survive the next sync, so the in-memory index has to know it,
  also before it is done (`RowInv`: rows of jobs that are done, in the batch
  or due are in `mem`, and what is due without another sync is in `file`);
  removals must not hit a live row that has the id of a replaced one, which
  needs ids to be unique among rows and the replaced ids to be free; and
  the worker's control state says when a job is in the batch (`ControlInv`).
  `IdsStaySound` and `RemovalsStayCapped` assume that no delete's caller is cancelled
  (`~CancelDelete`). Then an id in the index is a record's or that of a replaced row
  about to go, and the rows being added are not in it yet (`IdInv`); what is to be
  removed fits under the cap or is all there is (`CapInv`).
  The order: `LineInOrder`, `FinishedStaysFinished`, for both values of both switches; `OrderInvariant`, `JobsAreInOrder` and the refinement
  `JournalIsALedger`, where no finish is cut off (`~InterruptFinish`, see Findings 2).
  What has been processed and is to be finished, by the worker, by stop() or
  by a thread whose worker is gone, is one line in the order of the journal, each
  job of it once and still `processing` (`LineInv`), so nobody can finish a job
  twice. `FinishOrder` is not inductive: below a job in the line, or claimed, everything
  has to be finished or in the line (`OrderInv`), and what a job has written
  may be replaced by later jobs only, from its upsert on (`LatestInv`). Every action
  is first shown to be of one of seven kinds (`Kind`), and the invariants and the
  refinement are proved of the kinds.
* **`RWLockProofs`**: `LockInvariant`, `WritersExclude`, `NoWakeupIsLost`. The
  counters equal the sizes of the sets of tasks they count, and whoever waits
  unnotified has somebody inside or queued who will notify.
* **`ReadConnsProofs`**: `HandOffIsSafe`, `ReadsAreOnOpenHandles`,
  `InterruptsReachOpenHandles`, both in `UsesAreOnOpenHandles`, and `NoHandleLeaks`.
  The invariant follows the code's own argument: either the owner sees `closing`, or
  the sweep's second try finds the lock free.
* **`ManagerProofs`**: `ManagerTypes`, `Ownership`, `DirectoryHasOneOwner`, `NoZombies`,
  `NoneForgotten`, `ShutdownClosesAll`, `MemoryIsBounded`, for both values of `Overlap`
  and `ProbesDim`; `CataloguedHaveFiles` for both of `ProbesDim`, without `Overlap`.
  `OneOwner` is not inductive: a build must not find another object of its
  name, so every object that is not closed is resident or has the task that builds or
  stops it (`ObjInv`), that task has the lock (`LockInv`) or is the shutdown, which
  runs when no request does (`PhaseInv`), and nothing is resident beside a build
  (`TaskInv`). An eviction keeps the object's owner; a cancelled one keeps the lock
  too. `ClosedAtExit` needs in addition that what the shutdown has still to visit is
  all that is resident (`ClosingInv`). For `MemoryIsBounded`: with no open jobs a
  full manager has a least recently used victim (`LeastRecent`), and whoever builds
  is alone in the lock, so what is live then is what is resident. For
  `CataloguedHaveFiles`: who edits the files of a name is alone at it, threads of
  cancelled deletes included, and its row is not there yet or no more (`EditInv`).
* **`SearchesProofs`**: `SearchTypesHold`, `CacheStaysCurrent`, `ReturnedWritesAreSeen`,
  `SearchesSeeOneState`, `FuturesAreServed`: all the safety of `Searches`. None is
  inductive. The cache is current because a search may store its list only while
  the generation it read first still stands (`SearchOf`), and whatever a stored
  list misses is a write that has still to empty the cache and of which nobody has
  been told (`CacheInv`). For that every commit must have its writer
  (`WriteInv`), the index must lack a commit only while its writer still owes it
  (`IndexInv`), and the generations given out and to come must not exceed the
  writes that began (`CountInv`). A waiter is in one queue or group, once
  (`DrainInv`). Without abandoned or raising writes, what a write has begun it does
  inside the lock (`QuietWrites`), so no search in there sees half of it
  (`QuietSearches`). The lock's own invariant comes from `RWLockProofs`, instantiated
  as `Searches` instantiates the lock.
* **`IndexSwapProofs`**, for any number of shards, any rows and any budget of events.
  The caches and the files: `SwapInvariant`, `ShardCachesAreCurrent`, `CleanShards`. The
  ids cached for a shard, and those read to be cached, are the shard's unless the
  thread that has changed it has yet to say so or the read has been marked as raced
  (`CacheInv`); `CleanInv` says the same of the files, of the shard a sync has
  just written, and, past the rename of a swap, of the whole new index. `ControlInv`
  has who holds the write lock and what may go on under it.
  - No row is lost: `LossInvariant`, `RowsAreInTheIndex`, `NothingIsLost`, for any failing
    step. Neither is inductive: ids have to be unique and those of rows being
    unindexed gone (`RowsInv`); the index being built has every row it has seen that is
    still there and, at the swap, has seen them all, the skipped ones by way of
    the backfill (`BuildInv`); what is in memory has every row (`MemoryInv`), in a part
    whose file has it too unless its ingest job will replay (`Found`), and what is on
    disk while nothing is up is what the next open looks at (`LossInv`).
  - Nothing else is in it: `IndexIsExact`. As long as every delete has returned, no
    write races a sync (`Quiet`); the new index has each id once, and only ids of rows
    from the diff on (`BuiltInv`); and in memory each id is a row's, once, while the
    files may keep an entry of a deleted or replaced row only if its id stays free
    (`Exact`, `Stale`): below `MAX(id) + 1`, or of the delete that has still to sync.
    That is why a crash in the middle of a sync brings back no old vector under a
    new row's id. Both hypotheses are needed (Findings 5 and 7).
  - A sync without its caller: what it writes is the index in memory, and what that says of
    the shard it has just written holds as for any other sync (`LateClean`), unless the
    index it began with has been replaced; then each file it changes sets `mixed`
    (`LateEffect`), from which on `CleanShards` and the on-disk part of `NothingIsLost` say
    nothing. Both need that (Findings 14). `RowsAreInTheIndex` and `ShardCachesAreCurrent`,
    which are about memory, do without; in `IndexIsExact` such a delete has not returned.
  `CleanShards` and `IndexIsExact` assume that no swap fails between the rename or
  the replace and the assignment.
* **`ServiceProofs`**: `ServiceInvariant`, `DataDirIsOfOneProcess`, `AnswersAreTrueAlways`,
  `ClientsAreClosed`, for any replicas, requests and objects. Whatever has the databases
  open belongs to the process that has the lock (`LockInv`), a collection that is
  being loaded is the one its request waits for (`LoadInv`), and whoever holds an
  object that is flagged deleted has met its DELETE (`DeleteInv`).
  `MigrationIsRepeatable`: an open has done the steps it is past (`Passed`), and a full
  text index that exists holds the records (`Kept`), whatever layout the database had
  and wherever earlier opens were killed. So what serves has the whole schema and
  mirrors its records (`SchemaIsServed`), and lookups by document have an index
  between two statements of a migration, too (`DocumentsStayIndexed`).

* **`RetrievalProofs`**: all four invariants of `Retrieval`, for any payloads and questions,
  any directions and any number of posts and torn rows. `MInv` is the invariant of all.
  - `RecordsAreThePostedAlways`. The operators of `Payload` are folds over sequences, which
    the prover sees as recursive functions on sets of places; `FoldExists` and
    `FoldPrefixes`, by induction on those places, turn each into a sequence of steps, and
    what is said of a fold is said of its steps. So `DecodeIsInverse`: the block of vectors
    only grows (`Extends`) and what was put in stands for its record from then on (`Kept`),
    so nothing whole is refused and nothing torn is decoded. A job's rows are what it says
    last of each id (`PutAll`), and what two sequences of rows leave is what the first
    leaves and the second does not replace (`LastOfConcat`). The property is not
    inductive: a journal row has to be what was posted or shorter than its header says
    (`DataKept`), no job may be done before one that waits (`JobsKept`), and the
    records have to be of distinct external ids (`RowsKept`).
  - `ScorersAlwaysAgree`. The reference looks each token of the query up in a text, the
    native scorer passes over the text once and counts under term numbers. After every
    token its counts are those of the places so far (`Tally`, kept by `TallyNext`), numbering is
    one to one (`TermIx`), and a sum does not depend on the order or the names of what it
    is taken over (`SumRenamed`). So `ScoresAgree`, text by text.
  - `FilteredAlwaysExact`. Sorting by the number of those before an element lists each
    once (`ByRankLists`). Every record is in the shard of one centroid, so the shards that
    own an allowlist have it all between them, each record once, and with room for all the
    merge drops nothing (`IvfAll`); the rescoring then ranks it by what is retained
    (`AllowedExact`). Needed beside it: an id is one record's (`IdsKept`), which the new
    ids of a job, above all others, preserve.
  - `MatchesAlwaysFound`. `_prune_common` keeps a token that matches, if any does
    (`PruneCommonKeeps`, by induction along the order in which tokens are taken); scores
    are positive exactly where a token of the query is (`Bm25ScoreIs`); a ranking leaves
    a row out only when it is full, and for none that is worse (`RankedBy`); the
    second stage has every row with all tokens among its candidates, or at least
    `TEXT_AND_CAND` of them (`CandidatesAre`). `TextIdsFind` puts these together for each way
    through `_text_ids`, with frequencies as stale as they may be and any mean but 0. A mean of
    0, cached or sampled, is the mean of texts without a token, so one was posted
    (`MeanKnown`, `MeansAre`): nothing posted is forgotten (`DoneGrows`), even when its row is gone.

Only model-checked:

* every liveness property (`AckedJobFinishes`, `LockIsGranted`, `SweepReturns`, `AllClosed`,
  `RequestsEnd`, `BootResumesJobs`, `TakesOver`): liveness under fairness and
  `ENABLED` are out of the prover's reach;
* `IndexIsTheRows` where a delete was abandoned or its sync failed, with the bounds of
  `index_swap`.

The library's induction theorems take an operator as a parameter, which the provers
cannot instantiate. Where a proof above needs induction over data (folds, sums, rankings),
it is over a set of numbers, by `Reached`, which follows from the well-foundedness of `<`.

## Not modelled

* The vector library (turbovec) and FTS5, which are not in this repository. Their
  rankings are taken as given; `add_with_ids` may stop part-way. What two overlapping
  syncs of one file do (`store.py:1790`) depends on turbovec's code.
* An add that fails after the rows were committed (`store.py:1812`) leaves an `error` job
  with rows the index does not know: an accepted gap (ADR 0001), so no property
  forbids it.
* The shard pool: a query whose pool is shut down falls back to its own thread, and which
  thread scans a shard does not show in the answer. Settings and API keys: read once.
* The numbers behind the index: k-means, the calibration of a shard, the estimate of an
  object's memory, float rounding in scores. The promises modelled do not depend on them.
* How the tokenizers split a text: `Scoring` has words that fold to one token, to
  several or to none, which is what the code that calls them tells apart. The trigram
  tokenizer; the cap of 100 tokens on a query; collections with `fts_keys`, whose text is
  selected values and whose mean length is never 0 (`store.py:2598`).
* A Windows host, where `lock_data_dir` does not lock. Columns that are added to an old
  catalog.db: the same single transaction as those of meta.db.
* Embedding requests, their batching and retries: calls without a state that
  outlives them. The client's own life is in `Service`.
* `bench/` and the tests: they drive the server and keep no state of it.

## Status

All modules of the plan are written: `IngestJournal`, `JobLedger`, `RWLock`, `ReadConns`,
`Manager`, `Searches`, `IndexSwap`, `MetaDb`, `Service`, `Payload`, `Scoring`, `Retrieval`.

Every invariant and every action property that the passing runs check is proved, within
the hypotheses named above.
