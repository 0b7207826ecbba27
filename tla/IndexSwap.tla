----------------------------- MODULE IndexSwap -----------------------------
(***************************************************************************)
(* The optional IVF index of one collection (store.py): attach and detach  *)
(* jobs that rebuild the vector index beside the live one and swap it in,  *)
(* in memory, on disk and in the catalog; the files and what a reopened    *)
(* collection loads from them; shard-by-shard index syncs; and the id      *)
(* cache that searches keep for every shard.                               *)
(*                                                                         *)
(* An entry <<id, v>> is a row id and the put v that wrote its vector. An  *)
(* index is a function from its parts to sets of entries: the flat index   *)
(* is part 0, shards are the parts from 1 on. Which shard a vector belongs *)
(* to is left open. The journal (IngestJournal) is reduced to one ingest   *)
(* job and one index job, the lock (RWLock) to its exclusive side.         *)
(***************************************************************************)
EXTENDS Integers, FiniteSets, FiniteSetsExt

CONSTANTS
  NShards,      \* shards of every IVF index
  Stored,       \* rows the collection holds at first, flat and synced
  Legacy,       \* stored rows without a retained vector
  Abandonable,  \* rows whose delete may lose its caller
  MinRows,      \* IVF_MIN_ROWS
  TrainSample,  \* IVF_TRAIN_SAMPLE
  Asks,         \* index jobs clients ask for
  FailingSteps, \* steps of a swap that may raise
  Limit         \* bounds: how often each kind of event happens

Shards == 1..NShards
Events == {"down", "put", "delete", "ask", "probe", "fault"}
SwapSteps == {"remove", "rename", "replace", "catalog", "assign"}

ASSUME SwapAssumption ==
  /\ NShards \in Nat \ {0} /\ Stored \in Nat
  /\ Legacy \subseteq 1..Stored
  /\ Abandonable \subseteq 1..(Stored + Limit["put"])
  /\ MinRows \in Nat /\ TrainSample \in Nat
  \* "retune" is an attach with an nprobe and no nlist
  /\ Asks \subseteq {"attach", "retune", "detach"}
  /\ FailingSteps \subseteq SwapSteps
  /\ Limit \in [Events -> Nat]

VARIABLES
  \* on disk
  rec,      \* the rows of records
  bare,     \* stored rows without text
  vecs,     \* the ids in vecs
  flat,     \* index.tvim, or NoFile
  dir,      \* ivf/: whether centroids.npy is there, and the shard files
  catalog,  \* "ivf" when the catalog has an index_config
  put,      \* the open ingest job: its number, and whether its rows are applied
  job,      \* the open index job, or "none"
  \* in memory
  up,       \* the collection is open
  kind,     \* what self.index is
  part,     \* ... and its parts
  dirty, cache,  \* _dirty, _id_cache
  holder,   \* who holds lock.write()
  pc,       \* where the worker is in an index job
  new,      \* the index it builds: parts, ids seen, rows to embed
  del,      \* the delete that runs, in its caller's section or abandoned
  \* A thread that has read _id_gen keeps whether it has changed since then.
  sync,     \* the index sync that runs: its shard, whether it has written the file
  late,     \* a delete's sync that runs on without its caller, and the index it writes
  probe,    \* a search's _shard_ids
  \* history
  outcome,  \* the status of the last index job that had to build an index
  hollow,   \* the last open found rows that no index file has, or files of two indexes
  mixed,    \* an abandoned sync has changed files that were another index's by then
  orphans,  \* ids whose delete has not returned: abandoned, or its sync failed
  used      \* events so far

disk == <<rec, bare, vecs, flat, dir, catalog>>
queue == <<put, job, outcome>>
index == <<kind, part, dirty, cache>>
syncs == <<sync, late>>
history == <<hollow, mixed, orphans>>
vars == <<disk, queue, up, index, holder, pc, new, del, syncs, probe, history, used>>

NoFile == {<<0, 0>>}
NoDir == [centroids |-> FALSE, file |-> [j \in Shards |-> NoFile]]
NoDel == [stage |-> "none", row |-> <<0, 0>>, at |-> 0, orphan |-> FALSE]
NoSync == [at |-> 0, wrote |-> FALSE, raced |-> FALSE]
NoProbe == [stage |-> "none", at |-> 0, raced |-> FALSE, ids |-> {}]
NoCache == {0}
Empty == [j \in 0..NShards |-> {}]
NoBuild == [part |-> Empty, seen |-> {}, last |-> 0, todo |-> {}, late |-> FALSE]
NoPut == [v |-> 0, applied |-> FALSE]
NoIndex == [kind |-> "flat", part |-> Empty, dirty |-> {}]
NoLate == [at |-> 0, wrote |-> FALSE, raced |-> FALSE, stale |-> FALSE, index |-> NoIndex]

Parts(k) == IF k = "ivf" THEN Shards ELSE {0}
Ids(E) == {e[1] : e \in E}
Entries(p) == UNION {p[j] : j \in 0..NShards}
Without(E, ids) == {e \in E : e[1] \notin ids}
WithVec == {r \in rec : r[1] \in vecs}
Spend(e) == used[e] < Limit[e] /\ used' = [used EXCEPT ![e] = @ + 1]

\* A collection at rest, with either index.
Init ==
  /\ rec = {<<i, i>> : i \in 1..Stored} /\ vecs = (1..Stored) \ Legacy
  /\ bare \in SUBSET Legacy
  /\ kind \in {"flat", "ivf"} /\ catalog = kind
  /\ part = [j \in 0..NShards |->
               IF kind = "flat" THEN IF j = 0 THEN rec ELSE {}
               ELSE {r \in rec : j = 1 + (r[1] % NShards)}]
  /\ flat = IF kind = "flat" THEN rec ELSE NoFile
  /\ dir = IF kind = "flat" THEN NoDir
           ELSE [centroids |-> TRUE, file |-> [j \in Shards |-> part[j]]]
  /\ put = NoPut /\ job = "none" /\ outcome = "none"
  /\ up = TRUE /\ dirty = {} /\ cache = [j \in Shards |-> NoCache]
  /\ holder = "none" /\ pc = "idle" /\ new = NoBuild
  /\ del = NoDel /\ sync = NoSync /\ late = NoLate /\ probe = NoProbe
  /\ hollow = FALSE /\ mixed = FALSE /\ orphans = {}
  /\ used = [e \in Events |-> 0]

-----------------------------------------------------------------------------
\* IdMapIndex.remove, and _IvfIndex.remove: the first shard that has the id.
Home(p, id) == {j \in DOMAIN p : /\ id \in Ids(p[j])
                                 /\ \A i \in DOMAIN p : id \in Ids(p[i]) => j <= i}
Removed(p, id) == [j \in DOMAIN p |-> IF j \in Home(p, id) THEN Without(p[j], {id}) ELSE p[j]]

\* _shard_written, once the shards J have changed.
Race(reader, J) == [reader EXCEPT !.raced = @ \/ reader.at \in J]
Written(J) ==
  /\ cache' = [j \in Shards |-> IF j \in J THEN NoCache ELSE cache[j]]
  /\ dirty' = dirty \cup (J \cap Shards)
  /\ probe' = Race(probe, J) /\ late' = Race(late, J \cap Shards)

\* self.index becomes an index whose parts p are all on disk.
Becomes(k, p) ==
  /\ kind' = k /\ part' = p /\ dirty' = {}
  /\ cache' = [j \in Shards |-> NoCache] /\ probe' = NoProbe

-----------------------------------------------------------------------------
\* The collection's memory is gone, and its threads with it.
Lost ==
  /\ up' = FALSE /\ kind' = "flat" /\ part' = Empty /\ dirty' = {}
  /\ cache' = [j \in Shards |-> NoCache]
  /\ holder' = "none" /\ pc' = "idle" /\ new' = NoBuild
  /\ del' = NoDel /\ sync' = NoSync /\ probe' = NoProbe

\* An abandoned sync keeps the index it began with, whose dirty shards are D, when
\* self.index or the collection becomes another.
Leave(D) ==
  late' = IF late.at = 0 \/ late.stale THEN late
          ELSE [late EXCEPT !.stale = TRUE, !.index = [kind |-> kind, part |-> part, dirty |-> D]]

\* _sync_index, for the holder of the write lock. The flat file is replaced at once.
SyncBegins == sync' = [NoSync EXCEPT !.at = 1]
SyncNext == sync' = [NoSync EXCEPT !.at = sync.at + 1]

SyncFlat ==
  /\ kind = "flat" /\ sync.at = 1
  /\ flat' = part[0]
  /\ sync' = [NoSync EXCEPT !.at = NShards + 1]
  /\ UNCHANGED <<rec, bare, vecs, dir, catalog, queue, up, index, holder, pc, new, del, late,
                 probe, history, used>>

\* An IVF sync goes from shard to shard and writes the dirty ones and those without
\* a file. It clears a shard's flag if no write raced it.
SyncWrites(j) == j \in dirty \/ dir.file[j] = NoFile
SyncShard ==
  /\ kind = "ivf" /\ sync.at \in Shards /\ ~sync.wrote
  /\ LET j == sync.at IN
     IF SyncWrites(j)
     THEN /\ dir' = [centroids |-> TRUE, file |-> [dir.file EXCEPT ![j] = part[j]]]
          /\ sync' = [sync EXCEPT !.wrote = TRUE]
     ELSE /\ dir' = [dir EXCEPT !.centroids = TRUE]
          /\ SyncNext
  /\ UNCHANGED <<rec, bare, vecs, flat, catalog, queue, up, index, holder, pc, new, del, late,
                 probe, history, used>>

ClearsAlways == {sync.at}  \* fault: a write that raced the shard's sync is ignored
Clears == IF sync.raced THEN {} ELSE {sync.at}
SyncClears ==
  /\ sync.wrote
  /\ dirty' = dirty \ Clears
  /\ SyncNext
  /\ UNCHANGED <<disk, queue, up, kind, part, cache, holder, pc, new, del, late, probe,
                 history, used>>

\* The flush finishes the batch, the delete answers, stop() does the former and
\* closes the collection: not while a thread has db_lock.
SyncEnds ==
  /\ sync.at > NShards
  /\ put' = IF holder \in {"flush", "stop"} /\ put.applied THEN NoPut ELSE put
  /\ IF holder = "stop"
     THEN del.stage \notin {"unindex", "written"} /\ Lost /\ Leave(dirty)
     ELSE /\ sync' = NoSync /\ holder' = "none"
          /\ del' = IF holder = "delete" THEN NoDel ELSE del
          /\ UNCHANGED <<up, index, pc, new, late, probe>>
  /\ UNCHANGED <<disk, job, outcome, history, used>>

\* A sync raises: a flush is tried again, a delete answers 500, stop() goes on, and
\* its batch replays.
SyncFails ==
  /\ sync.at \in Shards /\ ~sync.wrote
  /\ Spend("fault")
  /\ IF holder = "stop"
     THEN del.stage \notin {"unindex", "written"} /\ Lost /\ Leave(dirty) /\ put' = [put EXCEPT !.applied = FALSE]
     ELSE /\ sync' = NoSync /\ holder' = "none"
          /\ del' = IF holder = "delete" THEN NoDel ELSE del
          /\ UNCHANGED <<put, up, index, pc, new, late, probe>>
  /\ orphans' = IF holder = "delete" THEN orphans \cup {del.row[1]} ELSE orphans
  /\ UNCHANGED <<disk, job, outcome, hollow, mixed>>

-----------------------------------------------------------------------------
\* An ingest job inserts one row under MAX(id)+1 and replaces the row that an earlier
\* run of it left; then the index follows.
NextId == 1 + Max({0} \cup Ids(rec))
Upsert(v) ==
  LET old  == {r \in rec : r[2] = v}
      row  == <<NextId, v>>
      kept == IF old = {} THEN part ELSE Removed(part, CHOOSE id \in Ids(old) : TRUE)
  IN /\ rec' = (rec \ old) \cup {row}
     /\ vecs' = (vecs \ Ids(old)) \cup {NextId}
     /\ \E j \in Parts(kind) :
          /\ part' = [kept EXCEPT ![j] = @ \cup {row}]
          /\ Written({j} \cup {i \in DOMAIN part : kept[i] # part[i]})

\* The worker runs the open ingest job, or a new one.
Put ==
  /\ up /\ pc = "idle" /\ holder = "none" /\ del.stage \notin {"unindex", "written"}
  /\ \/ put.v # 0 /\ ~put.applied /\ UNCHANGED used
     \/ put.v = 0 /\ job = "none" /\ Spend("put")
  /\ put' = [v |-> IF put.v # 0 THEN put.v ELSE Stored + used'["put"], applied |-> TRUE]
  /\ Upsert(put'.v)
  /\ UNCHANGED <<bare, flat, dir, catalog, job, outcome, up, kind, holder, pc, new, del, sync, history>>

\* The worker closes its batch: before an index job, too.
Flush ==
  /\ up /\ pc = "idle" /\ holder = "none" /\ put.applied
  /\ holder' = "flush" /\ SyncBegins
  /\ UNCHANGED <<disk, queue, up, index, pc, new, del, late, probe, history, used>>

-----------------------------------------------------------------------------
\* delete_document: the rows that the document has by then, in one transaction; then,
\* still under db_lock, the index, where a shard is marked once it has changed; then a
\* sync, if the caller still waits.
DeleteBegins ==
  /\ up /\ holder = "none" /\ del.stage = "none"
  /\ Spend("delete")
  /\ \E r \in rec : del' = [NoDel EXCEPT !.stage = "commit", !.row = r]
  /\ holder' = "delete"
  /\ UNCHANGED <<disk, queue, up, index, pc, new, syncs, probe, history>>

DeleteCommits ==
  /\ del.stage = "commit"
  /\ \E r \in rec :
       /\ r[2] = del.row[2]
       /\ rec' = rec \ {r} /\ vecs' = vecs \ {r[1]}
       /\ del' = [del EXCEPT !.stage = "unindex", !.row = r]
       /\ orphans' = IF del.orphan THEN orphans \cup {r[1]} ELSE orphans
  /\ UNCHANGED <<bare, flat, dir, catalog, queue, up, index, holder, pc, new, syncs, probe, hollow,
                 mixed, used>>

ThreadEnds == IF del.orphan THEN del' = NoDel /\ sync' = Race(sync, {del.at})
              ELSE del' = [del EXCEPT !.stage = "sync"] /\ SyncBegins

DeleteUnindexes ==
  /\ del.stage = "unindex"
  /\ LET J == Home(part, del.row[1]) IN
     /\ part' = Removed(part, del.row[1])
     /\ IF J \cap Shards = {} THEN ThreadEnds
        ELSE /\ del' = [del EXCEPT !.stage = "written", !.at = CHOOSE j \in J : TRUE]
             /\ UNCHANGED sync
  /\ UNCHANGED <<disk, queue, up, kind, dirty, cache, holder, pc, new, late, probe, history, used>>

DeleteWritten ==
  /\ del.stage = "written"
  /\ Written({del.at})
  /\ ThreadEnds
  /\ UNCHANGED <<disk, queue, up, kind, part, holder, pc, new, history, used>>

\* The caller goes: its section ends and its thread goes on.
DeleteAbandoned ==
  /\ del.stage \in {"commit", "unindex", "written"} /\ ~del.orphan
  /\ del.row[2] \in Abandonable
  /\ del' = [del EXCEPT !.orphan = TRUE]
  /\ orphans' = orphans \cup {del.row[1]}
  /\ holder' = "none"
  /\ UNCHANGED <<disk, queue, up, index, pc, new, syncs, probe, hollow, mixed, used>>

\* The caller goes during the sync: the section ends, and the sync runs on in its thread
\* with the index it has, under whatever comes next.
DeleteSyncAbandoned ==
  /\ del.stage = "sync" /\ del.row[2] \in Abandonable
  /\ sync.at \in Shards /\ late.at = 0
  /\ late' = [NoLate EXCEPT !.at = sync.at, !.wrote = sync.wrote, !.raced = sync.raced]
  /\ sync' = NoSync /\ del' = NoDel /\ holder' = "none"
  /\ orphans' = orphans \cup {del.row[1]}
  /\ UNCHANGED <<disk, queue, up, index, pc, new, probe, hollow, mixed, used>>

Held == IF late.stale THEN late.index ELSE [kind |-> kind, part |-> part, dirty |-> dirty]

\* A rebuild has renamed its shards, and self.index is still the one before.
Renamed == pc \in {"catalog", "assign"} /\ job # "detach"
Outdated == late.stale \/ (kind = "ivf" /\ Renamed)
Mixes(changes) == mixed' = (mixed \/ (Outdated /\ changes))

LateNext == late' = IF late.at = NShards THEN NoLate
                    ELSE [late EXCEPT !.at = @ + 1, !.wrote = FALSE, !.raced = FALSE]

LateFlat ==
  /\ late.at = 1 /\ Held.kind = "flat"
  /\ flat' = Held.part[0] /\ late' = NoLate /\ Mixes(flat' # flat)
  /\ UNCHANGED <<rec, bare, vecs, dir, catalog, queue, up, index, holder, pc, new, del, sync,
                 probe, hollow, orphans, used>>

\* Only before its first shard does the sync make ivf/ and centroids.npy.
LateShard ==
  /\ late.at \in Shards /\ ~late.wrote /\ Held.kind = "ivf"
  /\ late.at = 1 \/ dir # NoDir
  /\ LET j == late.at
         centroids == dir.centroids \/ j = 1
     IN IF j \in Held.dirty \/ dir.file[j] = NoFile
        THEN /\ dir' = [centroids |-> centroids, file |-> [dir.file EXCEPT ![j] = Held.part[j]]]
             /\ late' = [late EXCEPT !.wrote = TRUE]
        ELSE dir' = [dir EXCEPT !.centroids = centroids] /\ LateNext
  /\ Mixes(dir' # dir)
  /\ UNCHANGED <<rec, bare, vecs, flat, catalog, queue, up, index, holder, pc, new, del, sync,
                 probe, hollow, orphans, used>>

LateClears ==
  /\ late.wrote
  /\ dirty' = IF late.stale \/ late.raced THEN dirty ELSE dirty \ {late.at}
  /\ LateNext
  /\ UNCHANGED <<disk, queue, up, kind, part, cache, holder, pc, new, del, sync, probe, history,
                 used>>

\* It raises, to nobody; without ivf/ it cannot but.
LateRaises ==
  /\ late.at # 0 /\ ~late.wrote
  /\ (Held.kind = "ivf" /\ dir = NoDir /\ UNCHANGED used) \/ Spend("fault")
  /\ late' = NoLate
  /\ UNCHANGED <<disk, queue, up, index, holder, pc, new, del, sync, probe, history>>

-----------------------------------------------------------------------------
\* A search fills the id cache of a shard: a thread that may have lost its section.
ProbeBegins ==
  /\ up /\ kind = "ivf" /\ probe.stage = "none"
  /\ Spend("probe")
  /\ \E j \in Shards : /\ cache[j] = NoCache
                       /\ probe' = [NoProbe EXCEPT !.stage = "gen", !.at = j]
  /\ UNCHANGED <<disk, queue, up, index, holder, pc, new, del, syncs, history>>

ProbeReads ==
  /\ probe.stage = "gen"
  /\ probe' = [probe EXCEPT !.stage = "read", !.ids = Ids(part[probe.at])]
  /\ UNCHANGED <<disk, queue, up, index, holder, pc, new, del, syncs, history, used>>

ProbeStoresAnyway ==  \* fault: the generation is not compared
  /\ probe.stage = "read"
  /\ cache' = [cache EXCEPT ![probe.at] = probe.ids]
  /\ probe' = NoProbe
  /\ UNCHANGED <<disk, queue, up, kind, part, dirty, holder, pc, new, del, syncs, history,
                 used>>

ProbeStores ==
  /\ probe.stage = "read"
  /\ cache' = IF probe.raced THEN cache ELSE [cache EXCEPT ![probe.at] = probe.ids]
  /\ probe' = NoProbe
  /\ UNCHANGED <<disk, queue, up, kind, part, dirty, holder, pc, new, del, syncs, history,
                 used>>

-----------------------------------------------------------------------------
\* request_index and request_index_drop.
Ask(op) ==
  /\ up /\ job = "none" /\ holder # "stop"
  /\ Spend("ask")
  /\ CASE op = "detach" -> kind = "ivf"
       [] op = "retune" /\ kind = "ivf" -> TRUE
       [] OTHER -> Cardinality(rec) >= MinRows
  /\ job' = op
  /\ UNCHANGED <<disk, put, outcome, up, index, holder, pc, new, del, syncs, probe, history>>

\* The worker, outside the lock, at a step of an index job.
At(step) == up /\ pc = step
Goes(step) == pc' = step
\* The job ends in 'error', whatever it has done so far.
Fails == /\ job' = "none" /\ outcome' = "error" /\ pc' = "idle" /\ new' = NoBuild

\* The worker claims the index job when no ingest job is open. A retune of an IVF
\* index and a detach of a flat one (a replay past the swap) only tidy up; else the
\* job checks the rows and the memory first.
JobStart ==
  /\ At("idle") /\ job # "none" /\ put.v = 0 /\ holder = "none"
  /\ \/ /\ job = "retune" /\ kind = "ivf"
        /\ catalog' = "ivf" /\ Goes("finish")
        /\ UNCHANGED <<dir, job, outcome, new, used>>
     \/ /\ job = "detach" /\ kind = "flat"
        /\ catalog' = "flat" /\ dir' = NoDir /\ Goes("finish")
        /\ UNCHANGED <<job, outcome, new, used>>
     \/ /\ (job = "detach") = (kind = "ivf") \/ job = "attach"
        /\ \/ /\ job = "detach" \/ Cardinality(rec) >= MinRows
              /\ Goes(IF job = "detach" THEN "stream" ELSE "sample")
              /\ UNCHANGED <<job, outcome, new, used>>
           \/ job # "detach" /\ Cardinality(rec) < MinRows /\ Fails /\ UNCHANGED used
           \/ Spend("fault") /\ Fails
        /\ UNCHANGED <<dir, catalog>>
  /\ UNCHANGED <<rec, bare, vecs, flat, put, up, index, holder, del, syncs, probe, history>>

\* _vec_sample. A short sample backfills every row without a vector first.
ShortSample == Cardinality(WithVec) < Min({Cardinality(rec), TrainSample})
Sample ==
  /\ At("sample")
  /\ Goes(IF ShortSample THEN "backfill" ELSE "stream")
  /\ new' = [new EXCEPT !.todo = IF ShortSample THEN rec \ WithVec ELSE {}]
  /\ UNCHANGED <<disk, queue, up, index, holder, del, syncs, probe, history, used>>

\* _backfill_vecs: the rows are read, embedded, and written if they are still there;
\* those the stream skipped also join the new index. Which shard a vector goes to, the
\* k-means of train and _assign, is left open.
Shard(E) == {f \in [E -> Parts(IF job = "detach" THEN "flat" ELSE "ivf")] : TRUE}
Adds(E) == \E f \in Shard(E) :
  new' = [new EXCEPT !.part = [j \in DOMAIN @ |-> @[j] \cup {e \in E : f[e] = j}],
                     !.seen = @ \cup Ids(E), !.todo = {},
                     !.last = Max({@} \cup Ids(E))]
Backfill ==
  /\ At("backfill")
  /\ \/ /\ {r \in new.todo : r[2] \in bare} = {}
        /\ vecs' = vecs \cup Ids(new.todo \cap rec)
        /\ IF new.late THEN Adds(new.todo) ELSE new' = [new EXCEPT !.todo = {}]
        /\ Goes(IF new.late THEN "swap" ELSE "stream")
        /\ UNCHANGED <<job, outcome, used>>
     \/ {r \in new.todo : r[2] \in bare} # {} /\ Fails /\ UNCHANGED <<vecs, used>>
     \/ new.todo # {} /\ Spend("fault") /\ Fails /\ UNCHANGED vecs
  /\ UNCHANGED <<rec, bare, flat, dir, catalog, put, up, index, holder, del, syncs, probe, history>>

\* _iter_vec_blocks, a block of one row at a time, by id; after the last one, the rows
\* it has skipped.
Missing == {r \in rec : r[1] \notin new.seen}
Stream ==
  /\ At("stream")
  /\ LET rest == {r \in WithVec : r[1] > new.last} IN
     \/ /\ rest # {}
        /\ Adds({CHOOSE r \in rest : \A q \in rest : r[1] <= q[1]})
        /\ UNCHANGED <<job, outcome, pc>>
     \/ rest = {} /\ Missing = {} /\ Goes("swap") /\ UNCHANGED <<job, outcome, new>>
     \/ /\ rest = {} /\ Missing # {} /\ job # "detach"
        /\ Goes("backfill")
        /\ new' = [new EXCEPT !.todo = Missing, !.late = TRUE]
        /\ UNCHANGED <<job, outcome>>
     \/ rest = {} /\ Missing # {} /\ job = "detach" /\ Fails
  /\ UNCHANGED <<disk, put, up, index, holder, del, syncs, probe, history, used>>

-----------------------------------------------------------------------------
\* The swap, in the write section. What was deleted during the build leaves the new
\* index, which is then written beside the live one, to files that are never loaded.
GoneUnseen == {}  \* fault: deletes that landed during the build are not looked for
Gone == new.seen \ Ids(rec)
SwapBegins ==
  /\ At("swap") /\ holder = "none"
  /\ holder' = "swap"
  /\ Goes(IF job = "detach" THEN "replace" ELSE IF dir = NoDir THEN "rename" ELSE "remove")
  /\ new' = [new EXCEPT !.part = [j \in DOMAIN @ |-> Without(@[j], Gone)]]
  /\ UNCHANGED <<disk, queue, up, index, del, syncs, probe, history, used>>

\* rmtree of ivf/, file by file.
SwapRemove ==
  /\ At("remove")
  /\ \E c \in BOOLEAN, J \in SUBSET Shards :
       dir' = [centroids |-> c /\ dir.centroids,
               file |-> [j \in Shards |-> IF j \in J THEN dir.file[j] ELSE NoFile]]
  /\ Goes("rename")
  /\ UNCHANGED <<rec, bare, vecs, flat, catalog, queue, up, index, holder, new, del, syncs, probe,
                 history, used>>

\* The commit point on disk, and then the catalog's.
SwapRename ==
  /\ At("rename")
  /\ dir' = [centroids |-> TRUE, file |-> [j \in Shards |-> new.part[j]]]
  /\ Goes("catalog")
  /\ UNCHANGED <<rec, bare, vecs, flat, catalog, queue, up, index, holder, new, del, syncs, probe,
                 history, used>>

SwapKeepsTmp ==  \* fault: the new file stays under its temporary name
  /\ At("replace")
  /\ Goes("catalog")
  /\ UNCHANGED <<disk, queue, up, index, holder, new, del, syncs, probe, history, used>>

SwapReplace ==
  /\ At("replace")
  /\ flat' = new.part[0]
  /\ Goes("catalog")
  /\ UNCHANGED <<rec, bare, vecs, dir, catalog, queue, up, index, holder, new, del, syncs, probe,
                 history, used>>

SwapCatalog ==
  /\ At("catalog")
  /\ catalog' = IF job = "detach" THEN "flat" ELSE "ivf"
  /\ Goes("assign")
  /\ UNCHANGED <<rec, bare, vecs, flat, dir, queue, up, index, holder, new, del, syncs, probe, history,
                 used>>

\* self.index is the new index. An attach drops the flat file, a detach the shards.
SwapAssign ==
  /\ At("assign")
  /\ Becomes(catalog, new.part)
  /\ del' = [del EXCEPT !.at = 0]
  /\ Leave(dirty \cup ({del.at} \cap Shards))
  /\ IF job = "detach" THEN dir' = NoDir /\ UNCHANGED flat ELSE flat' = NoFile /\ UNCHANGED dir
  /\ outcome' = "done" /\ hollow' = FALSE
  /\ holder' = "none" /\ new' = NoBuild /\ Goes("finish")
  /\ UNCHANGED <<rec, bare, vecs, catalog, put, job, up, sync, mixed, orphans, used>>

SwapFails ==
  /\ up /\ pc \in FailingSteps
  /\ Spend("fault")
  /\ Fails /\ holder' = "none"
  /\ UNCHANGED <<disk, put, up, index, del, syncs, probe, history>>

JobFinish ==
  /\ At("finish")
  /\ job' = "none" /\ Goes("idle")
  /\ UNCHANGED <<disk, put, outcome, up, index, holder, new, del, syncs, probe, history, used>>

-----------------------------------------------------------------------------
\* stop() gets the write lock, cancels the worker and syncs.
Stop ==
  /\ up /\ holder = "none"
  /\ Spend("down")
  /\ holder' = "stop" /\ SyncBegins
  /\ pc' = "off" /\ new' = NoBuild
  /\ UNCHANGED <<disk, queue, up, index, del, late, probe, history>>

Crash ==
  /\ up /\ Spend("down")
  /\ Lost /\ late' = NoLate
  /\ put' = [put EXCEPT !.applied = FALSE]
  /\ UNCHANGED <<disk, job, outcome, history>>

\* Collection(): the catalog says which files are the index; the entries without a
\* row are evicted and, if there are any, the index is synced. The eviction reads
\* every shard's ids.
LoadedKind == IF catalog = "ivf" /\ dir.centroids THEN "ivf" ELSE "flat"
Contents(f) == IF f = NoFile THEN {} ELSE f
Loaded == [j \in 0..NShards |->
             IF LoadedKind = "ivf" THEN IF j = 0 THEN {} ELSE Contents(dir.file[j])
             ELSE IF j = 0 THEN Contents(flat) ELSE {}]
Ghosts == Ids(Entries(Loaded)) \ Ids(rec)
Open ==
  /\ ~up
  /\ up' = TRUE /\ kind' = LoadedKind
  /\ part' = [j \in DOMAIN Loaded |-> Without(Loaded[j], Ghosts)]
  /\ dirty' = {}
  /\ cache' = [j \in Shards |-> IF Loaded[j] = {} \/ part'[j] # Loaded[j] THEN NoCache
                                ELSE Ids(Loaded[j])]
  /\ IF Ghosts = {} THEN UNCHANGED <<flat, dir>>
     ELSE IF LoadedKind = "flat" THEN flat' = part'[0] /\ UNCHANGED dir
     ELSE /\ UNCHANGED flat
          /\ dir' = [dir EXCEPT !.file = [j \in Shards |-> part'[j]]]
  /\ hollow' = (mixed \/ ~({r \in rec : r[2] # put.v} \subseteq Entries(Loaded)))
  /\ UNCHANGED <<rec, bare, vecs, catalog, queue, holder, pc, new, del, syncs, probe, mixed, orphans,
                 used>>

Next ==
  \/ SyncFlat \/ SyncShard \/ SyncClears \/ SyncEnds \/ SyncFails
  \/ Put \/ Flush
  \/ DeleteBegins \/ DeleteCommits \/ DeleteUnindexes \/ DeleteWritten
  \/ DeleteAbandoned \/ DeleteSyncAbandoned
  \/ LateFlat \/ LateShard \/ LateClears \/ LateRaises
  \/ ProbeBegins \/ ProbeReads \/ ProbeStores
  \/ \E op \in Asks : Ask(op)
  \/ JobStart \/ Sample \/ Backfill \/ Stream
  \/ SwapBegins \/ SwapRemove \/ SwapRename \/ SwapReplace \/ SwapCatalog
  \/ SwapAssign \/ SwapFails \/ JobFinish
  \/ Stop \/ Crash \/ Open

Spec == Init /\ [][Next]_vars

-----------------------------------------------------------------------------
TypeOK ==
  /\ \A r \in rec : r[1] \in Nat \ {0} /\ r[2] \in 1..(Stored + Limit["put"])
  /\ vecs \subseteq Nat /\ catalog \in {"flat", "ivf"} /\ kind \in {"flat", "ivf"}
  /\ job \in {"none"} \cup Asks /\ up \in BOOLEAN /\ dirty \subseteq Shards
  /\ DOMAIN part = 0..NShards /\ DOMAIN cache = Shards /\ DOMAIN dir.file = Shards
  /\ holder \in {"none", "flush", "delete", "swap", "stop"}
  /\ pc \in {"idle", "off", "sample", "backfill", "stream", "swap", "finish"} \cup SwapSteps

\* Outside the write sections, whatever is being built, a search finds each row once
\* and under its own vector, and nothing else but rows whose delete was abandoned: a
\* swap neither loses what was ingested nor brings back what was deleted meanwhile.
\* Excepted are the row of an ingest job that has to replay, and a collection that
\* found no index file (NothingLost) or one that an abandoned sync had spoilt.
IndexIsTheRows ==
  (up /\ holder = "none" /\ ~hollow) =>
    /\ {r \in rec : r[2] # put.v \/ put.applied} \subseteq Entries(part)
    /\ \A i, j \in DOMAIN part : i # j => Ids(part[i]) \cap Ids(part[j]) \subseteq orphans
    /\ put.v = 0 \/ put.applied =>
         \A e \in Entries(part) : e \in rec \/ e[1] \in orphans \ Ids(rec)

\* A crash at any point leaves the rows in an index that the next open loads, or the
\* index job that rebuilds it is still open, or it has ended in 'error' since, or a
\* delete's sync, abandoned by its caller, has written over files of another index.
NothingLost == hollow => job \in {"attach", "retune"} \/ outcome = "error" \/ mixed

\* A shard that is not dirty is on disk as it is in memory, until an abandoned sync
\* has written over files of another index.
CleanShardsAreOnDisk ==
  \A j \in Shards \ dirty :
    up /\ kind = "ivf" /\ holder # "swap" /\ dir.file[j] # NoFile /\ ~mixed
       /\ ~(del.stage = "written" /\ del.at = j)
    => dir.file[j] = part[j]

\* The ids cached for a shard are the shard's, except inside a write to it.
ShardCacheIsCurrent ==
  \A j \in Shards : cache[j] = NoCache \/ (del.stage = "written" /\ del.at = j)
                                       \/ cache[j] = Ids(part[j])

=============================================================================
