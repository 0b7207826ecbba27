------------------------------ MODULE Searches ------------------------------
(***************************************************************************)
(* Searches of one collection against its writes (store.py, Collection):   *)
(* the generation-guarded cache of allowlists, the scans that concurrent   *)
(* searches share, and the threads and queue items that a cancelled caller *)
(* leaves behind without the lock. The lock is the module RWLock.          *)
(*                                                                         *)
(* Data are abstracted to the writes they reflect: an allowlist is the     *)
(* number of writes that were committed when it was selected, the index a  *)
(* set of writes, an answer the writes it has seen.                        *)
(***************************************************************************)
EXTENDS Integers, FiniteSets, Sequences

CONSTANTS
  Clients,      \* tasks that search
  Writers,      \* tasks that write
  Scopes,       \* cache keys of searches with a scope and no filter
  Filters,      \* cache keys of searches with a filter
  Kinds,        \* what writers do: "upsert", "delete", "patch"
  MaxCached,    \* the size of _allow_cache (8)
  ScopedBatch,  \* queries in one scoped scan (SCOPED_SCAN_BATCH_ROWS)
  MaxWrites,    \* bound: writes
  MaxUpsets     \* bound: cancellations and exceptions

Upsets == {"cancel", "abandon", "fail", "raise"}
Wants  == {"full"} \cup Scopes \cup Filters
Writes == 1..MaxWrites
\* The shared scans: the full one, and one for each allowlist of a scope (the code
\* has one for each array, also if two arrays are equal).
Full == <<"full", 0>>
Drains == {Full} \cup (Scopes \X (0..MaxWrites))

ASSUME SearchesAssumption ==
  /\ IsFiniteSet(Clients) /\ IsFiniteSet(Writers) /\ Clients \cap Writers = {}
  /\ Scopes \cap Filters = {} /\ "full" \notin Scopes \cup Filters
  /\ Kinds \subseteq {"upsert", "delete", "patch"}
  /\ MaxCached \in Nat \ {0} /\ ScopedBatch \in Nat \ {0}
  /\ MaxWrites \in Nat /\ MaxUpsets \in Nat

VARIABLES
  readers, writing, queued, woken,  \* the lock's
  at,        \* the lock's pc: out, waiting or in
  db,        \* how many writes are committed
  index,     \* the writes the vector index reflects
  gen,       \* _allow_gen
  cache,     \* _allow_cache, first in first out
  search,    \* each client's search, which its thread or future may outlive
  drain,     \* _scan_queue and _scan_task, and _scoped_scans
  write,     \* each writer's
  done,      \* writes whose caller was told so
  begun,     \* how many writes have begun, for the bound
  upsets     \* the upsets so far

lockVars == <<readers, writing, queued, woken, at>>
bounds == <<begun, upsets>>
data == <<db, index, gen, cache>>
vars == <<lockVars, data, search, drain, write, done, bounds>>

Lock == INSTANCE RWLock WITH Readers <- Clients, pc <- at

\* allow and g are run()'s locals, seen is its result.
NoSearch == [want |-> "full", pc |-> "none", since |-> {}, g |-> 0, allow |-> 0,
             seen |-> {}]
NoDrain  == [pc |-> "none", queue |-> <<>>, batch |-> {}, seen |-> {}]
NoWrite  == [kind |-> "patch", todo |-> <<>>, made |-> 0]

Init ==
  /\ Lock!Init
  /\ db = 0 /\ index = {} /\ gen = 0 /\ cache = <<>>
  /\ search = [c \in Clients |-> NoSearch]
  /\ drain = [d \in Drains |-> NoDrain]
  /\ write = [w \in Writers |-> NoWrite]
  /\ done = {}
  /\ begun = 0 /\ upsets = <<>>

Spend(e) == Len(upsets) < MaxUpsets /\ upsets' = Append(upsets, e) /\ UNCHANGED begun
Entries == {cache[i] : i \in DOMAIN cache}
Elems(q) == {q[i] : i \in DOMAIN q}

\* A search whose caller was cancelled has no lock, and nobody takes its answer.
Orphan(c) == at[c] = "out"
SearchGoes(c, pc) == search' = [search EXCEPT ![c].pc = pc]

-----------------------------------------------------------------------------
\* The search appends its future to the queue of a scan, and starts that scan's
\* task if none is running.
Joins(c, k, d) ==
  /\ drain' = [drain EXCEPT ![d].queue = Append(@, c),
                            ![d].pc = IF @ = "none" THEN "ready" ELSE @]
  /\ search' = [search EXCEPT ![c] = [NoSearch EXCEPT !.want = k, !.pc = "drain",
                                                      !.since = done]]

\* _vector_ids, in the read section and up to its await: without a filter the
\* full scan; a scope whose allowlist is cached, and not small, a scan shared
\* by that list; else a thread.
VectorIds(c, k) ==
  \/ k = "full" /\ Joins(c, k, Full)
  \/ \E e \in Entries : e.key = k /\ k \in Scopes /\ Joins(c, k, <<k, e.made>>)
  \/ /\ k # "full"
     /\ search' = [search EXCEPT ![c] = [NoSearch EXCEPT !.want = k, !.pc = "get",
                                                         !.since = done]]
     /\ UNCHANGED drain

SearchStart(c, k) ==
  /\ search[c].pc = "none"
  /\ \/ Lock!ReadEnter(c) /\ VectorIds(c, k)
     \/ /\ Lock!ReadWait(c)
        /\ search' = [search EXCEPT ![c].want = k]
        /\ UNCHANGED drain
  /\ UNCHANGED <<data, write, done, bounds>>

SearchResume(c) ==
  /\ Lock!ReadResume(c)
  /\ IF at'[c] = "in" THEN VectorIds(c, search[c].want) ELSE UNCHANGED <<search, drain>>
  /\ UNCHANGED <<data, write, done, bounds>>

\* The answer, or an exception, is there: the section ends.
SearchEnds(c) ==
  /\ at[c] = "in" /\ search[c].pc \in {"answered", "failed"}
  /\ Lock!ReadExit(c)
  /\ search' = [search EXCEPT ![c] = NoSearch]
  /\ UNCHANGED <<data, drain, write, done, bounds>>

\* The request is cancelled: the section ends, the future stays, and so does the
\* thread, unless the pool has not begun it yet.
SearchCancel(c) ==
  /\ Spend("cancel")
  /\ \/ Lock!ReadCancel(c) /\ search' = [search EXCEPT ![c] = NoSearch]
     \/ /\ search[c].pc \notin {"none", "answered", "failed"}
        /\ Lock!ReadExit(c)
        /\ \/ UNCHANGED search
           \/ search[c].pc = "get" /\ search' = [search EXCEPT ![c] = NoSearch]
  /\ UNCHANGED <<data, drain, write, done>>

-----------------------------------------------------------------------------
\* run(), on a thread: the cache is read, on a miss the generation, then the ids.
CacheHit(c) ==
  /\ search[c].pc = "get"
  /\ \E e \in Entries :
       /\ e.key = search[c].want
       /\ search' = [search EXCEPT ![c].allow = e.made, ![c].pc = "scan"]
  /\ UNCHANGED <<lockVars, data, drain, write, done, bounds>>

CacheMiss(c) ==
  /\ search[c].pc = "get"
  /\ \A e \in Entries : e.key # search[c].want
  /\ SearchGoes(c, "gen")
  /\ UNCHANGED <<lockVars, data, drain, write, done, bounds>>

ReadGen(c) ==
  /\ search[c].pc = "gen"
  /\ search' = [search EXCEPT ![c].g = gen, ![c].pc = "select"]
  /\ UNCHANGED <<lockVars, data, drain, write, done, bounds>>

SelectIds(c) ==
  /\ search[c].pc = "select"
  /\ search' = [search EXCEPT ![c].allow = db, ![c].pc = "store"]
  /\ UNCHANGED <<lockVars, data, drain, write, done, bounds>>

\* A dict keeps the place of a key it has; a full one loses its first.
Put(k, made) ==
  LET kept == IF Len(cache) >= MaxCached THEN Tail(cache) ELSE cache
      same == {i \in DOMAIN kept : kept[i].key = k}
      new  == [key |-> k, made |-> made]
  IN  cache' = IF same = {} THEN Append(kept, new)
               ELSE [i \in DOMAIN kept |-> IF i \in same THEN new ELSE kept[i]]

StoreIdsUnguarded(c) == \* fault: the generation is not compared
  /\ search[c].pc = "store"
  /\ Put(search[c].want, search[c].allow)
  /\ SearchGoes(c, "scan")
  /\ UNCHANGED <<lockVars, db, index, gen, drain, write, done, bounds>>

\* Cached unless a write has come in since: then used once.
StoreIds(c) ==
  /\ search[c].pc = "store"
  /\ IF search[c].g = gen THEN Put(search[c].want, search[c].allow) ELSE UNCHANGED cache
  /\ SearchGoes(c, "scan")
  /\ UNCHANGED <<lockVars, db, index, gen, drain, write, done, bounds>>

\* _search_allowed, over the index (an allowlist that is small asks the database
\* instead, which is never behind).
ScanAllowed(c) ==
  /\ search[c].pc = "scan"
  /\ search' = [search EXCEPT ![c] = IF Orphan(c) THEN NoSearch ELSE
       [@ EXCEPT !.pc = "answered", !.seen = (1..search[c].allow) \cap index]]
  /\ UNCHANGED <<lockVars, data, drain, write, done, bounds>>

ThreadFails(c) ==
  /\ search[c].pc \in {"select", "scan"}
  /\ Spend("fail")
  /\ search' = [search EXCEPT ![c] = IF Orphan(c) THEN NoSearch
                                     ELSE [@ EXCEPT !.pc = "failed"]]
  /\ UNCHANGED <<lockVars, data, drain, write, done>>

-----------------------------------------------------------------------------
\* What a scan takes next from its queue. The full scan takes all of it; a scoped
\* one a group at a time, less the cancelled, passing over groups with nobody left.
Group(q, i) == {q[j] : j \in {j \in (i + 1)..(i + ScopedBatch) : j <= Len(q)}}
Waits(c) == ~Orphan(c)
Taken(d, q) ==
  LET starts == {i \in 0..Len(q) : /\ i % ScopedBatch = 0
                                   /\ \E c \in Group(q, i) : Waits(c)}
      first == CHOOSE i \in starts : \A j \in starts : i <= j
  IN  IF d = Full THEN [batch |-> Elems(q), queue |-> <<>>]
      ELSE IF starts = {} THEN [batch |-> {}, queue |-> <<>>]
      ELSE [batch |-> {c \in Group(q, first) : Waits(c)},
            queue |-> SubSeq(q, first + ScopedBatch + 1, Len(q))]

\* The task goes on to the next scan, or ends; who is in neither is dropped.
DrainGoes(d, answered) ==
  LET t == Taken(d, drain[d].queue)
      left == Elems(drain[d].queue) \ (t.batch \cup Elems(t.queue))
  IN  /\ drain' = [drain EXCEPT ![d] = IF t.batch = {} THEN NoDrain
                     ELSE [pc |-> "scan", queue |-> t.queue, batch |-> t.batch,
                           seen |-> {}]]
      /\ search' = [c \in Clients |->
           IF c \in left THEN NoSearch
           ELSE IF c \notin drain[d].batch THEN search[c]
           ELSE IF Orphan(c) THEN NoSearch
           ELSE answered[c]]

DrainStarts(d) ==
  /\ drain[d].pc = "ready"
  /\ DrainGoes(d, search)
  /\ UNCHANGED <<lockVars, data, write, done, bounds>>

\* The scan, on a thread.
DrainScans(d) ==
  /\ drain[d].pc = "scan"
  /\ drain' = [drain EXCEPT ![d].pc = "read",
                            ![d].seen = IF d = Full THEN index
                                        ELSE (1..d[2]) \cap index]
  /\ UNCHANGED <<lockVars, data, search, write, done, bounds>>

DrainScanRaises(d) ==
  /\ drain[d].pc = "scan"
  /\ Spend("fail")
  /\ drain' = [drain EXCEPT ![d].pc = "raised"]
  /\ UNCHANGED <<lockVars, data, search, write, done>>

\* Every waiter that is left gets its result.
DrainAnswers(d) ==
  /\ drain[d].pc = "read"
  /\ DrainGoes(d, [c \in Clients |-> [search[c] EXCEPT !.pc = "answered",
                                                       !.seen = drain[d].seen]])
  /\ UNCHANGED <<lockVars, data, write, done, bounds>>

DrainFailsSilently(d) == \* fault: an exception ends the scan and is not passed on
  /\ drain[d].pc = "raised"
  /\ drain' = [drain EXCEPT ![d] = NoDrain]
  /\ UNCHANGED <<lockVars, data, search, write, done, bounds>>

\* Or the exception.
DrainFails(d) ==
  /\ drain[d].pc = "raised"
  /\ DrainGoes(d, [c \in Clients |-> [search[c] EXCEPT !.pc = "failed"]])
  /\ UNCHANGED <<lockVars, data, write, done, bounds>>

-----------------------------------------------------------------------------
\* What a write does on its threads, in the order of the code.
UpsertSteps == <<"commit", "invalidate", "index">>
DeleteSteps == <<"commit", "index", "invalidate">>
PatchSteps  == <<"commit", "invalidate">>
Steps(kind) == CASE kind = "upsert" -> UpsertSteps
                 [] kind = "delete" -> DeleteSteps
                 [] kind = "patch"  -> PatchSteps

Does(w, step) ==
  /\ at[w] # "waiting" /\ write[w].todo # <<>> /\ Head(write[w].todo) = step
  /\ write' = [write EXCEPT ![w].todo = Tail(@)]

\* A delete holds db_lock from its commit until its ids have left the index.
DbLocked == \E w \in Writers : /\ write[w].kind = "delete" /\ write[w].made # 0
                               /\ "index" \in Elems(write[w].todo)

WriteStart(w, kind) ==
  /\ write[w].todo = <<>>
  /\ begun < MaxWrites /\ begun' = begun + 1
  /\ Lock!WriteEnter(w) \/ Lock!WriteWait(w)
  /\ write' = [write EXCEPT ![w] = [kind |-> kind, todo |-> Steps(kind), made |-> 0]]
  /\ UNCHANGED <<data, search, drain, done, upsets>>

WriteResume(w) ==
  /\ Lock!WriteResume(w)
  /\ UNCHANGED <<data, search, drain, write, done, bounds>>

\* A patch of metadata does not concern the index.
Commit(w) ==
  /\ at[w] # "waiting" /\ write[w].todo # <<>> /\ Head(write[w].todo) = "commit"
  /\ ~DbLocked
  /\ db' = db + 1
  /\ index' = IF write[w].kind = "patch" THEN index \cup {db + 1} ELSE index
  /\ write' = [write EXCEPT ![w].todo = Tail(@), ![w].made = db + 1]
  /\ UNCHANGED <<lockVars, gen, cache, search, drain, done, bounds>>

ChangeIndex(w) ==
  /\ Does(w, "index")
  /\ index' = index \cup {write[w].made}
  /\ UNCHANGED <<lockVars, db, gen, cache, search, drain, done, bounds>>

\* The database raises and rolls back, or the index raises; what was to come
\* after it is skipped.
WriteRaises(w) ==
  /\ at[w] # "waiting" /\ write[w].todo # <<>>
  /\ \/ Head(write[w].todo) = "commit" /\ Spend("fail")
     \/ Head(write[w].todo) = "index"  /\ Spend("raise")
  /\ write' = [write EXCEPT ![w] = NoWrite]
  /\ UNCHANGED <<lockVars, data, search, drain, done>>

InvalidateGenOnly(w) == \* fault: the generation goes up and the cache stays
  /\ Does(w, "invalidate")
  /\ gen' = gen + 1
  /\ UNCHANGED <<lockVars, db, index, cache, search, drain, done, bounds>>

Invalidate(w) ==
  /\ Does(w, "invalidate")
  /\ gen' = gen + 1
  /\ cache' = <<>>
  /\ UNCHANGED <<lockVars, db, index, search, drain, done, bounds>>

WriteReturns(w) ==
  /\ write[w].todo = <<>>
  /\ Lock!WriteExit(w)
  /\ done' = done \cup ({write[w].made} \ {0})
  /\ write' = [write EXCEPT ![w] = NoWrite]
  /\ UNCHANGED <<data, search, drain, bounds>>

\* A delete or a patch is cancelled: the lock goes, its thread runs on unless the
\* pool has not begun it yet.
WriteCancel(w) ==
  /\ write[w].kind # "upsert"
  /\ \/ /\ Lock!WriteCancel(w) /\ Spend("cancel")
        /\ write' = [write EXCEPT ![w] = NoWrite]
     \/ /\ write[w].todo # <<>>
        /\ Lock!WriteExit(w) /\ Spend("abandon")
        /\ \/ UNCHANGED write
           \/ write[w].made = 0 /\ write' = [write EXCEPT ![w] = NoWrite]
  /\ UNCHANGED <<data, search, drain, done>>

-----------------------------------------------------------------------------
ThreadStep(c) == \/ CacheHit(c) \/ CacheMiss(c) \/ ReadGen(c) \/ SelectIds(c)
                 \/ StoreIds(c) \/ ScanAllowed(c)
DrainStep(d)  == \/ DrainStarts(d) \/ DrainScans(d) \/ DrainAnswers(d) \/ DrainFails(d)
WriteStep(w)  == Commit(w) \/ ChangeIndex(w) \/ Invalidate(w)

Next ==
  \/ \E c \in Clients : \/ \E k \in Wants : SearchStart(c, k)
                        \/ SearchResume(c) \/ SearchEnds(c) \/ SearchCancel(c)
                        \/ ThreadStep(c) \/ ThreadFails(c)
  \/ \E d \in Drains : DrainStep(d) \/ DrainScanRaises(d)
  \/ \E w \in Writers : \/ \E k \in Kinds : WriteStart(w, k)
                        \/ WriteResume(w) \/ WriteReturns(w) \/ WriteCancel(w)
                        \/ WriteStep(w) \/ WriteRaises(w)

Spec == Init /\ [][Next]_vars

-----------------------------------------------------------------------------
\* The type invariant of the module; the lock's variables have their own.
TypeOK ==
  /\ Lock!TypeOK
  /\ db \in 0..MaxWrites /\ index \subseteq Writes /\ gen \in 0..MaxWrites
  /\ cache \in Seq([key : Scopes \cup Filters, made : 0..MaxWrites])
  /\ Len(cache) <= MaxCached
  /\ search \in [Clients -> [want : Wants, since : SUBSET Writes, g : 0..MaxWrites,
       pc : {"none", "get", "gen", "select", "store", "scan", "drain", "answered",
             "failed"},
       allow : 0..MaxWrites, seen : SUBSET Writes]]
  /\ drain \in [Drains -> [pc : {"none", "ready", "scan", "read", "raised"},
       queue : Seq(Clients), batch : SUBSET Clients, seen : SUBSET Writes]]
  /\ write \in [Writers -> [kind : {"upsert", "delete", "patch"},
       todo : Seq({"commit", "index", "invalidate"}), made : 0..MaxWrites]]
  /\ done \subseteq Writes
  /\ begun \in 0..MaxWrites /\ upsets \in Seq(Upsets) /\ Len(upsets) <= MaxUpsets

\* Whoever finds a list in the cache gets one that misses no write, those apart
\* that are about to invalidate it (_invalidate_allow runs after the commit): a
\* thread a cancelled search has left behind caches nothing older. Not promised
\* once the index has raised in a delete, which then skips the invalidation.
Invalidates(v) ==
  \E w \in Writers : write[w].made = v /\ "invalidate" \in Elems(write[w].todo)
CacheIsCurrent ==
  "raise" \notin Elems(upsets) =>
    \A e \in Entries : \A v \in (e.made + 1)..db : Invalidates(v)

\* A search sees every write that had returned before it began, through whichever
\* cache, shared scan or thread its answer came.
SeesReturnedWrites ==
  \A c \in Clients : search[c].pc = "answered" => search[c].since \subseteq search[c].seen

\* While a search holds the lock, its allowlist and the index are of one state:
\* the index raises on ids it does not hold. Only the thread of a cancelled write
\* or one that raised can come between.
OneState ==
  Elems(upsets) \cap {"abandon", "raise"} = {} =>
    /\ \A c \in Clients : ~Orphan(c) /\ search[c].pc = "scan" =>
         search[c].allow = db /\ index = 1..db
    /\ \A d \in Drains \ {Full} :
         drain[d].pc = "scan" /\ (\E c \in drain[d].batch : ~Orphan(c)) =>
           d[2] = db /\ index = 1..db

\* No future is forgotten: a search that waits for a shared scan is in the queue
\* or the group of one, and only one, that is under way. It holds the read lock
\* and nothing else would ever let it go ("an unresolved future would leave its
\* caller holding a read lock forever"), also when a scan raises, when it joins as
\* another scan ends, or when its group is all cancelled.
ServedBy(d, c) == drain[d].pc # "none" /\ c \in Elems(drain[d].queue) \cup drain[d].batch
NoFutureForgotten ==
  \A c \in Clients : search[c].pc = "drain" =>
    \E d \in Drains : ServedBy(d, c) /\ \A e \in Drains : ServedBy(e, c) => e = d
=============================================================================
