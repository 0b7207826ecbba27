--------------------------- MODULE IndexSwapProofs ---------------------------
(***************************************************************************)
(* IndexSwap for any number of shards and any budget of events: the ids    *)
(* cached for a shard are the shard's; a shard that counts as clean is on  *)
(* disk as it is in memory; every row is in the index in memory; a crash   *)
(* at any point leaves the rows on disk or a job that brings them back,    *)
(* until an abandoned sync writes over another index; and, as long as      *)
(* deletes return, the index has each row once and nothing else.           *)
(***************************************************************************)
EXTENDS IndexSwap, FiniteSetTheorems, TLAPS

\* The shape of what the steps update.
Shape ==
  /\ DOMAIN part = 0..NShards /\ DOMAIN cache = Shards
  /\ DOMAIN dir = {"centroids", "file"} /\ DOMAIN dir.file = Shards
  /\ DOMAIN del = {"stage", "row", "at", "orphan"}
  /\ DOMAIN sync = {"at", "wrote", "raced"}
  /\ DOMAIN probe = {"stage", "at", "raced", "ids"}
  /\ DOMAIN new = {"part", "seen", "last", "todo", "late"} /\ DOMAIN new.part = 0..NShards
  /\ dirty \subseteq Shards /\ kind \in {"flat", "ivf"} /\ up \in BOOLEAN
  /\ sync.at \in 0..(NShards + 1) /\ sync.wrote \in BOOLEAN /\ sync.raced \in BOOLEAN
  /\ probe.at \in 0..NShards /\ probe.raced \in BOOLEAN
  /\ del.at \in 0..NShards /\ del.orphan \in BOOLEAN

\* Who holds the write lock, and what goes on with it and without.
ControlInv ==
  /\ sync.at # 0 => holder \in {"flush", "delete", "stop"}
  /\ sync.wrote => sync.at \in Shards
  /\ holder = "delete" => ~del.orphan /\ del.stage # "none" /\ (sync.at # 0 => del.stage = "sync")
  /\ del.stage # "none" /\ ~del.orphan => holder = "delete"
  /\ pc \in SwapSteps => holder = "swap"
  /\ pc \in SwapSteps \cup {"sample", "backfill", "stream", "swap"} => job # "none"
  /\ (pc \in {"remove", "rename"} => job # "detach") /\ (pc = "replace" => job = "detach")
  /\ pc = "assign" /\ job # "detach" => catalog = "ivf"
  /\ pc = "assign" /\ job = "detach" => catalog = "flat"
  /\ probe.stage # "none" => probe.at \in Shards
  /\ ~up => del.stage = "none" /\ probe.stage = "none" /\ sync.at = 0 /\ pc = "idle"

\* A shard's ids, cached or read for the cache, are current, unless the thread that has
\* changed the shard has yet to say so.
InWrite(j) == del.stage = "written" /\ del.at = j
CacheInv ==
  /\ \A j \in Shards : cache[j] = NoCache \/ InWrite(j) \/ cache[j] = Ids(part[j])
  /\ probe.stage = "read" /\ ~probe.raced =>
       InWrite(probe.at) \/ probe.ids = Ids(part[probe.at])

\* The same for the files, also of the shard that a sync has just written; past the
\* rename of a swap they are the new index.
FilesInv ==
  /\ up /\ kind = "ivf" /\ ~Renamed =>
       \A j \in Shards \ dirty : dir.file[j] = NoFile \/ InWrite(j) \/ dir.file[j] = part[j]
  /\ kind = "ivf" /\ sync.wrote /\ ~sync.raced =>
       InWrite(sync.at) \/ dir.file[sync.at] = part[sync.at]
  /\ Renamed => \A j \in Shards : dir.file[j] = new.part[j]
CleanInv == mixed \/ FilesInv

\* An abandoned sync of the index in memory, and the file it has just written.
LateInv ==
  /\ DOMAIN late = {"at", "wrote", "raced", "stale", "index"} /\ late.at \in 0..NShards
  /\ late.wrote \in BOOLEAN /\ late.raced \in BOOLEAN /\ late.stale \in BOOLEAN
  /\ (late.wrote => late.at \in Shards) /\ (late.at # 0 /\ ~late.stale => up)
LateFileInv ==
  kind = "ivf" /\ late.wrote /\ ~late.raced /\ ~late.stale /\ ~Renamed =>
    InWrite(late.at) \/ dir.file[late.at] \in {NoFile, part[late.at]}
LateClean == mixed \/ LateFileInv

IInv == Shape /\ ControlInv /\ CacheInv /\ LateInv
-----------------------------------------------------------------------------
\* What the helpers do.
LEMMA ShardsType == Shards = 1..NShards /\ NShards \in Nat \ {0} /\ Shards \subseteq 0..NShards
BY SwapAssumption DEF Shards

\* Indices are in range.
LEMMA Bounds ==
  /\ 0 \in 0..NShards /\ 0 \in 0..(NShards + 1) /\ 1 \in 0..(NShards + 1)
  /\ \A i \in Shards : i \in 0..NShards /\ i \in 0..(NShards + 1) /\ i # 0 /\ i + 1 \in 1..(NShards + 1)
BY ShardsType

\* A collection that is gone.
LEMMA LostShape ==
  ASSUME Shape, Lost, dir' = dir
  PROVE  Shape'
<1>1. DOMAIN part' = 0..NShards /\ DOMAIN cache' = Shards
  <2>1. part' = Empty /\ cache' = [j \in Shards |-> NoCache]
    BY DEF Lost
  <2>2. DOMAIN Empty = 0..NShards
    BY DEF Empty
  <2>3. QED  BY <2>1, <2>2
<1>2. DOMAIN new' = {"part", "seen", "last", "todo", "late"} /\ DOMAIN new'.part = 0..NShards
  BY DEF Lost, NoBuild, Empty
<1>3. /\ DOMAIN del' = {"stage", "row", "at", "orphan"} /\ del'.at = 0 /\ del'.orphan = FALSE
      /\ DOMAIN sync' = {"at", "wrote", "raced"}
      /\ sync'.at = 0 /\ sync'.wrote = FALSE /\ sync'.raced = FALSE
      /\ DOMAIN probe' = {"stage", "at", "raced", "ids"} /\ probe'.at = 0 /\ probe'.raced = FALSE
  BY DEF Lost, NoDel, NoSync, NoProbe
<1>4. dirty' = {} /\ kind' = "flat" /\ up' = FALSE
  BY DEF Lost
<1>5. (DOMAIN part = 0..NShards /\ DOMAIN cache = Shards)'
  BY <1>1 DEF Shards
<1>6. (DOMAIN dir = {"centroids", "file"} /\ DOMAIN dir.file = Shards)'
  BY DEF Shape, Shards
<1>7. (/\ DOMAIN del = {"stage", "row", "at", "orphan"}
  /\ DOMAIN sync = {"at", "wrote", "raced"}
  /\ DOMAIN probe = {"stage", "at", "raced", "ids"}
  /\ DOMAIN new = {"part", "seen", "last", "todo", "late"} /\ DOMAIN new.part = 0..NShards)'
  BY <1>2, <1>3
<1>8. (dirty \subseteq Shards /\ kind \in {"flat", "ivf"} /\ up \in BOOLEAN)'
  BY <1>4
<1>9. (/\ sync.at \in 0..(NShards + 1) /\ sync.wrote \in BOOLEAN /\ sync.raced \in BOOLEAN
  /\ probe.at \in 0..NShards /\ probe.raced \in BOOLEAN
  /\ del.at \in 0..NShards /\ del.orphan \in BOOLEAN)'
  BY <1>3, Bounds
<1>10. QED  BY <1>5, <1>6, <1>7, <1>8, <1>9 DEF Shape

\* The sync moves on to the next shard.
LEMMA SyncNextShape ==
  ASSUME Shape, sync.at \in Shards, SyncNext
  PROVE  /\ DOMAIN sync' = {"at", "wrote", "raced"} /\ sync'.at \in 0..(NShards + 1)
         /\ sync'.at # 0 /\ sync'.wrote = FALSE /\ sync'.raced = FALSE
BY ShardsType DEF SyncNext, NoSync

\* A race is noted by the reader of a shard that has changed, and by no other.
LEMMA RaceEffect ==
  ASSUME Shape, NEW J
  PROVE  /\ LET s == Race(sync, J) IN
            /\ DOMAIN s = {"at", "wrote", "raced"} /\ s.at = sync.at /\ s.wrote = sync.wrote
            /\ s.raced \in BOOLEAN /\ (s.raced <=> sync.raced \/ sync.at \in J)
         /\ LateInv => LET s == Race(late, J) IN
            /\ DOMAIN s = {"at", "wrote", "raced", "stale", "index"} /\ s.at = late.at
            /\ s.wrote = late.wrote /\ s.stale = late.stale /\ s.index = late.index
            /\ s.raced \in BOOLEAN /\ (s.raced <=> late.raced \/ late.at \in J)
         /\ LET s == Race(probe, J) IN
            /\ DOMAIN s = {"stage", "at", "raced", "ids"} /\ s.at = probe.at
            /\ s.stage = probe.stage /\ s.ids = probe.ids
            /\ s.raced \in BOOLEAN /\ (s.raced <=> probe.raced \/ probe.at \in J)
BY DEF Race, Shape, LateInv

\* A row is removed from one part.
LEMMA HomeIsOne ==
  ASSUME NEW p, DOMAIN p = 0..NShards, NEW id, NEW i \in Home(p, id), NEW j \in Home(p, id)
  PROVE  i = j
BY ShardsType DEF Home

\* ... and the others stay.
LEMMA RemovedEffect ==
  ASSUME NEW p, DOMAIN p = 0..NShards, NEW id
  PROVE  /\ DOMAIN Removed(p, id) = 0..NShards
         /\ Home(p, id) \subseteq 0..NShards
         /\ \A j \in 0..NShards : j \notin Home(p, id) => Removed(p, id)[j] = p[j]
BY DEF Removed, Home

\* What a step of the delete's thread leaves.
LEMMA ThreadEndsEffect ==
  ASSUME Shape, ThreadEnds
  PROVE  /\ DOMAIN del' = {"stage", "row", "at", "orphan"} /\ del'.at \in 0..NShards
         /\ del'.orphan \in BOOLEAN
         /\ DOMAIN sync' = {"at", "wrote", "raced"} /\ sync'.at \in 0..(NShards + 1)
         /\ sync'.wrote \in BOOLEAN /\ sync'.raced \in BOOLEAN
         /\ del.orphan => /\ del'.stage = "none" /\ sync'.at = sync.at /\ sync'.wrote = sync.wrote
                          /\ (sync'.raced <=> sync.raced \/ sync.at = del.at)
         /\ ~del.orphan => /\ del'.stage = "sync" /\ del'.orphan = FALSE
                           /\ sync'.at = 1 /\ sync'.wrote = FALSE
<1>1. CASE del.orphan
  <2>1. del' = NoDel /\ sync' = Race(sync, {del.at})
    BY <1>1 DEF ThreadEnds
  <2> DEFINE s == Race(sync, {del.at})
  <2>2. /\ DOMAIN s = {"at", "wrote", "raced"} /\ s.at = sync.at /\ s.wrote = sync.wrote
        /\ s.raced \in BOOLEAN /\ (s.raced <=> sync.raced \/ sync.at \in {del.at})
    BY RaceEffect
  <2> HIDE DEF s
  <2>3. QED  BY <1>1, <2>1, <2>2, ShardsType DEF s, Shape, NoDel
<1>2. CASE ~del.orphan
  <2>1. del' = [del EXCEPT !.stage = "sync"] /\ sync' = [NoSync EXCEPT !.at = 1]
    BY <1>2 DEF ThreadEnds, SyncBegins
  <2>2. QED  BY <1>2, <2>1, ShardsType DEF Shape, NoSync
<1>3. QED  BY <1>1, <1>2

\* Written shards have no cache and are dirty, and a search that reads one is raced.
LEMMA WrittenEffect ==
  ASSUME Shape, NEW J, Written(J)
  PROVE  /\ DOMAIN cache' = Shards
         /\ \A j \in Shards : cache'[j] = IF j \in J THEN NoCache ELSE cache[j]
         /\ dirty' = dirty \cup (J \cap Shards) /\ dirty' \subseteq Shards
         /\ DOMAIN probe' = {"stage", "at", "raced", "ids"} /\ probe'.at = probe.at
         /\ probe'.stage = probe.stage /\ probe'.ids = probe.ids /\ probe'.raced \in BOOLEAN
         /\ (probe'.raced <=> probe.raced \/ probe.at \in J)
BY RaceEffect DEF Written, Shape

\* ... and so is an abandoned sync that is there.
LEMMA WrittenLate ==
  ASSUME Shape, LateInv, NEW J, Written(J)
  PROVE  /\ DOMAIN late' = {"at", "wrote", "raced", "stale", "index"} /\ late'.at = late.at
         /\ late'.wrote = late.wrote /\ late'.stale = late.stale /\ late'.index = late.index
         /\ late'.raced \in BOOLEAN /\ (late'.raced <=> late.raced \/ late.at \in J \cap Shards)
BY RaceEffect DEF Written

\* An abandoned sync that another index has come to keeps its place.
LEMMA LeaveEffect ==
  ASSUME LateInv, NEW D, Leave(D)
  PROVE  /\ DOMAIN late' = {"at", "wrote", "raced", "stale", "index"} /\ late'.at = late.at
         /\ late'.wrote = late.wrote /\ late'.raced = late.raced /\ late'.stale \in BOOLEAN
         /\ late.at # 0 => late'.stale
BY DEF Leave, LateInv

\* It moves on.
LEMMA LateNextEffect ==
  ASSUME LateInv, LateNext, late.at # 0
  PROVE  /\ DOMAIN late' = {"at", "wrote", "raced", "stale", "index"} /\ late'.at \in 0..NShards
         /\ late'.wrote = FALSE /\ late'.raced = FALSE /\ late'.stale \in BOOLEAN
         /\ late'.at # 0 => late'.stale = late.stale /\ late'.index = late.index
<1>1. CASE late.at = NShards
  BY <1>1, Bounds DEF LateNext, NoLate
<1>2. CASE late.at # NShards
  <2>1. late.at + 1 \in 0..NShards
    BY <1>2, ShardsType DEF LateInv
  <2>2. late' = [late EXCEPT !.at = late.at + 1, !.wrote = FALSE, !.raced = FALSE]
    BY <1>2 DEF LateNext
  <2>3. QED  BY <2>1, <2>2 DEF LateInv
<1>3. QED  BY <1>1, <1>2

\* A step of it changes files and flags of shards, and nothing else.
LateStep == LateFlat \/ LateShard \/ LateClears \/ LateRaises
LEMMA LateEffect ==
  ASSUME Shape, ControlInv, LateInv, LateStep
  PROVE  /\ UNCHANGED <<rec, bare, vecs, catalog, queue, up, kind, part, cache, holder, pc, new,
                         del, sync, probe, hollow, orphans>>
         /\ DOMAIN dir' = {"centroids", "file"} /\ DOMAIN dir'.file = Shards
         /\ dirty' \subseteq dirty /\ LateInv'
         /\ late.at # 0 /\ (mixed => mixed')
         /\ mixed' \/ ~Outdated \/ UNCHANGED <<flat, dir>>
<1> USE DEF disk, index, history
<1>1. CASE LateFlat
  <2>1. /\ UNCHANGED <<rec, bare, vecs, dir, catalog, queue, up, kind, part, cache, holder, pc, new,
                         del, sync, probe, hollow, orphans, dirty>>
        /\ late.at = 1 /\ late' = NoLate /\ mixed' = (mixed \/ (Outdated /\ flat' # flat))
    BY <1>1 DEF LateFlat, Mixes
  <2>2. LateInv'
    BY <2>1, Bounds DEF LateInv, NoLate
  <2>3. (mixed => mixed') /\ (mixed' \/ ~Outdated \/ UNCHANGED <<flat, dir>>)
    BY <2>1, Zenon
  <2>4. late.at # 0 /\ dirty' \subseteq dirty
    BY <2>1
  <2>5. DOMAIN dir' = {"centroids", "file"} /\ DOMAIN dir'.file = Shards
    BY <2>1 DEF Shape, Shards
  <2>6. QED  BY <2>1, <2>2, <2>3, <2>4, <2>5
<1>2. CASE LateShard
  <2> DEFINE j == late.at
             c == dir.centroids \/ j = 1
             f == [dir.file EXCEPT ![j] = Held.part[j]]
  <2>1. /\ UNCHANGED <<rec, bare, vecs, flat, catalog, queue, up, kind, part, cache, holder, pc, new,
                         del, sync, probe, hollow, orphans, dirty>>
        /\ late.at \in Shards /\ late.at # 0 /\ mixed' = (mixed \/ (Outdated /\ dir' # dir))
    BY <1>2, Bounds DEF LateShard, Mixes
  <2>2. CASE dir' = [centroids |-> c, file |-> f] /\ late' = [late EXCEPT !.wrote = TRUE]
    <3>1. DOMAIN f = Shards
      BY DEF Shape
    <3> HIDE DEF f, c
    <3>2. DOMAIN dir' = {"centroids", "file"} /\ DOMAIN dir'.file = Shards
      BY <2>2, <3>1
    <3>3. LateInv'
      BY <2>1, <2>2 DEF LateInv, Shards
    <3>4. QED  BY <2>1, <3>2, <3>3
  <2>3. CASE dir' = [dir EXCEPT !.centroids = c] /\ LateNext
    <3> HIDE DEF c
    <3>1. DOMAIN dir' = {"centroids", "file"} /\ DOMAIN dir'.file = Shards
      BY <2>3 DEF Shape
    <3>2. LateInv'
      BY <2>1, <2>3, LateNextEffect DEF LateInv
    <3>3. QED  BY <2>1, <3>1, <3>2
  <2>4. QED  BY <1>2, <2>2, <2>3 DEF LateShard
<1>3. CASE LateClears
  <2>1. /\ UNCHANGED <<disk, queue, up, kind, part, cache, holder, pc, new, del, sync, probe, history>>
        /\ LateNext /\ dirty' \subseteq dirty /\ late.at # 0
    BY <1>3, Bounds DEF LateClears, LateInv
  <2>2. LateInv'
    BY <2>1, LateNextEffect DEF LateInv
  <2>3. QED  BY <2>1, <2>2 DEF Shape
<1>4. CASE LateRaises
  BY <1>4, Bounds DEF LateRaises, Shape, LateInv, NoLate
<1>5. QED  BY <1>1, <1>2, <1>3, <1>4 DEF LateStep

\* An upsert tells of every shard it changes.
LEMMA UpsertEffect ==
  ASSUME Shape, NEW v, Upsert(v)
  PROVE  \E J : /\ Written(J) /\ DOMAIN part' = 0..NShards
                /\ \A j \in (0..NShards) \ J : part'[j] = part[j]
<1> DEFINE old  == {r \in rec : r[2] = v}
           row  == <<NextId, v>>
           kept == IF old = {} THEN part ELSE Removed(part, CHOOSE id \in Ids(old) : TRUE)
<1>1. PICK j \in Parts(kind) :
        /\ part' = [kept EXCEPT ![j] = @ \cup {row}]
        /\ Written({j} \cup {i \in DOMAIN part : kept[i] # part[i]})
  BY DEF Upsert
<1>2. DOMAIN kept = 0..NShards
  BY RemovedEffect DEF Shape
<1> HIDE DEF kept, row
<1> DEFINE J == {j} \cup {i \in DOMAIN part : kept[i] # part[i]}
<1>3. \A i \in (0..NShards) \ J : part'[i] = part[i]
  BY <1>1, <1>2 DEF Shape
<1>4. DOMAIN part' = 0..NShards
  BY <1>1, <1>2
<1>5. QED  BY <1>1, <1>3, <1>4

\* The new index keeps its shape.
LEMMA AddsEffect ==
  ASSUME Shape, NEW E, Adds(E)
  PROVE  /\ DOMAIN new' = {"part", "seen", "last", "todo", "late"}
         /\ DOMAIN new'.part = 0..NShards
<1>1. PICK f \in Shard(E) :
        new' = [new EXCEPT !.part = [j \in DOMAIN @ |-> @[j] \cup {e \in E : f[e] = j}],
                           !.seen = @ \cup Ids(E), !.todo = {},
                           !.last = Max({@} \cup Ids(E))]
  BY DEF Adds
<1> DEFINE p == [j \in DOMAIN new.part |-> new.part[j] \cup {e \in E : f[e] = j}]
           s == new.seen \cup Ids(E)
           l == Max({new.last} \cup Ids(E))
<1>2. new' = [new EXCEPT !.part = p, !.seen = s, !.todo = {}, !.last = l]
  BY <1>1
<1>3. DOMAIN p = 0..NShards
  BY DEF Shape
<1> HIDE DEF p, s, l
<1>4. QED  BY <1>2, <1>3 DEF Shape

\* A sync changes only the file of the shard it is at.
LEMMA SyncShardEffect ==
  ASSUME Shape, SyncShard
  PROVE  /\ DOMAIN dir' = {"centroids", "file"} /\ DOMAIN dir'.file = Shards
         /\ \A j \in Shards \ {sync.at} : dir'.file[j] = dir.file[j]
         /\ dir'.file[sync.at] \in {dir.file[sync.at], part[sync.at]}
         /\ DOMAIN sync' = {"at", "wrote", "raced"} /\ sync'.at \in 0..(NShards + 1)
         /\ sync'.at # 0 /\ sync'.wrote \in BOOLEAN /\ sync'.raced \in BOOLEAN
         /\ sync'.wrote => sync'.at = sync.at /\ dir'.file[sync.at] = part[sync.at]
<1>0. sync.at \in Shards /\ sync.at # 0
  BY Bounds DEF SyncShard
<1>1. CASE SyncWrites(sync.at)
  <2> DEFINE f == [dir.file EXCEPT ![sync.at] = part[sync.at]]
  <2>1. dir' = [centroids |-> TRUE, file |-> f] /\ sync' = [sync EXCEPT !.wrote = TRUE]
    BY <1>1 DEF SyncShard
  <2>2. /\ DOMAIN f = Shards /\ f[sync.at] = part[sync.at]
        /\ \A j \in Shards \ {sync.at} : f[j] = dir.file[j]
    BY <1>0 DEF Shape
  <2> HIDE DEF f
  <2>3. dir'.file = f /\ DOMAIN dir' = {"centroids", "file"}
    BY <2>1
  <2>4. /\ DOMAIN sync' = {"at", "wrote", "raced"} /\ sync'.at = sync.at /\ sync'.wrote = TRUE
        /\ sync'.raced = sync.raced
    BY <2>1 DEF Shape
  <2>5. QED  BY <1>0, <2>2, <2>3, <2>4 DEF Shape
<1>2. CASE ~SyncWrites(sync.at)
  <2>1. dir' = [dir EXCEPT !.centroids = TRUE] /\ SyncNext
    BY <1>2 DEF SyncShard
  <2>2. DOMAIN dir' = {"centroids", "file"} /\ dir'.file = dir.file
    BY <2>1 DEF Shape
  <2>3. QED  BY <1>0, <2>1, <2>2, SyncNextShape DEF Shape
<1>3. QED  BY <1>1, <1>2

\* A sync ends: stop() forgets the collection, a flush or a delete gives up the lock.
SyncOver ==
  IF holder = "stop" THEN Lost
  ELSE /\ sync' = NoSync /\ holder' = "none" /\ del' = (IF holder = "delete" THEN NoDel ELSE del)
       /\ UNCHANGED <<up, kind, part, dirty, cache, pc, new, probe>>

\* ... and the shapes stay.
LEMMA SyncOverShape ==
  ASSUME Shape, SyncOver, dir' = dir
  PROVE  Shape'
<1>1. CASE holder = "stop"
  BY <1>1, LostShape DEF SyncOver
<1>2. CASE holder # "stop"
  <2>1. /\ sync' = NoSync /\ del' = (IF holder = "delete" THEN NoDel ELSE del)
        /\ up' = up /\ kind' = kind /\ part' = part /\ dirty' = dirty /\ cache' = cache
        /\ new' = new /\ probe' = probe
    BY <1>2 DEF SyncOver
  <2>2. /\ DOMAIN del' = {"stage", "row", "at", "orphan"}
        /\ del'.at \in 0..NShards /\ del'.orphan \in BOOLEAN
    BY <2>1, Bounds DEF NoDel, Shape
  <2>3. /\ DOMAIN sync' = {"at", "wrote", "raced"} /\ sync'.at \in 0..(NShards + 1)
        /\ sync'.wrote \in BOOLEAN /\ sync'.raced \in BOOLEAN
    BY <2>1, Bounds DEF NoSync
  <2>4. QED  BY <2>1, <2>2, <2>3 DEF Shape, Shards
<1>3. QED  BY <1>1, <1>2

\* The shard a delete takes the row from is the one that its thread marks afterwards.
LEMMA UnindexEffect ==
  ASSUME Shape, DeleteUnindexes
  PROVE  /\ DOMAIN part' = 0..NShards
         /\ \/ ThreadEnds /\ \A j \in Shards : part'[j] = part[j]
            \/ /\ DOMAIN del' = {"stage", "row", "at", "orphan"}
               /\ del'.stage = "written" /\ del'.orphan = del.orphan /\ del'.at \in Shards
               /\ sync' = sync
               /\ \A j \in Shards \ {del'.at} : part'[j] = part[j]
<1> DEFINE J == Home(part, del.row[1])
<1>1. part' = Removed(part, del.row[1])
  BY DEF DeleteUnindexes
<1>2. /\ DOMAIN part' = 0..NShards /\ J \subseteq 0..NShards
      /\ \A j \in 0..NShards : j \notin J => part'[j] = part[j]
  <2>1. DOMAIN part = 0..NShards
    BY DEF Shape
  <2>2. QED  BY <1>1, <2>1, RemovedEffect
<1>3. CASE J \cap Shards = {}
  <2>1. ThreadEnds
    BY <1>3 DEF DeleteUnindexes
  <2>2. QED  BY <1>2, <1>3, <2>1, Bounds
<1>4. CASE J \cap Shards # {}
  <2>1. del' = [del EXCEPT !.stage = "written", !.at = CHOOSE j \in J : TRUE] /\ sync' = sync
    BY <1>4 DEF DeleteUnindexes
  <2>2. PICK j \in J : j \in Shards
    BY <1>4
  <2>3. \A i \in J : i = j
    BY HomeIsOne DEF Shape
  <2> HIDE DEF J
  <2>4. (CHOOSE i \in J : TRUE) = j
    BY <2>2, <2>3
  <2>5. /\ DOMAIN del' = {"stage", "row", "at", "orphan"}
        /\ del'.stage = "written" /\ del'.orphan = del.orphan /\ del'.at = j
    BY <2>1, <2>4 DEF Shape
  <2>6. QED  BY <1>2, <2>1, <2>2, <2>3, <2>5, Bounds
<1>5. QED  BY <1>3, <1>4

-----------------------------------------------------------------------------

\* The updates keep the shapes.
LEMMA ShapeStep ==
  ASSUME IInv, [Next]_vars
  PROVE  Shape'
<1> USE DEF IInv, Shape, disk, queue, index, syncs, history
<1>0. CASE UNCHANGED vars
  BY <1>0 DEF vars
<1>1. CASE SyncFlat
  BY <1>1, SwapAssumption DEF SyncFlat, NoSync
<1>2. CASE SyncShard
  <2>1. /\ part' = part /\ cache' = cache /\ dirty' = dirty /\ kind' = kind /\ up' = up
        /\ del' = del /\ probe' = probe /\ new' = new
    BY <1>2 DEF SyncShard
  <2>2. QED  BY <1>2, <2>1, SyncShardEffect
<1>3. CASE SyncClears
  <2>1. sync.at \in Shards
    BY <1>3 DEF SyncClears, ControlInv
  <2>2. /\ part' = part /\ cache' = cache /\ dir' = dir /\ kind' = kind /\ up' = up
        /\ del' = del /\ probe' = probe /\ new' = new
        /\ dirty' \subseteq dirty /\ SyncNext
    BY <1>3 DEF SyncClears
  <2>3. QED  BY <2>1, <2>2, SyncNextShape
<1>4. CASE SyncEnds
  <2>1. SyncOver /\ dir' = dir
    BY <1>4 DEF SyncEnds, SyncOver
  <2>2. QED  BY <2>1, SyncOverShape
<1>5. CASE SyncFails
  <2>1. SyncOver /\ dir' = dir
    BY <1>5 DEF SyncFails, SyncOver
  <2>2. QED  BY <2>1, SyncOverShape
<1>6. CASE Put
  <2>1. PICK J : /\ Written(J) /\ DOMAIN part' = 0..NShards
                 /\ \A j \in (0..NShards) \ J : part'[j] = part[j]
    BY <1>6, UpsertEffect DEF Put
  <2>2. dir' = dir /\ kind' = kind /\ up' = up /\ del' = del /\ sync' = sync /\ new' = new
    BY <1>6 DEF Put
  <2>3. QED  BY <2>1, <2>2, WrittenEffect
<1>7. CASE Flush
  BY <1>7, Bounds DEF Flush, SyncBegins, NoSync
<1>8. CASE DeleteBegins
  BY <1>8, Bounds DEF DeleteBegins, NoDel
<1>9. CASE DeleteCommits
  BY <1>9 DEF DeleteCommits
<1>10. CASE DeleteUnindexes
  <2>1. /\ dir' = dir /\ kind' = kind /\ up' = up /\ dirty' = dirty /\ cache' = cache
        /\ probe' = probe /\ new' = new
    BY <1>10 DEF DeleteUnindexes
  <2>2. CASE ThreadEnds
    BY <1>10, <2>1, <2>2, UnindexEffect, ThreadEndsEffect
  <2>3. CASE ~ThreadEnds
    BY <1>10, <2>1, <2>3, UnindexEffect, Bounds
  <2>4. QED  BY <2>2, <2>3
<1>11. CASE DeleteWritten
  <2>1. dir' = dir /\ kind' = kind /\ up' = up /\ part' = part /\ new' = new
    BY <1>11 DEF DeleteWritten
  <2>2. Written({del.at}) /\ ThreadEnds
    BY <1>11 DEF DeleteWritten
  <2>3. QED  BY <2>1, <2>2, WrittenEffect, ThreadEndsEffect
<1>12. CASE DeleteAbandoned
  BY <1>12 DEF DeleteAbandoned
<1>13. CASE ProbeBegins
  BY <1>13 DEF ProbeBegins, NoProbe, Shards
<1>14. CASE ProbeReads
  BY <1>14 DEF ProbeReads
<1>15. CASE ProbeStores
  BY <1>15, Bounds DEF ProbeStores, NoProbe
<1>16. CASE JobStart
  BY <1>16 DEF JobStart, Fails, NoBuild, Empty, NoDir
<1>17. CASE Sample
  BY <1>17 DEF Sample
<1>18. CASE Backfill
  <2>1. /\ dir' = dir /\ part' = part /\ cache' = cache /\ dirty' = dirty /\ kind' = kind
        /\ up' = up /\ del' = del /\ sync' = sync /\ probe' = probe
    BY <1>18 DEF Backfill
  <2>2. Adds(new.todo) \/ new' = [new EXCEPT !.todo = {}] \/ new' = NoBuild
    BY <1>18 DEF Backfill, Fails
  <2>3. /\ DOMAIN new' = {"part", "seen", "last", "todo", "late"}
        /\ DOMAIN new'.part = 0..NShards
    <3>1. CASE Adds(new.todo)
      BY <3>1, AddsEffect
    <3>2. CASE new' = [new EXCEPT !.todo = {}]
      BY <3>2
    <3>3. CASE new' = NoBuild
      BY <3>3 DEF NoBuild, Empty
    <3>4. QED  BY <2>2, <3>1, <3>2, <3>3
  <2>4. QED  BY <2>1, <2>3
<1>19. CASE Stream
  <2>1. /\ dir' = dir /\ part' = part /\ cache' = cache /\ dirty' = dirty /\ kind' = kind
        /\ up' = up /\ del' = del /\ sync' = sync /\ probe' = probe
    BY <1>19 DEF Stream
  <2>2. (\E E : Adds(E)) \/ new' = new \/ new' = NoBuild
          \/ new' = [new EXCEPT !.todo = Missing, !.late = TRUE]
    BY <1>19 DEF Stream, Fails
  <2>3. /\ DOMAIN new' = {"part", "seen", "last", "todo", "late"}
        /\ DOMAIN new'.part = 0..NShards
    <3>1. CASE \E E : Adds(E)
      BY <3>1, AddsEffect
    <3>2. CASE new' = new \/ new' = [new EXCEPT !.todo = Missing, !.late = TRUE]
      BY <3>2
    <3>3. CASE new' = NoBuild
      BY <3>3 DEF NoBuild, Empty
    <3>4. QED  BY <2>2, <3>1, <3>2, <3>3
  <2>4. QED  BY <2>1, <2>3
<1>20. CASE SwapBegins
  BY <1>20 DEF SwapBegins
<1>21. CASE SwapRemove
  BY <1>21 DEF SwapRemove
<1>22. CASE SwapRename
  BY <1>22 DEF SwapRename
<1>23. CASE SwapReplace
  BY <1>23 DEF SwapReplace
<1>24. CASE SwapCatalog
  BY <1>24 DEF SwapCatalog
<1>25. CASE SwapAssign
  <2>1. kind' \in {"flat", "ivf"} /\ part' = new.part
    BY <1>25 DEF SwapAssign, Becomes, At, ControlInv
  <2>2. /\ dirty' = {} /\ cache' = [j \in Shards |-> NoCache] /\ probe' = NoProbe
        /\ del' = [del EXCEPT !.at = 0] /\ (dir' = NoDir \/ dir' = dir)
        /\ new' = NoBuild /\ up' = up /\ sync' = sync
    BY <1>25 DEF SwapAssign, Becomes
  <2>3. /\ DOMAIN dir' = {"centroids", "file"} /\ DOMAIN dir'.file = Shards
        /\ DOMAIN new' = {"part", "seen", "last", "todo", "late"}
        /\ DOMAIN new'.part = 0..NShards
    BY <2>2 DEF NoDir, NoBuild, Empty
  <2>4. /\ DOMAIN del' = {"stage", "row", "at", "orphan"} /\ del'.at = 0 /\ del'.orphan = del.orphan
        /\ DOMAIN probe' = {"stage", "at", "raced", "ids"} /\ probe'.at = 0 /\ probe'.raced = FALSE
    BY <2>2 DEF NoProbe
  <2>5. DOMAIN part' = 0..NShards /\ DOMAIN cache' = Shards /\ dirty' = {} /\ up' = up /\ sync' = sync
    BY <2>1, <2>2
  <2>6. QED  BY <2>1, <2>3, <2>4, <2>5, Bounds
<1>26. CASE SwapFails
  BY <1>26 DEF SwapFails, Fails, NoBuild, Empty
<1>27. CASE JobFinish
  BY <1>27 DEF JobFinish
<1>28. CASE Stop
  BY <1>28, Bounds DEF Stop, SyncBegins, NoSync, NoBuild, Empty
<1>29. CASE Crash
  BY <1>29, Bounds DEF Crash, Lost, NoSync, NoDel, NoProbe, NoBuild, Empty
<1>30. CASE Open
  <2>1. /\ kind' = LoadedKind /\ dirty' = {} /\ up' = TRUE
        /\ part' = [j \in DOMAIN Loaded |-> Without(Loaded[j], Ghosts)]
        /\ DOMAIN cache' = Shards /\ del' = del /\ sync' = sync /\ probe' = probe /\ new' = new
    BY <1>30 DEF Open
  <2>2. DOMAIN Loaded = 0..NShards /\ LoadedKind \in {"flat", "ivf"}
    BY DEF Loaded, LoadedKind
  <2>3. dir' = dir \/ dir' = [dir EXCEPT !.file = [j \in Shards |-> part'[j]]]
    BY <1>30 DEF Open
  <2>4. DOMAIN dir' = {"centroids", "file"} /\ DOMAIN dir'.file = Shards
    BY <2>3
  <2>5. QED  BY <2>1, <2>2, <2>4
<1>31. ASSUME NEW op \in Asks, Ask(op)  PROVE Shape'
  BY <1>31 DEF Ask
<1>32. CASE DeleteSyncAbandoned
  BY <1>32, Bounds DEF DeleteSyncAbandoned, NoSync, NoDel
<1>33. CASE LateStep
  BY <1>33, LateEffect
<1>34. QED  BY <1>0, <1>1, <1>2, <1>3, <1>4, <1>5, <1>6, <1>7, <1>8, <1>9, <1>10, <1>11,
    <1>12, <1>13, <1>14, <1>15, <1>16, <1>17, <1>18, <1>19, <1>20, <1>21, <1>22, <1>23,
    <1>24, <1>25, <1>26, <1>27, <1>28, <1>29, <1>30, <1>31, <1>32,
    <1>33 DEF LateStep, Next

\* Syncs, deletes and swaps hold the lock as they should.
LEMMA ControlStep ==
  ASSUME IInv, [Next]_vars
  PROVE  ControlInv'
<1> USE DEF IInv, Shape, ControlInv, disk, queue, index, syncs, history
<1>0. CASE UNCHANGED vars
  BY <1>0 DEF vars
<1>1. CASE SyncFlat
  BY <1>1 DEF SyncFlat, NoSync
<1>2. CASE SyncShard
  BY <1>2 DEF SyncShard, SyncNext, NoSync, Shards
<1>3. CASE SyncClears
  BY <1>3 DEF SyncClears, SyncNext, NoSync, Shards
<1>4. CASE SyncEnds
  BY <1>4, SwapAssumption DEF SyncEnds, Lost, NoSync, NoDel, NoProbe, SwapSteps
<1>5. CASE SyncFails
  BY <1>5 DEF SyncFails, Lost, NoSync, NoDel, NoProbe, Shards, SwapSteps
<1>6. CASE Put
  BY <1>6 DEF Put, Upsert, Written, Race
<1>7. CASE Flush
  BY <1>7 DEF Flush, SyncBegins, NoSync
<1>8. CASE DeleteBegins
  BY <1>8 DEF DeleteBegins, NoDel
<1>9. CASE DeleteCommits
  BY <1>9 DEF DeleteCommits
<1>10. CASE DeleteUnindexes
  <2>1. /\ UNCHANGED <<up, holder, pc, job, catalog, probe>>
        /\ del.stage = "unindex"
    BY <1>10 DEF DeleteUnindexes
  <2>2. CASE ThreadEnds
    BY <1>10, <2>1, <2>2, ThreadEndsEffect, Bounds
  <2>3. CASE ~ThreadEnds
    BY <1>10, <2>1, <2>3, UnindexEffect
  <2>4. QED  BY <2>2, <2>3
<1>11. CASE DeleteWritten
  <2>1. /\ UNCHANGED <<up, holder, pc, job, catalog>>
        /\ del.stage = "written" /\ Written({del.at}) /\ ThreadEnds
    BY <1>11 DEF DeleteWritten
  <2>2. probe'.stage = probe.stage /\ probe'.at = probe.at
    BY <2>1, WrittenEffect
  <2>3. QED  BY <2>1, <2>2, ThreadEndsEffect, Bounds
<1>12. CASE DeleteAbandoned
  BY <1>12 DEF DeleteAbandoned
<1>13. CASE ProbeBegins
  BY <1>13 DEF ProbeBegins
<1>14. CASE ProbeReads
  BY <1>14 DEF ProbeReads
<1>15. CASE ProbeStores
  BY <1>15 DEF ProbeStores, NoProbe
<1>16. CASE JobStart
  BY <1>16 DEF JobStart, At, Goes, Fails, SwapSteps
<1>17. CASE Sample
  BY <1>17 DEF Sample, At, Goes, SwapSteps
<1>18. CASE Backfill
  BY <1>18 DEF Backfill, At, Goes, Fails, SwapSteps
<1>19. CASE Stream
  BY <1>19 DEF Stream, At, Goes, Fails, SwapSteps
<1>20. CASE SwapBegins
  BY <1>20 DEF SwapBegins, At, Goes
<1>21. CASE SwapRemove
  BY <1>21 DEF SwapRemove, At, Goes, SwapSteps
<1>22. CASE SwapRename
  BY <1>22 DEF SwapRename, At, Goes, SwapSteps
<1>23. CASE SwapReplace
  BY <1>23 DEF SwapReplace, At, Goes, SwapSteps
<1>24. CASE SwapCatalog
  BY <1>24 DEF SwapCatalog, At, Goes, SwapSteps
<1>25. CASE SwapAssign
  BY <1>25 DEF SwapAssign, At, Goes, Becomes, NoProbe, SwapSteps
<1>26. CASE SwapFails
  BY <1>26, SwapAssumption DEF SwapFails, Fails, SwapSteps
<1>27. CASE JobFinish
  BY <1>27 DEF JobFinish, Goes, SwapSteps
<1>28. CASE Stop
  BY <1>28 DEF Stop, SyncBegins, NoSync, SwapSteps
<1>29. CASE Crash
  BY <1>29 DEF Crash, Lost, NoSync, NoDel, NoProbe, SwapSteps
<1>30. CASE Open
  BY <1>30 DEF Open
<1>31. ASSUME NEW op \in Asks, Ask(op)  PROVE ControlInv'
  <2>1. /\ up /\ job = "none" /\ job' = op /\ UNCHANGED <<up, holder, pc, catalog, probe, del, sync>>
    BY <1>31 DEF Ask
  <2>2. op # "none"
    BY SwapAssumption
  <2>3. QED  BY <2>1, <2>2 DEF SwapSteps
<1>32. CASE DeleteSyncAbandoned
  BY <1>32, Bounds DEF DeleteSyncAbandoned, NoSync, NoDel
<1>33. CASE LateStep
  BY <1>33, LateEffect
<1>34. QED  BY <1>0, <1>1, <1>2, <1>3, <1>4, <1>5, <1>6, <1>7, <1>8, <1>9, <1>10, <1>11,
    <1>12, <1>13, <1>14, <1>15, <1>16, <1>17, <1>18, <1>19, <1>20, <1>21, <1>22, <1>23,
    <1>24, <1>25, <1>26, <1>27, <1>28, <1>29, <1>30, <1>31, <1>32,
    <1>33 DEF LateStep, Next

\* An abandoned sync runs on until it ends, raises, or the process does.
LEMMA LateInvStep ==
  ASSUME IInv, [Next]_vars
  PROVE  LateInv'
<1> USE DEF IInv, syncs
<1>1. CASE late' = late /\ up' = up
  BY <1>1 DEF LateInv, Shards
<1>2. CASE SyncEnds \/ SyncFails
  <2>1. \/ late' = late /\ up' = up
        \/ Leave(dirty)
    BY <1>2 DEF SyncEnds, SyncFails
  <2>2. ASSUME Leave(dirty)  PROVE LateInv'
    BY <2>2, LeaveEffect DEF LateInv, Shards
  <2>3. QED  BY <1>1, <2>1, <2>2
<1>3. CASE Put \/ DeleteWritten
  <2>1. PICK J : Written(J) /\ up' = up
    BY <1>3, UpsertEffect DEF Put, DeleteWritten
  <2>2. QED  BY <2>1, WrittenLate DEF LateInv, Shards
<1>4. CASE DeleteSyncAbandoned
  <2>1. /\ late' = [NoLate EXCEPT !.at = sync.at, !.wrote = sync.wrote, !.raced = sync.raced]
        /\ sync.at \in Shards /\ up' = up /\ sync.at # 0
    BY <1>4, Bounds DEF DeleteSyncAbandoned
  <2>2. /\ DOMAIN late' = {"at", "wrote", "raced", "stale", "index"} /\ late'.at = sync.at
        /\ late'.wrote = sync.wrote /\ late'.raced = sync.raced
        /\ late'.stale = FALSE
    BY <2>1 DEF NoLate
  <2>3. up
    BY <2>1 DEF ControlInv, Shape
  <2>4. QED  BY <2>1, <2>2, <2>3, Bounds DEF LateInv, Shape, Shards
<1>5. CASE SwapAssign
  <2>1. Leave(dirty \cup ({del.at} \cap Shards)) /\ up' = up
    BY <1>5 DEF SwapAssign
  <2>2. QED  BY <2>1, LeaveEffect DEF LateInv, Shards
<1>6. CASE Crash
  BY <1>6, Bounds DEF Crash, NoLate, LateInv
<1>7. CASE Open
  BY <1>7 DEF Open, LateInv, Shards
<1>8. CASE LateStep
  BY <1>8, LateEffect
<1>9. CASE UNCHANGED vars
  BY <1>1, <1>9 DEF vars
<1>10. CASE SyncFlat \/ SyncShard \/ SyncClears \/ Flush \/ DeleteBegins \/ DeleteCommits
  BY <1>1, <1>10 DEF SyncFlat, SyncShard, SyncClears, Flush, DeleteBegins, DeleteCommits
<1>11. CASE DeleteUnindexes \/ DeleteAbandoned \/ ProbeBegins \/ ProbeReads \/ ProbeStores \/ JobStart
  BY <1>1, <1>11 DEF DeleteUnindexes, DeleteAbandoned, ProbeBegins, ProbeReads, ProbeStores, JobStart
<1>12. CASE Sample \/ Backfill \/ Stream \/ SwapBegins \/ SwapRemove \/ SwapRename
  BY <1>1, <1>12 DEF Sample, Backfill, Stream, SwapBegins, SwapRemove, SwapRename
<1>13. CASE SwapReplace \/ SwapCatalog \/ SwapFails \/ JobFinish \/ Stop
  BY <1>1, <1>13 DEF SwapReplace, SwapCatalog, SwapFails, JobFinish, Stop
<1>14. ASSUME NEW op \in Asks, Ask(op)  PROVE LateInv'
  BY <1>1, <1>14 DEF Ask
<1>15. QED  BY <1>2, <1>3, <1>4, <1>5, <1>6, <1>7, <1>8, <1>9, <1>10, <1>11, 
    <1>12, <1>13, <1>14 DEF Next, LateStep

\* A write to a shard reaches its cached ids, and those a search is about to store.
LEMMA CacheStep ==
  ASSUME IInv, [Next]_vars
  PROVE  CacheInv'
<1> USE DEF IInv, Shape, ControlInv, CacheInv, InWrite, disk, queue, index, syncs, history
<1>0. CASE UNCHANGED vars
  BY <1>0 DEF vars
<1>1. CASE SyncFlat
  BY <1>1 DEF SyncFlat
<1>2. CASE SyncShard
  BY <1>2 DEF SyncShard
<1>3. CASE SyncClears
  BY <1>3 DEF SyncClears
<1>4. CASE SyncEnds
  BY <1>4, SwapAssumption, SMTT(30) DEF SyncEnds, Lost, NoProbe
<1>5. CASE SyncFails
  BY <1>5, SwapAssumption DEF SyncFails, Lost, NoProbe, Shards
<1>6. CASE Put
  <2>1. PICK J : /\ Written(J) /\ DOMAIN part' = 0..NShards
                 /\ \A j \in (0..NShards) \ J : part'[j] = part[j]
    BY <1>6, UpsertEffect DEF Put
  <2>2. del' = del
    BY <1>6 DEF Put
  <2>3. \A j \in Shards : cache'[j] = NoCache \/ (j \notin J /\ cache'[j] = cache[j])
    BY <2>1, WrittenEffect
  <2>4. \A j \in Shards : j \notin J => part'[j] = part[j]
    BY <2>1, Bounds
  <2>5. probe.stage = "read" /\ ~probe'.raced => ~probe.raced /\ probe.at \in Shards \ J
    BY <2>1, WrittenEffect
  <2>6. probe'.stage = probe.stage /\ probe'.at = probe.at /\ probe'.ids = probe.ids
    BY <2>1, WrittenEffect
  <2>7. QED  BY <2>2, <2>3, <2>4, <2>5, <2>6 DEF Ids
<1>7. CASE Flush
  BY <1>7 DEF Flush
<1>8. CASE DeleteBegins
  BY <1>8 DEF DeleteBegins
<1>9. CASE DeleteCommits
  BY <1>9 DEF DeleteCommits
<1>10. CASE DeleteUnindexes
  <2>1. UNCHANGED <<cache, probe>> /\ del.stage = "unindex"
    BY <1>10 DEF DeleteUnindexes
  <2>2. CASE ThreadEnds
    BY <1>10, <2>1, <2>2, UnindexEffect DEF Ids
  <2>3. CASE ~ThreadEnds
    BY <1>10, <2>1, <2>3, UnindexEffect DEF Ids
  <2>4. QED  BY <2>2, <2>3
<1>11. CASE DeleteWritten
  BY <1>11 DEF DeleteWritten, Race, Written
<1>12. CASE DeleteAbandoned
  BY <1>12 DEF DeleteAbandoned
<1>13. CASE ProbeBegins
  BY <1>13 DEF ProbeBegins
<1>14. CASE ProbeReads
  BY <1>14 DEF ProbeReads
<1>15. CASE ProbeStores
  BY <1>15 DEF ProbeStores, NoProbe
<1>16. CASE JobStart
  BY <1>16 DEF JobStart
<1>17. CASE Sample
  BY <1>17 DEF Sample
<1>18. CASE Backfill
  BY <1>18 DEF Backfill
<1>19. CASE Stream
  BY <1>19 DEF Stream
<1>20. CASE SwapBegins
  BY <1>20 DEF SwapBegins
<1>21. CASE SwapRemove
  BY <1>21 DEF SwapRemove
<1>22. CASE SwapRename
  BY <1>22 DEF SwapRename
<1>23. CASE SwapReplace
  BY <1>23 DEF SwapReplace
<1>24. CASE SwapCatalog
  BY <1>24 DEF SwapCatalog
<1>25. CASE SwapAssign
  BY <1>25 DEF SwapAssign, Becomes, NoProbe
<1>26. CASE SwapFails
  BY <1>26 DEF SwapFails
<1>27. CASE JobFinish
  BY <1>27 DEF JobFinish
<1>28. CASE Stop
  BY <1>28 DEF Stop
<1>29. CASE Crash
  BY <1>29 DEF Crash, Lost, NoProbe
<1>30. CASE Open
  BY <1>30 DEF Open
<1>31. ASSUME NEW op \in Asks, Ask(op)  PROVE CacheInv'
  BY <1>31 DEF Ask
<1>32. CASE DeleteSyncAbandoned
  BY <1>32, Bounds DEF DeleteSyncAbandoned, NoDel
<1>33. CASE LateStep
  BY <1>33, LateEffect
<1>34. QED  BY <1>0, <1>1, <1>2, <1>3, <1>4, <1>5, <1>6, <1>7, <1>8, <1>9, <1>10, <1>11,
    <1>12, <1>13, <1>14, <1>15, <1>16, <1>17, <1>18, <1>19, <1>20, <1>21, <1>22, <1>23,
    <1>24, <1>25, <1>26, <1>27, <1>28, <1>29, <1>30, <1>31, <1>32,
    <1>33 DEF LateStep, Next

\* Files that two indexes have written stay so.
LEMMA MixedStays ==
  ASSUME Shape, ControlInv, LateInv, [Next]_vars, mixed
  PROVE  mixed'
<1> USE DEF history
<1>1. CASE UNCHANGED vars
  BY <1>1 DEF vars
<1>2. CASE SyncFlat \/ SyncShard \/ SyncClears \/ SyncEnds
             \/ SyncFails \/ Put \/ Flush \/ DeleteBegins
  BY <1>2 DEF SyncFlat, SyncShard, SyncClears, SyncEnds, SyncFails, Put, Flush, DeleteBegins
<1>3. CASE DeleteCommits \/ DeleteUnindexes \/ DeleteWritten \/ DeleteAbandoned
             \/ DeleteSyncAbandoned \/ ProbeBegins \/ ProbeReads \/ ProbeStores
  BY <1>3 DEF DeleteCommits, DeleteUnindexes, DeleteWritten, DeleteAbandoned, DeleteSyncAbandoned, ProbeBegins, ProbeReads, ProbeStores
<1>4. CASE JobStart \/ Sample \/ Backfill \/ Stream
             \/ SwapBegins \/ SwapRemove \/ SwapRename \/ SwapReplace
  BY <1>4 DEF JobStart, Sample, Backfill, Stream, SwapBegins, SwapRemove, SwapRename, SwapReplace
<1>5. CASE SwapCatalog \/ SwapAssign \/ SwapFails \/ JobFinish
             \/ Stop \/ Crash \/ Open
  BY <1>5 DEF SwapCatalog, SwapAssign, SwapFails, JobFinish, Stop, Crash, Open
<1>6. CASE LateStep
  BY <1>6, LateEffect
<1>7. ASSUME NEW op \in Asks, Ask(op)  PROVE mixed'
  BY <1>7 DEF Ask
<1>8. QED  BY <1>1, <1>2, <1>3, <1>4, <1>5, <1>6, <1>7 DEF Next, LateStep

\* What an abandoned sync that may write the live files does to them.
LEMMA LateWrites ==
  ASSUME Shape, LateInv, LateStep, ~Outdated
  PROVE  /\ \A j \in Shards : dir'.file[j] = dir.file[j] \/ (j = late.at /\ dir'.file[j] = part[j])
         /\ UNCHANGED dir \/ (kind = "ivf" /\ UNCHANGED dirty)
         /\ late'.wrote => late'.at = late.at /\ dir'.file[late.at] = part[late.at]
         /\ UNCHANGED dirty \/ (late.wrote /\ ~late.raced /\ UNCHANGED dir /\ dirty' = dirty \ {late.at})
<1> USE DEF disk, index, history
<1>0. ~late.stale /\ (Held.kind = kind /\ Held.part = part /\ Held.dirty = dirty)
  BY DEF Outdated, Held
<1>1. CASE LateFlat \/ LateRaises
  <2>1. UNCHANGED <<dir, dirty>> /\ late' = NoLate
    BY <1>1 DEF LateFlat, LateRaises
  <2>2. late'.wrote = FALSE
    BY <2>1 DEF NoLate
  <2>3. QED  BY <2>1, <2>2
<1>2. CASE LateShard
  <2>1. late.at \in Shards /\ kind = "ivf" /\ UNCHANGED dirty /\ late.at # 0
    BY <1>0, <1>2, Bounds DEF LateShard
  <2> DEFINE j == late.at
             c == dir.centroids \/ j = 1
             f == [dir.file EXCEPT ![j] = part[j]]
  <2>2. CASE dir' = [centroids |-> c, file |-> f] /\ late' = [late EXCEPT !.wrote = TRUE]
    <3>1. dir'.file = f
      BY <2>2
    <3>2. f[j] = part[j] /\ \A i \in Shards : i # j => f[i] = dir.file[i]
      BY <2>1 DEF Shape
    <3>3. late'.at = j
      BY <2>2 DEF LateInv
    <3>4. QED  BY <2>1, <3>1, <3>2, <3>3
  <2>3. CASE dir' = [dir EXCEPT !.centroids = c] /\ LateNext
    <3>1. dir'.file = dir.file
      BY <2>3 DEF Shape
    <3>2. late'.wrote = FALSE
      BY <2>1, <2>3, LateNextEffect
    <3>3. QED  BY <2>1, <3>1, <3>2
  <2>4. QED  BY <1>0, <1>2, <2>2, <2>3 DEF LateShard
<1>3. CASE LateClears
  <2>1. /\ UNCHANGED dir /\ late.wrote /\ LateNext /\ late.at # 0
        /\ dirty' = IF late.raced THEN dirty ELSE dirty \ {late.at}
    BY <1>0, <1>3, Bounds DEF LateClears, LateInv
  <2>2. late'.wrote = FALSE
    BY <2>1, LateNextEffect
  <2>3. QED  BY <2>1, <2>2
<1>4. QED  BY <1>1, <1>2, <1>3 DEF LateStep

\* A write to a shard marks it dirty, and only a sync without one clears it.
LEMMA CleanStep ==
  ASSUME IInv, CleanInv, LateClean, [Next]_vars,
         FailingSteps \subseteq {"remove", "rename", "replace"}
  PROVE  CleanInv'
<1> SUFFICES ASSUME FilesInv, ~mixed, ~mixed'  PROVE FilesInv'
  BY MixedStays DEF IInv, CleanInv
<1> USE DEF IInv, Shape, ControlInv, FilesInv, Renamed, InWrite, disk, queue, index, syncs, history
<1>0. CASE UNCHANGED vars
  BY <1>0 DEF vars
<1>1. CASE SyncFlat
  BY <1>1 DEF SyncFlat
<1>2. CASE SyncShard
  <2>1. /\ UNCHANGED <<up, kind, part, dirty, pc, job, new, del, holder>>
        /\ kind = "ivf" /\ sync.at # 0 /\ sync.at \in Shards
    BY <1>2, Bounds DEF SyncShard
  <2>2. ~Renamed
    BY <2>1 DEF SwapSteps
  <2>3. \A j \in Shards : dir'.file[j] = dir.file[j] \/ dir'.file[j] = part[j]
    BY <1>2, <2>1, SyncShardEffect
  <2>4. sync'.wrote => dir'.file[sync'.at] = part[sync'.at]
    BY <1>2, SyncShardEffect
  <2>5. QED  BY <2>1, <2>2, <2>3, <2>4
<1>3. CASE SyncClears
  BY <1>3 DEF SyncClears, Clears, SyncNext, NoSync
<1>4. CASE SyncEnds
  BY <1>4, SwapAssumption DEF SyncEnds, Lost, NoSync, NoBuild, Shards
<1>5. CASE SyncFails
  BY <1>5, SwapAssumption DEF SyncFails, Lost, NoSync, Shards
<1>6. CASE Put
  BY <1>6 DEF Put, Upsert, Written, Shards
<1>7. CASE Flush
  BY <1>7 DEF Flush, SyncBegins, NoSync
<1>8. CASE DeleteBegins
  BY <1>8 DEF DeleteBegins
<1>9. CASE DeleteCommits
  BY <1>9 DEF DeleteCommits
<1>10. CASE DeleteUnindexes
  <2>1. UNCHANGED <<up, kind, dirty, pc, job, new, dir>> /\ del.stage = "unindex"
    BY <1>10 DEF DeleteUnindexes
  <2>2. CASE ThreadEnds /\ \A j \in Shards : part'[j] = part[j]
    <3>1. sync'.wrote /\ ~sync'.raced => sync'.at = sync.at /\ sync.wrote /\ ~sync.raced
      BY <2>2, ThreadEndsEffect
    <3>2. sync.wrote => sync.at \in Shards
      OBVIOUS
    <3>3. QED  BY <2>1, <2>2, <3>1, <3>2
  <2>3. CASE /\ del'.stage = "written" /\ sync' = sync
             /\ \A j \in Shards \ {del'.at} : part'[j] = part[j]
    BY <2>1, <2>3
  <2>4. QED  BY <1>10, <2>2, <2>3, UnindexEffect
<1>11. CASE DeleteWritten
  <2>1. UNCHANGED <<up, kind, part, pc, job, new, dir>>
        /\ del.stage = "written" /\ Written({del.at}) /\ ThreadEnds
    BY <1>11 DEF DeleteWritten
  <2>2. dirty' = dirty \cup ({del.at} \cap Shards)
    BY <2>1 DEF Written
  <2>3. QED  BY <2>1, <2>2, ThreadEndsEffect
<1>12. CASE DeleteAbandoned
  BY <1>12 DEF DeleteAbandoned
<1>13. CASE ProbeBegins
  BY <1>13 DEF ProbeBegins
<1>14. CASE ProbeReads
  BY <1>14 DEF ProbeReads
<1>15. CASE ProbeStores
  BY <1>15 DEF ProbeStores
<1>16. CASE JobStart
  BY <1>16 DEF JobStart, At, Goes, Fails
<1>17. CASE Sample
  BY <1>17 DEF Sample, At, Goes
<1>18. CASE Backfill
  BY <1>18 DEF Backfill, At, Goes, Fails
<1>19. CASE Stream
  BY <1>19 DEF Stream, At, Goes, Fails
<1>20. CASE SwapBegins
  BY <1>20 DEF SwapBegins, At, Goes
<1>21. CASE SwapRemove
  BY <1>21 DEF SwapRemove, At, Goes, Shards, SwapSteps
<1>22. CASE SwapRename
  <2>1. /\ UNCHANGED <<up, kind, part, dirty, job, new, del, sync>> /\ pc = "rename" /\ pc' = "catalog"
        /\ \A j \in Shards : dir'.file[j] = new.part[j]
    BY <1>22 DEF SwapRename, At, Goes
  <2>2. sync.at = 0
    BY <2>1 DEF SwapSteps
  <2>3. QED  BY <2>1, <2>2, Bounds DEF SwapSteps
<1>23. CASE SwapReplace
  <2>1. UNCHANGED <<up, kind, part, dirty, job, new, del, sync, dir>> /\ pc = "replace" /\ pc' = "catalog"
    BY <1>23 DEF SwapReplace, At, Goes
  <2>2. QED  BY <2>1 DEF SwapSteps
<1>24. CASE SwapCatalog
  BY <1>24 DEF SwapCatalog, At, Goes
<1>25. CASE SwapAssign
  BY <1>25 DEF SwapAssign, At, Goes, Becomes
<1>26. CASE SwapFails
  BY <1>26 DEF SwapFails, Fails
<1>27. CASE JobFinish
  BY <1>27 DEF JobFinish, At, Goes
<1>28. CASE Stop
  BY <1>28 DEF Stop, SyncBegins, NoSync, SwapSteps
<1>29. CASE Crash
  BY <1>29 DEF Crash, Lost
<1>30. CASE Open
  <2>1. /\ up' = TRUE /\ kind' = LoadedKind /\ dirty' = {} /\ ~up /\ pc' = pc /\ sync' = sync
        /\ part' = [j \in DOMAIN Loaded |-> Without(Loaded[j], Ghosts)]
        /\ IF Ghosts = {} THEN dir' = dir
           ELSE LoadedKind = "ivf" => dir' = [dir EXCEPT !.file = [j \in Shards |-> part'[j]]]
    BY <1>30 DEF Open
  <2>2. ~Renamed' /\ sync'.wrote = FALSE
    BY <2>1, Bounds
  <2>3. ASSUME kind' = "ivf", NEW j \in Shards  PROVE dir'.file[j] = NoFile \/ dir'.file[j] = part'[j]
    <3>1. part'[j] = Without(Contents(dir.file[j]), Ghosts)
      BY <2>1, <2>3, Bounds DEF Loaded
    <3>2. CASE Ghosts = {}
      BY <2>1, <3>1, <3>2 DEF Without, Contents
    <3>3. CASE Ghosts # {}
      <4>1. dir' = [dir EXCEPT !.file = [i \in Shards |-> part'[i]]]
        BY <2>1, <2>3, <3>3
      <4>2. QED  BY <4>1
    <3>4. QED  BY <3>2, <3>3
  <2>4. QED  BY <2>2, <2>3
<1>31. ASSUME NEW op \in Asks, Ask(op)  PROVE FilesInv'
  <2>1. /\ job = "none" /\ job' = op /\ UNCHANGED <<up, kind, part, dirty, pc, catalog, dir, new, del, sync>>
    BY <1>31 DEF Ask
  <2>2. op # "none"
    BY SwapAssumption
  <2>3. QED  BY <2>1, <2>2 DEF SwapSteps
<1>32. CASE DeleteSyncAbandoned
  BY <1>32, Bounds DEF DeleteSyncAbandoned, NoSync, NoDel
<1>33. CASE LateStep
  <2>1. /\ UNCHANGED <<up, kind, part, pc, job, new, del, sync>>
        /\ dirty' \subseteq dirty /\ (~Outdated \/ UNCHANGED dir)
    BY <1>33, LateEffect
  <2>2. Renamed' = Renamed /\ \A j : InWrite(j)' = InWrite(j)
    BY <2>1
  <2> HIDE DEF Renamed, InWrite
  <2>3. CASE ~Outdated
    <3>1. /\ \A j \in Shards : dir'.file[j] = dir.file[j] \/ (j = late.at /\ dir'.file[j] = part[j])
          /\ UNCHANGED dir \/ (kind = "ivf" /\ UNCHANGED dirty)
          /\ UNCHANGED dirty \/ (late.wrote /\ ~late.raced /\ UNCHANGED dir /\ dirty' = dirty \ {late.at})
      BY <1>33, <2>3, LateWrites
    <3>2. ~late.stale /\ ~(kind = "ivf" /\ Renamed)
      BY <2>3 DEF Outdated
    <3>3. CASE UNCHANGED dir /\ UNCHANGED dirty
      BY <2>1, <2>2, <3>3
    <3>4. CASE late.wrote /\ ~late.raced /\ UNCHANGED dir /\ dirty' = dirty \ {late.at}
      BY <2>1, <2>2, <3>2, <3>4 DEF LateClean, LateFileInv
    <3>5. CASE kind = "ivf" /\ UNCHANGED dirty
      BY <2>1, <2>2, <3>1, <3>2, <3>5
    <3>6. QED  BY <3>1, <3>3, <3>4, <3>5
  <2>4. CASE Outdated /\ UNCHANGED dir
    <3>1. late.stale => UNCHANGED dirty
      BY <1>33, <2>4 DEF LateStep, LateFlat, LateShard, LateClears, LateRaises
    <3>2. late.stale \/ (kind = "ivf" /\ Renamed)
      BY <2>4 DEF Outdated
    <3>3. QED  BY <2>1, <2>2, <2>4, <3>1, <3>2
  <2>5. QED  BY <2>1, <2>3, <2>4
<1>34. QED  BY <1>0, <1>1, <1>2, <1>3, <1>4, <1>5, <1>6, <1>7, <1>8, <1>9, <1>10, <1>11,
    <1>12, <1>13, <1>14, <1>15, <1>16, <1>17, <1>18, <1>19, <1>20, <1>21, <1>22, <1>23,
    <1>24, <1>25, <1>26, <1>27, <1>28, <1>29, <1>30, <1>31, <1>32,
    <1>33 DEF LateStep, Next

\* An abandoned sync that has written goes on with the same index.
LEMMA LateWroteWith ==
  ASSUME LateInv, LateStep, late'.wrote
  PROVE  late'.stale = late.stale /\ late'.at = late.at
<1>1. late' # NoLate /\ ~LateNext
  <2>1. ~NoLate.wrote
    BY DEF NoLate
  <2>2. late.at # 0
    BY Bounds DEF LateStep, LateFlat, LateShard, LateClears, LateRaises, LateInv
  <2>3. QED  BY <2>1, <2>2, LateNextEffect
<1>2. late' = [late EXCEPT !.wrote = TRUE]
  BY <1>1 DEF LateStep, LateFlat, LateShard, LateClears, LateRaises
<1>3. QED  BY <1>2 DEF LateInv

\* Its file is the shard in memory, unless the shard has been written since.
LEMMA LateCleanStep ==
  ASSUME IInv, CleanInv, LateClean, [Next]_vars,
         FailingSteps \subseteq {"remove", "rename", "replace"}
  PROVE  LateClean'
<1> SUFFICES ASSUME FilesInv, LateFileInv, ~mixed, ~mixed'  PROVE LateFileInv'
  BY MixedStays DEF IInv, CleanInv, LateClean
<1> USE DEF IInv, Renamed, InWrite, disk, queue, index, syncs, history
<1>1. ASSUME UNCHANGED <<late, kind, part, dir, del>>, ~Renamed' => ~Renamed  PROVE LateFileInv'
  BY <1>1 DEF LateFileInv
<1>2. CASE UNCHANGED vars
  BY <1>1, <1>2 DEF vars
<1>3. CASE SyncShard
  <2>1. UNCHANGED <<late, kind, part, del, pc, job>> /\ sync.at \in Shards
    BY <1>3 DEF SyncShard
  <2>2. \A j \in Shards : dir'.file[j] = dir.file[j] \/ dir'.file[j] = part[j]
    BY <1>3, SyncShardEffect
  <2>3. late.wrote => late.at \in Shards
    BY DEF LateInv
  <2>4. QED  BY <2>1, <2>2, <2>3 DEF LateFileInv
<1>4. CASE SyncEnds \/ SyncFails
  <2>1. CASE Lost /\ Leave(dirty)
    <3>1. late'.stale \/ ~late'.wrote
      BY <2>1, LeaveEffect, Bounds DEF LateInv
    <3>2. QED  BY <3>1 DEF LateFileInv
  <2>2. CASE UNCHANGED <<late, kind, part, dir, pc, job>> /\ (del' = del \/ (holder = "delete" /\ sync.at # 0))
    <3>1. holder = "delete" /\ sync.at # 0 => del.stage = "sync"
      BY DEF ControlInv
    <3>2. QED  BY <2>2, <3>1 DEF LateFileInv
  <2>3. sync.at > NShards \/ sync.at \in Shards => sync.at # 0
    BY Bounds, ShardsType
  <2>4. QED  BY <1>4, <2>1, <2>2, <2>3 DEF SyncEnds, SyncFails
<1>5. CASE Put
  <2>1. PICK J : /\ Written(J) /\ DOMAIN part' = 0..NShards
                 /\ \A j \in (0..NShards) \ J : part'[j] = part[j]
    BY <1>5, UpsertEffect DEF Put
  <2>2. UNCHANGED <<kind, dir, del, pc, job>>
    BY <1>5 DEF Put
  <2>3. /\ late'.at = late.at /\ late'.wrote = late.wrote /\ late'.stale = late.stale
        /\ (late'.raced <=> late.raced \/ late.at \in J \cap Shards)
    BY <2>1, WrittenLate
  <2>4. late.wrote => late.at \in Shards /\ late.at \in 0..NShards
    BY Bounds DEF LateInv
  <2>5. QED  BY <2>1, <2>2, <2>3, <2>4 DEF LateFileInv
<1>6. CASE DeleteUnindexes
  <2>1. UNCHANGED <<late, kind, dir, pc, job>> /\ del.stage = "unindex"
    BY <1>6 DEF DeleteUnindexes
  <2>2. late.wrote => late.at \in Shards
    BY DEF LateInv
  <2>3. CASE \A j \in Shards : part'[j] = part[j]
    BY <2>1, <2>2, <2>3 DEF LateFileInv
  <2>4. CASE del'.stage = "written" /\ \A j \in Shards \ {del'.at} : part'[j] = part[j]
    BY <2>1, <2>2, <2>4 DEF LateFileInv
  <2>5. QED  BY <1>6, <2>3, <2>4, UnindexEffect
<1>7. CASE DeleteWritten
  <2>1. UNCHANGED <<kind, part, dir, pc, job>> /\ Written({del.at})
    BY <1>7 DEF DeleteWritten
  <2>2. /\ late'.at = late.at /\ late'.wrote = late.wrote /\ late'.stale = late.stale
        /\ (late'.raced <=> late.raced \/ late.at \in {del.at} \cap Shards)
    BY <2>1, WrittenLate
  <2>3. late.wrote => late.at \in Shards
    BY DEF LateInv
  <2>4. QED  BY <2>1, <2>2, <2>3 DEF LateFileInv
<1>8. CASE DeleteSyncAbandoned
  <2>1. /\ late' = [NoLate EXCEPT !.at = sync.at, !.wrote = sync.wrote, !.raced = sync.raced]
        /\ UNCHANGED <<kind, part, dir, pc, job>> /\ del.stage = "sync"
    BY <1>8 DEF DeleteSyncAbandoned
  <2>2. late'.at = sync.at /\ late'.wrote = sync.wrote /\ late'.raced = sync.raced
    BY <2>1 DEF NoLate
  <2>3. QED  BY <2>1, <2>2 DEF LateFileInv, FilesInv
<1>9. CASE SwapRemove
  <2>1. /\ UNCHANGED <<late, kind, part, del, job>> /\ pc = "remove"
        /\ \A j \in Shards : dir'.file[j] = dir.file[j] \/ dir'.file[j] = NoFile
    BY <1>9 DEF SwapRemove, At
  <2>2. late.wrote => late.at \in Shards
    BY DEF LateInv
  <2>3. QED  BY <2>1, <2>2 DEF LateFileInv
<1>10. CASE SwapRename
  <2>1. pc = "rename" /\ pc' = "catalog" /\ job' = job
    BY <1>10 DEF SwapRename, At, Goes
  <2>2. Renamed'
    BY <2>1 DEF ControlInv
  <2>3. QED  BY <2>2 DEF LateFileInv
<1>11. CASE SwapReplace \/ SwapCatalog \/ SwapBegins \/ Sample
  <2>1. UNCHANGED <<late, kind, part, dir, del, job>>
    BY <1>11 DEF SwapReplace, SwapCatalog, SwapBegins, Sample
  <2>2. ~Renamed' => ~Renamed
    BY <1>11, <2>1 DEF SwapReplace, SwapCatalog, SwapBegins, Sample, At, Goes
  <2>3. QED  BY <1>1, <2>1, <2>2
<1>12. CASE SwapAssign
  <2>1. Leave(dirty \cup ({del.at} \cap Shards))
    BY <1>12 DEF SwapAssign
  <2>2. late'.stale \/ ~late'.wrote
    BY <2>1, LeaveEffect, Bounds DEF LateInv
  <2>3. QED  BY <2>2 DEF LateFileInv
<1>13. CASE Stop
  <2>1. UNCHANGED <<late, kind, part, dir, del, job>> /\ holder = "none"
    BY <1>13 DEF Stop
  <2>2. ~Renamed
    BY <2>1 DEF ControlInv, SwapSteps
  <2>3. QED  BY <1>1, <2>1, <2>2
<1>14. CASE Crash
  BY <1>14 DEF Crash, LateFileInv, NoLate
<1>15. CASE Open
  <2>1. ~up /\ late' = late
    BY <1>15 DEF Open
  <2>2. late.stale \/ ~late.wrote
    BY <2>1, Bounds DEF LateInv
  <2>3. QED  BY <2>1, <2>2 DEF LateFileInv
<1>16. CASE SwapFails
  <2>1. UNCHANGED <<late, kind, part, dir, del>> /\ pc \in FailingSteps
    BY <1>16 DEF SwapFails
  <2>2. ~Renamed
    BY <2>1
  <2>3. QED  BY <1>1, <2>1, <2>2
<1>17. CASE JobStart
  <2>1. UNCHANGED <<late, kind, part, del>> /\ (UNCHANGED dir \/ kind = "flat") /\ pc = "idle"
    BY <1>17 DEF JobStart, At
  <2>2. QED  BY <1>1, <2>1 DEF LateFileInv
<1>18. CASE LateStep
  <2>1. UNCHANGED <<kind, part, pc, job, del>> /\ (~Outdated \/ UNCHANGED dir)
    BY <1>18, LateEffect
  <2>2. Renamed' <=> Renamed
    BY <2>1
  <2> HIDE DEF Renamed
  <2>3. CASE ~Outdated
    <3>1. late'.wrote => late'.at = late.at /\ dir'.file[late.at] = part[late.at]
      BY <1>18, <2>3, LateWrites
    <3>2. QED  BY <2>1, <3>1 DEF LateFileInv
  <2>4. CASE Outdated
    <3>1. late'.wrote => late'.stale = late.stale
      BY <1>18, LateWroteWith
    <3>2. late.stale \/ (kind = "ivf" /\ Renamed)
      BY <2>4 DEF Outdated
    <3>3. QED  BY <2>1, <2>2, <3>1, <3>2 DEF LateFileInv
  <2>5. QED  BY <2>3, <2>4
<1>19. CASE Backfill \/ Stream \/ JobFinish
  <2>1. UNCHANGED <<late, kind, part, dir, del>> /\ pc \in {"backfill", "stream", "finish"}
    BY <1>19 DEF Backfill, Stream, JobFinish, At
  <2>2. QED  BY <1>1, <2>1
<1>20. ASSUME NEW op \in Asks, Ask(op)  PROVE LateFileInv'
  <2>1. /\ job = "none" /\ UNCHANGED <<late, kind, part, dir, del, pc>>
    BY <1>20 DEF Ask
  <2>2. ~Renamed
    BY <2>1 DEF ControlInv, SwapSteps
  <2>3. QED  BY <1>1, <2>1, <2>2
<1>21. CASE SyncFlat \/ SyncClears \/ Flush
  BY <1>1, <1>21 DEF SyncFlat, SyncClears, Flush
<1>22. CASE ProbeBegins \/ ProbeReads \/ ProbeStores
  BY <1>1, <1>22 DEF ProbeBegins, ProbeReads, ProbeStores
<1>23. CASE DeleteBegins \/ DeleteCommits \/ DeleteAbandoned
  <2>1. UNCHANGED <<late, kind, part, dir, pc, job>>
    BY <1>23 DEF DeleteBegins, DeleteCommits, DeleteAbandoned
  <2>2. InWrite(late.at) => InWrite(late.at)'
    BY <1>23, <2>1 DEF DeleteBegins, DeleteCommits, DeleteAbandoned, Shape
  <2>3. QED  BY <2>1, <2>2 DEF LateFileInv
<1>24. QED  BY <1>2, <1>3, <1>4, <1>5, <1>6, <1>7, <1>8, <1>9, <1>10, <1>11, <1>12, <1>13, <1>14,
    <1>15, <1>16, <1>17, <1>18, <1>19, <1>20, <1>21, <1>22, <1>23 DEF Next, LateStep

-----------------------------------------------------------------------------
\* The invariant holds at first.
LEMMA InitInv == Init => IInv /\ CleanInv /\ LateClean
<1> SUFFICES ASSUME Init  PROVE IInv /\ CleanInv /\ LateClean
  OBVIOUS
<1> USE DEF Init, NoSync, NoDel, NoProbe, NoBuild
<1>1. Shape
  <2>1. /\ DOMAIN part = 0..NShards /\ DOMAIN cache = Shards
        /\ dirty \subseteq Shards /\ kind \in {"flat", "ivf"} /\ up \in BOOLEAN
    OBVIOUS
  <2>2. DOMAIN dir = {"centroids", "file"} /\ DOMAIN dir.file = Shards
    BY DEF NoDir
  <2>3. /\ DOMAIN del = {"stage", "row", "at", "orphan"} /\ DOMAIN sync = {"at", "wrote", "raced"}
        /\ DOMAIN probe = {"stage", "at", "raced", "ids"}
        /\ sync.at \in 0..(NShards + 1) /\ sync.wrote \in BOOLEAN /\ sync.raced \in BOOLEAN
        /\ probe.at \in 0..NShards /\ probe.raced \in BOOLEAN
        /\ del.at \in 0..NShards /\ del.orphan \in BOOLEAN
    BY Bounds
  <2>4. DOMAIN new = {"part", "seen", "last", "todo", "late"} /\ DOMAIN new.part = 0..NShards
    BY DEF Empty
  <2>5. QED  BY <2>1, <2>2, <2>3, <2>4 DEF Shape
<1>2. ControlInv
  BY DEF ControlInv, SwapSteps
<1>3. CacheInv
  BY DEF CacheInv
<1>4. CleanInv
  <2>1. ~Renamed /\ sync.wrote = FALSE
    BY DEF Renamed
  <2>2. kind = "ivf" => \A j \in Shards : dir.file[j] = part[j]
    OBVIOUS
  <2>3. QED  BY <2>1, <2>2 DEF CleanInv, FilesInv
<1>5. LateInv /\ LateClean
  BY Bounds DEF NoLate, LateInv, LateClean, LateFileInv
<1>6. QED  BY <1>1, <1>2, <1>3, <1>4, <1>5 DEF IInv

\* The inductive invariant: shapes, who holds the lock, and the id caches.
THEOREM SwapInvariant == Spec => []IInv
<1>1. Init => IInv
  BY InitInv
<1>2. IInv /\ [Next]_vars => IInv'
  BY ShapeStep, ControlStep, CacheStep, LateInvStep DEF IInv
<1>3. QED  BY <1>1, <1>2, PTL DEF Spec

\* No id list that searches have cached for a shard outlives a write to the shard,
\* however the reads for it, the writes and the swaps interleave (_shard_ids).
THEOREM ShardCachesAreCurrent == Spec => []ShardCacheIsCurrent
<1>1. IInv => ShardCacheIsCurrent
  BY DEF IInv, CacheInv, InWrite, ShardCacheIsCurrent
<1>2. QED  BY <1>1, SwapInvariant, PTL

\* A shard that is not dirty is on disk as it is in memory, through syncs that writes
\* race and that fail or run on without their caller, crashes and swaps, until such a sync
\* has written over another index; provided that a swap which has renamed its files does
\* not fail before it assigns the new index.
THEOREM CleanShards ==
  ASSUME FailingSteps \subseteq {"remove", "rename", "replace"}
  PROVE  Spec => []CleanShardsAreOnDisk
<1>1. Init => IInv /\ CleanInv /\ LateClean
  BY InitInv
<1>2. IInv /\ CleanInv /\ LateClean /\ [Next]_vars => (IInv /\ CleanInv /\ LateClean)'
  BY ShapeStep, ControlStep, CacheStep, LateInvStep, CleanStep, LateCleanStep DEF IInv
<1>3. IInv /\ CleanInv => CleanShardsAreOnDisk
  BY DEF IInv, ControlInv, CleanInv, FilesInv, CleanShardsAreOnDisk, InWrite, Renamed, SwapSteps
<1>4. QED  BY <1>1, <1>2, <1>3, PTL DEF Spec

-----------------------------------------------------------------------------
\* Rows that are not lost.

\* Ids are unique and never reused under a delete that has yet to unindex its row.
RowsInv ==
  /\ IsFiniteSet(rec) /\ rec \subseteq (Nat \ {0}) \X (Nat \ {0})
  /\ \A r, q \in rec : r[1] = q[1] => r = q
  /\ put \in [v : Nat, applied : BOOLEAN] /\ used \in [Events -> Nat]
  /\ put.applied => up /\ put.v # 0
  /\ del.stage = "unindex" => del.row[1] \notin Ids(rec)

\* A function on a finite set is greatest somewhere.
LEMMA SomeGreatest ==
  ASSUME NEW S, S # {}, IsFiniteSet(S), NEW f \in [S -> Int]
  PROVE  \E m \in S : \A n \in S : f[n] <= f[m]
<1> DEFINE Above(m) == {n \in S : f[m] < f[n]}
           F == {Above(m) : m \in S}
<1>1. F \subseteq FiniteSubsetsOf(S) /\ F # {}
  <2>1. ASSUME NEW m \in S  PROVE Above(m) \in FiniteSubsetsOf(S)
    <3>1. Above(m) \in SUBSET S
      OBVIOUS
    <3>2. IsFiniteSet(Above(m))
      BY <3>1, FS_Subset
    <3>3. QED  BY <3>1, <3>2 DEF FiniteSubsetsOf
  <2> HIDE DEF Above
  <2>2. QED  BY <2>1
<1>2. PICK X \in F : \A Y \in F : <<Y, X>> \notin StrictSubsetOrdering(S)
  <2> DEFINE R == StrictSubsetOrdering(S)
             T == FiniteSubsetsOf(S)
  <2>1. IsWellFoundedOn(R, T)
    BY FS_StrictSubsetOrderingWellFounded
  <2> HIDE DEF R, T, F
  <2>2. F \subseteq T /\ F # {}
    BY <1>1 DEF T
  <2>3. \E Z \in F : \A Y \in F : ~(<<Y, Z>> \in R)
    BY <2>1, <2>2, WFMin
  <2>4. QED  BY <2>3 DEF R
<1>3. PICK m \in S : X = Above(m)
  OBVIOUS
<1>4. ASSUME NEW n \in S, ~(f[n] <= f[m])  PROVE FALSE
  <2>1. f[n] \in Int /\ f[m] \in Int /\ f[m] < f[n]
    BY <1>4
  <2>2. \A k \in S : f[k] \in Int /\ (f[n] < f[k] => f[m] < f[k])
    BY <2>1
  <2>3. n \in Above(m) /\ n \notin Above(n)
    BY <2>1
  <2>4. Above(n) \subseteq Above(m)
    BY <2>2
  <2>5. <<Above(n), X>> \in StrictSubsetOrdering(S)
    BY <1>3, <2>3, <2>4 DEF StrictSubsetOrdering
  <2>6. QED  BY <1>2, <2>5
<1>5. QED  BY <1>4

\* So there are a greatest number and a row with the least id.
LEMMA MaxIsGreatest ==
  ASSUME NEW S, S \subseteq Nat, S # {}, IsFiniteSet(S)
  PROVE  Max(S) \in S /\ \A n \in S : n <= Max(S)
<1> DEFINE f == [n \in S |-> n]
<1>1. f \in [S -> Int] /\ \A n \in S : f[n] = n
  OBVIOUS
<1> HIDE DEF f
<1>2. \E k \in S : \A n \in S : f[n] <= f[k]
  BY <1>1, SomeGreatest
<1>3. \E k \in S : \A n \in S : k >= n
  BY <1>1, <1>2
<1>4. QED  BY <1>3 DEF Max

\* ... in a set of rows.
LEMMA LeastRow ==
  ASSUME NEW S, IsFiniteSet(S), S \subseteq (Nat \ {0}) \X (Nat \ {0}), S # {}
  PROVE  \E r \in S : \A q \in S : r[1] <= q[1]
<1> DEFINE f == [r \in S |-> -r[1]]
<1>1. \A r \in S : r[1] \in Nat
  OBVIOUS
<1>2. f \in [S -> Int] /\ \A r \in S : f[r] = -r[1]
  BY <1>1
<1> HIDE DEF f
<1>3. PICK r \in S : \A q \in S : f[q] <= f[r]
  BY <1>2, SomeGreatest
<1>4. QED  BY <1>1, <1>2, <1>3

\* A new row gets an id above all others.
LEMMA NextIdIsNew ==
  ASSUME RowsInv
  PROVE  NextId \in Nat \ {0} /\ \A r \in rec : r[1] < NextId
<1> DEFINE S == {0} \cup Ids(rec)
<1>1. S \subseteq Nat /\ S # {} /\ \A r \in rec : r[1] \in S
  BY DEF RowsInv, Ids
<1>2. IsFiniteSet(S)
  <2>1. IsFiniteSet(Ids(rec))
    <3> DEFINE f == [r \in rec |-> r[1]]
    <3>1. f \in Surjection(rec, Ids(rec))
      BY DEF Ids, Surjection
    <3>2. IsFiniteSet(rec)
      BY DEF RowsInv
    <3> HIDE DEF f
    <3>3. QED  BY <3>1, <3>2, FS_Surjection
  <2>2. QED  BY <2>1, FS_Singleton, FS_Union
<1> HIDE DEF S
<1>3. Max(S) \in S /\ \A n \in S : n <= Max(S)
  BY <1>1, <1>2, MaxIsGreatest
<1> DEFINE m == Max(S)
<1>4. NextId = 1 + m
  BY DEF NextId, S
<1> HIDE DEF m
<1>5. m \in Nat /\ \A r \in rec : r[1] \in Nat /\ r[1] <= m
  BY <1>1, <1>3 DEF m
<1>6. QED  BY <1>4, <1>5

\* The one that an upsert removes first.
Replaced(v) == {r \in rec : r[2] = v}

\* What an upsert does to the rows: those of other puts stay, and one is new.
LEMMA UpsertRows ==
  ASSUME Shape, RowsInv, NEW v \in Nat \ {0}, Upsert(v)
  PROVE  /\ rec' = (rec \ Replaced(v)) \cup {<<NextId, v>>}
         /\ IsFiniteSet(rec') /\ rec' \subseteq (Nat \ {0}) \X (Nat \ {0})
         /\ \A r, q \in rec' : r[1] = q[1] => r = q
<1>1. rec' = (rec \ Replaced(v)) \cup {<<NextId, v>>}
  BY DEF Upsert, Replaced
<1>2. IsFiniteSet(rec')
  <2>1. IsFiniteSet(rec \ Replaced(v))
    BY FS_Subset DEF RowsInv
  <2>2. QED  BY <1>1, <2>1, FS_AddElement
<1>3. rec' \subseteq (Nat \ {0}) \X (Nat \ {0})
  BY <1>1, NextIdIsNew DEF RowsInv
<1>4. \A r, q \in rec' : r[1] = q[1] => r = q
  <2>1. \A r \in rec : r[1] # NextId
    BY NextIdIsNew DEF RowsInv
  <2>2. QED  BY <1>1, <2>1 DEF RowsInv
<1>5. QED  BY <1>1, <1>2, <1>3, <1>4

\* Whether the sync that runs, or the one before the last write to a part of the index,
\* has brought its file up to date; or a sync that its caller has left.
LateSynced(j) == j = late.at /\ late.wrote /\ ~late.raced /\ ~late.stale
Synced(j) ==
  \/ sync.at > NShards
  \/ j \in Shards /\ (j < sync.at \/ (j = sync.at /\ sync.wrote) \/ j \notin dirty \/ LateSynced(j))

\* The step brings no shard's file up to date in the eyes of an abandoned sync.
LateKept == \A j \in Shards : LateSynced(j)' => Synced(j)
LEMMA LateIsKept ==
  ASSUME Shape, LateInv, late' = late \/ (\E J : late' = Race(late, J)) \/ ~late'.wrote \/ late'.stale
  PROVE  LateKept
<1>1. ASSUME NEW J, late' = Race(late, J), NEW j \in Shards, LateSynced(j)'  PROVE Synced(j)
  BY <1>1 DEF LateSynced, Synced, Race, LateInv
<1>2. QED  BY <1>1 DEF LateKept, LateSynced, Synced

\* ... and what it does to the index: it leaves the other rows where they are, and
\* the new row goes to a part that counts as changed.
LEMMA UpsertIndex ==
  ASSUME Shape, RowsInv, LateInv, NEW v \in Nat \ {0}, Upsert(v)
  PROVE  /\ \A r \in rec \ Replaced(v), j \in 0..NShards : r \in part[j] => r \in part'[j]
         /\ \E j \in Parts(kind) :
             <<NextId, v>> \in part'[j] /\ (j \in Shards => j \in dirty' /\ ~LateSynced(j)')
         /\ dirty \subseteq dirty' /\ LateKept
<1> DEFINE old  == {r \in rec : r[2] = v}
           row  == <<NextId, v>>
           kept == IF old = {} THEN part ELSE Removed(part, CHOOSE id \in Ids(old) : TRUE)
<1>1. PICK j \in Parts(kind) :
        /\ part' = [kept EXCEPT ![j] = @ \cup {row}]
        /\ Written({j} \cup {i \in DOMAIN part : kept[i] # part[i]})
  BY DEF Upsert
<1>2. DOMAIN kept = 0..NShards
  BY RemovedEffect DEF Shape
<1>3. j \in 0..NShards
  BY <1>1, Bounds DEF Parts
<1>4. ASSUME NEW r \in rec \ Replaced(v), NEW i \in 0..NShards, r \in part[i]
      PROVE  r \in kept[i]
  <2>1. CASE old = {}
    BY <1>4, <2>1
  <2>2. CASE old # {}
    <3> DEFINE id == CHOOSE id \in Ids(old) : TRUE
    <3>1. id \in Ids(old)
      BY <2>2 DEF Ids
    <3>2. r[1] # id
      BY <1>4, <3>1 DEF Ids, RowsInv, Replaced
    <3> HIDE DEF id
    <3>3. r \in Removed(part, id)[i]
      BY <1>4, <3>2 DEF Removed, Without, Shape
    <3>4. QED  BY <2>2, <3>3 DEF id
  <2>3. QED  BY <2>1, <2>2
<1> HIDE DEF kept, row, old
<1>5. row \in part'[j] /\ \A i \in 0..NShards : kept[i] \subseteq part'[i]
  BY <1>1, <1>2, <1>3
<1>6. dirty \subseteq dirty' /\ (j \in Shards => j \in dirty')
  BY <1>1, WrittenEffect
<1>7. LateKept
  BY <1>1, LateIsKept DEF Written
<1>8. j \in Shards => ~LateSynced(j)'
  BY <1>1, WrittenLate DEF LateSynced
<1>9. QED  BY <1>1, <1>4, <1>5, <1>6, <1>7, <1>8 DEF row

\* An event is counted.
LEMMA SpendEffect ==
  ASSUME used \in [Events -> Nat], NEW e \in Events, Spend(e)
  PROVE  used' \in [Events -> Nat] /\ used'[e] # 0
BY DEF Spend

\* The rows that the ingest job of an upsert writes.
LEMMA PutEffect ==
  ASSUME RowsInv, Put
  PROVE  /\ put'.v \in Nat \ {0} /\ put'.applied = TRUE /\ put' \in [v : Nat, applied : BOOLEAN]
         /\ used' \in [Events -> Nat] /\ Upsert(put'.v)
         /\ put.v # 0 => put'.v = put.v
<1> DEFINE v == IF put.v # 0 THEN put.v ELSE Stored + used'["put"]
<1>1. put' = [v |-> v, applied |-> TRUE] /\ Upsert(put'.v)
  BY DEF Put
<1>2. used' \in [Events -> Nat] /\ (put.v = 0 => used'["put"] # 0)
  <2>1. CASE used' = used /\ put.v # 0
    BY <2>1 DEF RowsInv
  <2>2. CASE Spend("put")
    BY <2>2, SpendEffect DEF RowsInv, Events
  <2>3. QED  BY <2>1, <2>2 DEF Put
<1>3. v \in Nat \ {0} /\ (put.v # 0 => v = put.v)
  BY <1>2, SwapAssumption DEF RowsInv, Events
<1> HIDE DEF v
<1>4. QED  BY <1>1, <1>2, <1>3

\* Rows are inserted by puts and removed by deletes only.
LEMMA RowsStep ==
  ASSUME IInv, RowsInv, [Next]_vars
  PROVE  RowsInv'
<1> DEFINE Quiet == rec' = rec /\ put' = put /\ up' = up /\ used' \in [Events -> Nat]
<1> USE DEF disk, queue, index, syncs, history
<1>1. ASSUME Quiet, del'.stage = "unindex" => del.stage = "unindex" /\ del'.row = del.row
      PROVE  RowsInv'
  BY <1>1 DEF RowsInv, Ids
<1>2. used \in [Events -> Nat] /\ put \in [v : Nat, applied : BOOLEAN]
  BY DEF RowsInv
<1>3. {"down", "put", "delete", "ask", "probe", "fault"} = Events
  BY DEF Events
<1>4. ASSUME rec' = rec, used' \in [Events -> Nat], del'.stage = "unindex" => del.stage = "unindex" /\ del'.row = del.row,
             put' \in {put, NoPut, [put EXCEPT !.applied = FALSE]}, ~up' => ~put'.applied, up' => up
      PROVE  RowsInv'
  <2>1. put' \in [v : Nat, applied : BOOLEAN]
    <3>1. NoPut \in [v : Nat, applied : BOOLEAN]
      BY DEF NoPut
    <3>2. [put EXCEPT !.applied = FALSE] \in [v : Nat, applied : BOOLEAN]
      BY <1>2
    <3>3. QED  BY <1>2, <1>4, <3>1, <3>2
  <2>2. put'.applied => up' /\ put'.v # 0
    BY <1>2, <1>4 DEF NoPut, RowsInv, IInv, Shape
  <2>3. QED  BY <1>4, <2>1, <2>2 DEF RowsInv, Ids
<1>10. CASE UNCHANGED vars
  BY <1>1, <1>2, <1>10 DEF vars
<1>11. CASE SyncFlat \/ SyncShard \/ SyncClears
  BY <1>1, <1>2, <1>11 DEF SyncFlat, SyncShard, SyncClears
<1>12. CASE SyncEnds
  <2>1. /\ rec' = rec /\ used' = used
        /\ put' = IF holder \in {"flush", "stop"} /\ put.applied THEN NoPut ELSE put
    BY <1>12 DEF SyncEnds
  <2>2. CASE holder = "stop"
    <3>1. del'.stage = "none" /\ up' = FALSE
      BY <1>12, <2>2 DEF SyncEnds, Lost, NoDel
    <3>2. put'.applied = FALSE
      BY <1>2, <2>1, <2>2 DEF NoPut
    <3>3. QED  BY <1>2, <1>4, <2>1, <3>1, <3>2
  <2>3. CASE holder # "stop"
    <3>1. del' = (IF holder = "delete" THEN NoDel ELSE del) /\ up' = up
      BY <1>12, <2>3 DEF SyncEnds
    <3>2. del'.stage = "unindex" => del.stage = "unindex" /\ del'.row = del.row
      BY <3>1 DEF NoDel
    <3>3. QED  BY <1>2, <1>4, <2>1, <3>1, <3>2 DEF RowsInv
  <2>4. QED  BY <2>2, <2>3
<1>13. CASE SyncFails
  <2>1. rec' = rec /\ used' \in [Events -> Nat]
    BY <1>2, <1>3, <1>13, SpendEffect DEF SyncFails
  <2>2. CASE holder = "stop"
    <3>1. del'.stage = "none" /\ up' = FALSE /\ put' = [put EXCEPT !.applied = FALSE]
      BY <1>13, <2>2 DEF SyncFails, Lost, NoDel
    <3>2. put'.applied = FALSE
      BY <1>2, <3>1
    <3>3. QED  BY <1>4, <2>1, <3>1, <3>2
  <2>3. CASE holder # "stop"
    <3>1. del' = (IF holder = "delete" THEN NoDel ELSE del) /\ up' = up /\ put' = put
      BY <1>13, <2>3 DEF SyncFails
    <3>2. del'.stage = "unindex" => del.stage = "unindex" /\ del'.row = del.row
      BY <3>1 DEF NoDel
    <3>3. QED  BY <1>1, <2>1, <3>1, <3>2
  <2>4. QED  BY <2>2, <2>3
<1>14. CASE Put
  <2>1. /\ put'.v \in Nat \ {0} /\ put' \in [v : Nat, applied : BOOLEAN]
        /\ used' \in [Events -> Nat] /\ Upsert(put'.v)
    BY <1>14, PutEffect
  <2>2. up' /\ del' = del /\ del.stage # "unindex"
    BY <1>14 DEF Put
  <2>3. /\ IsFiniteSet(rec') /\ rec' \subseteq (Nat \ {0}) \X (Nat \ {0})
        /\ \A r, q \in rec' : r[1] = q[1] => r = q
    BY <2>1, UpsertRows DEF IInv
  <2>4. QED  BY <2>1, <2>2, <2>3 DEF RowsInv
<1>15. CASE Flush \/ Sample
  BY <1>1, <1>2, <1>15 DEF Flush, Sample
<1>16. CASE DeleteBegins
  <2>1. rec' = rec /\ put' = put /\ up' = up /\ used' \in [Events -> Nat]
    BY <1>2, <1>3, <1>16, SpendEffect DEF DeleteBegins
  <2>2. del'.stage = "commit"
    BY <1>16 DEF DeleteBegins, NoDel
  <2>3. QED  BY <1>1, <2>1, <2>2
<1>17. CASE DeleteCommits
  <2>1. PICK r \in rec : rec' = rec \ {r} /\ del' = [del EXCEPT !.stage = "unindex", !.row = r]
    BY <1>17 DEF DeleteCommits
  <2>2. put' = put /\ up' = up /\ used' = used
    BY <1>17 DEF DeleteCommits
  <2>3. del'.row = r
    BY <2>1 DEF IInv, Shape
  <2>4. IsFiniteSet(rec')
    BY <2>1, FS_Subset DEF RowsInv
  <2>5. QED  BY <2>1, <2>2, <2>3, <2>4 DEF RowsInv, Ids
<1>18. CASE DeleteUnindexes
  <2>1. del'.stage # "unindex"
    BY <1>18, UnindexEffect, ThreadEndsEffect DEF IInv
  <2>2. QED  BY <1>1, <1>2, <1>18, <2>1 DEF DeleteUnindexes
<1>19. CASE DeleteWritten
  <2>1. del'.stage # "unindex"
    BY <1>19, ThreadEndsEffect DEF IInv, DeleteWritten
  <2>2. QED  BY <1>1, <1>2, <1>19, <2>1 DEF DeleteWritten
<1>20. CASE DeleteAbandoned \/ DeleteSyncAbandoned
  BY <1>1, <1>2, <1>20 DEF DeleteAbandoned, DeleteSyncAbandoned, NoDel, IInv, Shape
<1>21. CASE ProbeBegins
  BY <1>1, <1>2, <1>3, <1>21, SpendEffect DEF ProbeBegins
<1>22. CASE ProbeReads \/ ProbeStores
  BY <1>1, <1>2, <1>22 DEF ProbeReads, ProbeStores
<1>23. ASSUME NEW op \in Asks, Ask(op)  PROVE RowsInv'
  BY <1>1, <1>2, <1>3, <1>23, SpendEffect DEF Ask
<1>24. CASE JobStart
  <2>1. used' \in [Events -> Nat]
    BY <1>2, <1>3, <1>24, SpendEffect DEF JobStart
  <2>2. QED  BY <1>1, <1>24, <2>1 DEF JobStart
<1>25. CASE Backfill
  <2>1. used' \in [Events -> Nat]
    BY <1>2, <1>3, <1>25, SpendEffect DEF Backfill
  <2>2. QED  BY <1>1, <1>25, <2>1 DEF Backfill
<1>26. CASE Stream
  BY <1>1, <1>2, <1>26 DEF Stream
<1>27. CASE SwapBegins \/ SwapRemove \/ SwapRename \/ SwapReplace \/ SwapCatalog \/ JobFinish
  BY <1>1, <1>2, <1>27 DEF SwapBegins, SwapRemove, SwapRename, SwapReplace, SwapCatalog, JobFinish
<1>28. CASE SwapAssign
  <2>1. del'.stage = del.stage /\ del'.row = del.row
    BY <1>28 DEF SwapAssign, IInv, Shape
  <2>2. QED  BY <1>1, <1>2, <1>28, <2>1 DEF SwapAssign
<1>29. CASE SwapFails
  BY <1>1, <1>2, <1>3, <1>29, SpendEffect DEF SwapFails
<1>30. CASE Stop
  BY <1>1, <1>2, <1>3, <1>30, SpendEffect DEF Stop
<1>31. CASE Crash
  <2>1. rec' = rec /\ used' \in [Events -> Nat] /\ put' = [put EXCEPT !.applied = FALSE]
    BY <1>2, <1>3, <1>31, SpendEffect DEF Crash
  <2>2. del'.stage = "none" /\ up' = FALSE
    BY <1>31 DEF Crash, Lost, NoDel
  <2>3. put'.applied = FALSE
    BY <1>2, <2>1
  <2>4. QED  BY <1>4, <2>1, <2>2, <2>3
<1>32. CASE Open
  <2>1. ~up /\ up' /\ put' = put /\ rec' = rec /\ used' = used /\ del' = del
    BY <1>32 DEF Open
  <2>2. QED  BY <2>1 DEF RowsInv, Ids
<1>33. CASE LateStep
  <2>1. UNCHANGED <<rec, queue, up, del>>
    BY <1>33, LateEffect DEF IInv
  <2>2. used' \in [Events -> Nat]
    BY <1>2, <1>3, <1>33, SpendEffect DEF LateStep, LateFlat, LateShard, LateClears, LateRaises
  <2>3. QED  BY <1>1, <2>1, <2>2
<1>34. QED  BY <1>10, <1>11, <1>12, <1>13, <1>14, <1>15, <1>16, <1>17, <1>18, <1>19, <1>20, <1>21,
    <1>22, <1>23, <1>24, <1>25, <1>26, <1>27, <1>28, <1>29, <1>30, <1>31, <1>32, <1>33
    DEF Next, LateStep

\* The kinds of jobs, and of indexes that the catalog names.
KindInv == job \in {"none", "attach", "retune", "detach"} /\ catalog \in {"flat", "ivf"}

\* No step leaves these kinds.
LEMMA KindStep ==
  ASSUME KindInv, [Next]_vars
  PROVE  KindInv'
<1> USE DEF KindInv, disk, queue, index, syncs, history
<1>1. CASE UNCHANGED vars
  BY <1>1 DEF vars
<1>2. CASE SyncFlat \/ SyncShard \/ SyncClears \/ SyncEnds \/ SyncFails \/ Put \/ Flush
  BY <1>2 DEF SyncFlat, SyncShard, SyncClears, SyncEnds, SyncFails, Put, Flush
<1>3. CASE DeleteBegins \/ DeleteCommits \/ DeleteUnindexes \/ DeleteWritten \/ DeleteAbandoned
              \/ DeleteSyncAbandoned
  BY <1>3 DEF DeleteBegins, DeleteCommits, DeleteUnindexes, DeleteWritten, DeleteAbandoned,
    DeleteSyncAbandoned
<1>4. CASE ProbeBegins \/ ProbeReads \/ ProbeStores \/ Stop \/ Crash \/ Open
  BY <1>4 DEF ProbeBegins, ProbeReads, ProbeStores, Stop, Crash, Open
<1>5. ASSUME NEW op \in Asks, Ask(op)  PROVE KindInv'
  BY <1>5, SwapAssumption DEF Ask
<1>6. CASE JobStart \/ Sample \/ Backfill \/ Stream \/ SwapBegins
  BY <1>6 DEF JobStart, Sample, Backfill, Stream, SwapBegins, Fails
<1>7. CASE SwapRemove \/ SwapRename \/ SwapReplace \/ SwapCatalog \/ SwapAssign \/ SwapFails \/ JobFinish
  BY <1>7 DEF SwapRemove, SwapRename, SwapReplace, SwapCatalog, SwapAssign, SwapFails, JobFinish, Fails
<1>8. CASE LateFlat \/ LateShard \/ LateClears \/ LateRaises
  BY <1>8 DEF LateFlat, LateShard, LateClears, LateRaises
<1>9. QED  BY <1>1, <1>2, <1>3, <1>4, <1>5, <1>6, <1>7, <1>8 DEF Next

\* The index being built, while nothing is ingested: it has every row it has seen that
\* is still there, and in the end it has seen every row. The shards are of an attach,
\* the flat part of a detach. Past its commit point on disk it is what the files are,
\* unless an abandoned sync has written to them.
Building == {"sample", "backfill", "stream", "swap"} \cup SwapSteps
BuildInv ==
  /\ pc \in Building => put.v = 0
  /\ pc \notin Building => new = NoBuild
  /\ \A r \in rec : r[1] \in new.seen => r \in Entries(new.part)
  /\ pc = "sample" => ~new.late
  /\ pc = "backfill" /\ new.late => \A r \in rec : r[1] \in new.seen \/ r \in new.todo
  /\ pc \in {"swap"} \cup SwapSteps => \A r \in rec : r[1] \in new.seen
  /\ pc \in Building /\ job = "detach" => kind = "ivf" /\ \A j \in Shards : new.part[j] = {}
  /\ pc \in Building /\ job # "detach" => (job = "retune" => kind = "flat") /\ new.part[0] = {}
  /\ pc \in {"catalog", "assign"} /\ ~mixed =>
       IF job = "detach" THEN flat = new.part[0]
       ELSE dir.centroids /\ \A j \in Shards : dir.file[j] = new.part[j]

\* A build that has not begun has nothing.
LEMMA NoBuildEffect ==
  NoBuild.seen = {} /\ NoBuild.late = FALSE /\ \A j \in 0..NShards : NoBuild.part[j] = {}
BY DEF NoBuild, Empty

\* Rows join the index that is built, in the parts its kind has.
LEMMA AddsBuild ==
  ASSUME Shape, NEW E, Adds(E)
  PROVE  /\ new'.seen = new.seen \cup Ids(E) /\ new'.late = new.late
         /\ Entries(new'.part) = Entries(new.part) \cup E
         /\ \A j \in (0..NShards) \ Parts(IF job = "detach" THEN "flat" ELSE "ivf") :
              new'.part[j] = new.part[j]
<1> DEFINE K == Parts(IF job = "detach" THEN "flat" ELSE "ivf")
<1>1. PICK f \in Shard(E) :
        new' = [new EXCEPT !.part = [j \in DOMAIN @ |-> @[j] \cup {e \in E : f[e] = j}],
                           !.seen = @ \cup Ids(E), !.todo = {},
                           !.last = Max({@} \cup Ids(E))]
  BY DEF Adds
<1> DEFINE p == [j \in DOMAIN new.part |-> new.part[j] \cup {e \in E : f[e] = j}]
           s == new.seen \cup Ids(E)
           l == Max({new.last} \cup Ids(E))
<1>2. new' = [new EXCEPT !.part = p, !.seen = s, !.todo = {}, !.last = l]
  BY <1>1
<1>3. \A e \in E : f[e] \in K
  BY DEF Shard
<1>4. K \subseteq 0..NShards
  BY Bounds DEF Parts
<1> HIDE DEF K
<1>5. DOMAIN p = 0..NShards /\ \A j \in 0..NShards : p[j] = new.part[j] \cup {e \in E : f[e] = j}
  BY DEF Shape
<1> HIDE DEF p
<1>6. (UNION {p[j] : j \in 0..NShards}) = (UNION {new.part[j] : j \in 0..NShards}) \cup E
  <2>1. \A e \in E : f[e] \in 0..NShards /\ e \in p[f[e]]
    BY <1>3, <1>4, <1>5
  <2>2. \A j \in 0..NShards : new.part[j] \subseteq p[j] /\ p[j] \subseteq new.part[j] \cup E
    BY <1>5
  <2>3. QED  BY <2>1, <2>2
<1>7. ASSUME NEW j \in (0..NShards) \ K  PROVE p[j] = new.part[j]
  <2>1. {e \in E : f[e] = j} = {}
    BY <1>3
  <2>2. QED  BY <1>5, <2>1
<1> HIDE DEF s, l
<1>8. new'.seen = s /\ new'.late = new.late /\ new'.part = p
  BY <1>2 DEF Shape
<1>9. QED  BY <1>6, <1>7, <1>8 DEF Entries, K, s

\* The rows that a late backfill or the stream adds are rows the collection has.
LEMMA AddsRows ==
  ASSUME Shape, BuildInv, NEW E, Adds(E),
         \A r \in rec : r[1] \in Ids(E) => r[1] \in new.seen \/ r \in E
  PROVE  \A r \in rec : r[1] \in new'.seen => r \in Entries(new'.part)
<1>1. new'.seen = new.seen \cup Ids(E) /\ Entries(new'.part) = Entries(new.part) \cup E
  BY AddsBuild
<1>2. \A r \in rec : r[1] \in new.seen => r \in Entries(new.part)
  BY DEF BuildInv
<1>3. QED  BY <1>1, <1>2

\* ... and they leave the parts of the other kind empty.
LEMMA AddsParts ==
  ASSUME Shape, BuildInv, NEW E, Adds(E), pc \in Building
  PROVE  IF job = "detach" THEN \A j \in Shards : new'.part[j] = {} ELSE new'.part[0] = {}
<1>1. CASE job = "detach"
  <2>1. \A j \in Shards : j \in (0..NShards) \ Parts("flat")
    BY Bounds DEF Parts
  <2>2. QED  BY <1>1, <2>1, AddsBuild DEF BuildInv
<1>2. CASE job # "detach"
  <2>1. 0 \in (0..NShards) \ Parts("ivf")
    BY Bounds DEF Parts
  <2>2. QED  BY <1>2, <2>1, AddsBuild DEF BuildInv
<1>3. QED  BY <1>1, <1>2

\* The next block of the stream is a row of the collection.
LEMMA StreamBlock ==
  ASSUME RowsInv, NEW rest \in SUBSET rec, rest # {}
  PROVE  (CHOOSE r \in rest : \A q \in rest : r[1] <= q[1]) \in rest
<1>1. IsFiniteSet(rest) /\ rest \subseteq (Nat \ {0}) \X (Nat \ {0})
  BY FS_Subset DEF RowsInv
<1>2. QED  BY <1>1, LeastRow

\* The build keeps up with the deletes, and nothing is put meanwhile.
LEMMA BuildStep ==
  ASSUME IInv, RowsInv, BuildInv, [Next]_vars
  PROVE  BuildInv'
<1> USE DEF disk, queue, index, syncs, history
<1>0. mixed => mixed'
  BY MixedStays DEF IInv
<1>1. ASSUME pc' = pc, new' = new, job' = job, kind' = kind, rec' \subseteq rec,
             put.v = 0 => put'.v = 0,
             pc \in {"catalog", "assign"} /\ ~mixed' =>
               IF job = "detach" THEN flat' = flat ELSE dir' = dir
      PROVE  BuildInv'
  BY <1>0, <1>1 DEF BuildInv, Entries
<1>2. ASSUME pc' \notin Building, new' = NoBuild  PROVE BuildInv'
  <2>1. new'.seen = {}
    BY <1>2, NoBuildEffect
  <2>2. \A r \in rec' : r[1] \notin new'.seen
    BY <2>1
  <2>3. QED  BY <1>2, <2>2 DEF BuildInv, Building, SwapSteps
<1>3. "idle" \notin Building /\ "off" \notin Building /\ "finish" \notin Building
  BY DEF Building, SwapSteps
<1>4. sync.at # 0 => pc \notin SwapSteps
  BY DEF IInv, ControlInv
<1>5. sync.at \in Nat
  BY SwapAssumption DEF IInv, Shape
<1>6. CASE UNCHANGED vars
  BY <1>1, <1>6 DEF vars
<1>7. CASE SyncFlat \/ SyncShard \/ SyncClears
  <2>1. sync.at # 0
    BY <1>7, Bounds DEF SyncFlat, SyncShard, SyncClears, IInv, ControlInv
  <2>2. QED  BY <1>1, <1>4, <1>7, <2>1 DEF SyncFlat, SyncShard, SyncClears, SwapSteps
<1>8. CASE SyncEnds \/ SyncFails
  <2>1. CASE holder = "stop"
    BY <1>2, <1>3, <1>8, <2>1 DEF SyncEnds, SyncFails, Lost
  <2>2. CASE holder # "stop"
    BY <1>1, <1>8, <2>2 DEF SyncEnds, SyncFails, NoPut
  <2>3. QED  BY <2>1, <2>2
<1>9. CASE Put
  BY <1>2, <1>3, <1>9 DEF Put, BuildInv
<1>10. CASE Flush \/ DeleteBegins \/ DeleteUnindexes \/ DeleteWritten \/ DeleteAbandoned
  BY <1>1, <1>10 DEF Flush, DeleteBegins, DeleteUnindexes, DeleteWritten, DeleteAbandoned
<1>11. CASE DeleteCommits \/ DeleteSyncAbandoned
  BY <1>1, <1>11 DEF DeleteCommits, DeleteSyncAbandoned
<1>12. CASE ProbeBegins \/ ProbeReads \/ ProbeStores
  BY <1>1, <1>12 DEF ProbeBegins, ProbeReads, ProbeStores
<1>13. ASSUME NEW op \in Asks, Ask(op)  PROVE BuildInv'
  <2>1. /\ job = "none" /\ UNCHANGED <<pc, new, kind, rec, put>>
    BY <1>13 DEF Ask
  <2>2. pc \notin Building
    BY <2>1 DEF IInv, ControlInv, Building
  <2>3. QED  BY <1>2, <2>1, <2>2 DEF BuildInv
<1>14. CASE JobStart
  <2>1. pc \notin Building /\ new = NoBuild /\ put.v = 0 /\ UNCHANGED <<rec, put, kind>>
    BY <1>3, <1>14 DEF JobStart, At, BuildInv
  <2>2. CASE pc' \in {"finish", "idle"} /\ new' \in {new, NoBuild}
    BY <1>2, <1>3, <2>1, <2>2
  <2>3. CASE pc' \in {"sample", "stream"} /\ new' = new /\ job' = job /\ ((job = "detach") = (kind = "ivf") \/ job = "attach")
    <3>1. new'.seen = {} /\ ~new'.late /\ \A j \in 0..NShards : new'.part[j] = {}
      BY <2>1, <2>3, NoBuildEffect
    <3>2. \A r \in rec' : r[1] \notin new'.seen
      BY <3>1
    <3>3. /\ job' = "detach" => kind' = "ivf"
          /\ job' = "retune" => kind' = "flat"
      BY <2>1, <2>3 DEF IInv, Shape
    <3>4. QED  BY <2>1, <2>3, <3>1, <3>2, <3>3, Bounds DEF BuildInv, Building, SwapSteps
  <2>4. QED
    BY <1>14, <2>2, <2>3 DEF JobStart, Goes, Fails
<1>15. CASE Sample
  <2>1. /\ pc = "sample" /\ pc' \in {"backfill", "stream"} /\ UNCHANGED <<rec, put, job, kind, flat, dir>>
        /\ new' = [new EXCEPT !.todo = IF ShortSample THEN rec \ WithVec ELSE {}]
    BY <1>15 DEF Sample, At, Goes
  <2>2. new'.seen = new.seen /\ new'.part = new.part /\ new'.late = new.late
    BY <2>1 DEF IInv, Shape
  <2>3. pc \in Building /\ pc' \in Building /\ ~new'.late
    BY <2>1, <2>2 DEF Building, BuildInv
  <2>4. QED  BY <2>1, <2>2, <2>3 DEF BuildInv, SwapSteps
<1>16. CASE Backfill
  <2>1. pc = "backfill" /\ pc \in Building /\ UNCHANGED <<rec, put, kind, flat, dir>>
    BY <1>16 DEF Backfill, At, Building
  <2>2. CASE Fails
    BY <1>2, <1>3, <2>2 DEF Fails
  <2>3. CASE ~Fails
    <3>1. /\ IF new.late THEN Adds(new.todo) ELSE new' = [new EXCEPT !.todo = {}]
          /\ pc' = (IF new.late THEN "swap" ELSE "stream") /\ job' = job
      BY <1>16, <2>3 DEF Backfill, Goes
    <3>2. pc' \in Building
      BY <3>1 DEF Building
    <3>3. CASE new.late
      <4>1. Adds(new.todo) /\ pc' = "swap"
        BY <3>1, <3>3
      <4>2. \A r \in rec : r[1] \in new.seen \/ r \in new.todo
        BY <2>1, <3>3 DEF BuildInv
      <4>3. \A r \in rec' : r[1] \in new'.seen => r \in Entries(new'.part)
        BY <2>1, <4>1, <4>2, AddsRows DEF IInv
      <4>4. \A r \in rec' : r[1] \in new'.seen
        BY <2>1, <4>1, <4>2, AddsBuild DEF IInv, Ids
      <4>5. IF job = "detach" THEN \A j \in Shards : new'.part[j] = {} ELSE new'.part[0] = {}
        BY <2>1, <4>1, AddsParts DEF IInv
      <4>6. QED  BY <2>1, <3>1, <3>2, <4>1, <4>3, <4>4, <4>5 DEF BuildInv
    <3>4. CASE ~new.late
      <4>1. /\ pc' = "stream" /\ new'.seen = new.seen /\ new'.part = new.part
        BY <3>1, <3>4 DEF IInv, Shape
      <4>2. QED  BY <2>1, <3>1, <3>2, <4>1 DEF BuildInv, SwapSteps
    <3>5. QED  BY <3>3, <3>4
  <2>4. QED  BY <2>2, <2>3
<1>17. CASE Stream
  <2> DEFINE rest == {r \in WithVec : r[1] > new.last}
             next == CHOOSE r \in rest : \A q \in rest : r[1] <= q[1]
  <2>1. /\ pc = "stream" /\ pc \in Building /\ UNCHANGED <<rec, put, kind, flat, dir>>
        /\ rest \in SUBSET rec
    BY <1>17 DEF Stream, At, Building, WithVec
  <2>2. CASE Fails
    BY <1>2, <1>3, <2>2 DEF Fails
  <2>3. CASE rest # {} /\ Adds({next}) /\ UNCHANGED <<job, pc>>
    <3>1. next \in rec
      BY <2>1, <2>3, StreamBlock
    <3> HIDE DEF next
    <3>2. \A r \in rec : r[1] \in Ids({next}) => r \in {next}
      BY <3>1 DEF RowsInv, Ids
    <3>3. \A r \in rec' : r[1] \in new'.seen => r \in Entries(new'.part)
      BY <2>1, <2>3, <3>2, AddsRows DEF IInv
    <3>4. IF job = "detach" THEN \A j \in Shards : new'.part[j] = {} ELSE new'.part[0] = {}
      BY <2>1, <2>3, AddsParts DEF IInv
    <3>5. QED  BY <2>1, <2>3, <3>3, <3>4 DEF BuildInv, SwapSteps
  <2>4. CASE Missing = {} /\ pc' = "swap" /\ UNCHANGED <<job, new>>
    <3>1. \A r \in rec : r[1] \in new.seen
      BY <2>4 DEF Missing
    <3>2. pc' \in Building
      BY <2>4 DEF Building
    <3>3. QED  BY <2>1, <2>4, <3>1, <3>2 DEF BuildInv
  <2>5. CASE pc' = "backfill" /\ new' = [new EXCEPT !.todo = Missing, !.late = TRUE] /\ job' = job
    <3>1. new'.seen = new.seen /\ new'.part = new.part /\ new'.todo = Missing
      BY <2>5 DEF IInv, Shape
    <3>2. \A r \in rec : r[1] \in new.seen \/ r \in Missing
      BY DEF Missing
    <3>3. pc' \in Building
      BY <2>5 DEF Building
    <3>4. QED  BY <2>1, <2>5, <3>1, <3>2, <3>3 DEF BuildInv, SwapSteps
  <2>6. QED  BY <1>17, <2>2, <2>3, <2>4, <2>5 DEF Stream, Goes
<1>18. CASE SwapBegins
  <2>1. /\ pc = "swap" /\ pc' \in {"replace", "rename", "remove"}
        /\ UNCHANGED <<rec, put, job, kind, flat, dir>>
        /\ new' = [new EXCEPT !.part = [j \in DOMAIN @ |-> Without(@[j], Gone)]]
    BY <1>18 DEF SwapBegins, At, Goes
  <2> DEFINE p == [j \in DOMAIN new.part |-> Without(new.part[j], Gone)]
  <2>2. new' = [new EXCEPT !.part = p]
    BY <2>1
  <2>3. DOMAIN p = 0..NShards /\ \A j \in 0..NShards : p[j] = Without(new.part[j], Gone)
    BY DEF IInv, Shape
  <2> HIDE DEF p
  <2>4. new'.part = p /\ new'.seen = new.seen
    BY <2>2 DEF IInv, Shape
  <2>5. \A r \in rec, j \in 0..NShards : r \in new.part[j] => r \in p[j]
    BY <2>3 DEF Gone, Without, Ids
  <2>6. \A r \in rec' : r[1] \in new'.seen => r \in Entries(new'.part)
    BY <2>1, <2>4, <2>5 DEF BuildInv, Entries
  <2>7. pc \in Building /\ pc' \in Building /\ pc' \notin {"sample", "backfill", "catalog", "assign"}
    BY <2>1 DEF Building, SwapSteps
  <2>8. \A j \in 0..NShards : new.part[j] = {} => new'.part[j] = {}
    BY <2>3, <2>4 DEF Without
  <2>9. \A r \in rec' : r[1] \in new'.seen
    BY <2>1, <2>4 DEF BuildInv
  <2>10. QED  BY <2>1, <2>6, <2>7, <2>8, <2>9, Bounds DEF BuildInv
<1>19. CASE SwapRemove \/ SwapRename \/ SwapReplace
  <2>1. /\ pc \in {"remove", "rename", "replace"} /\ pc' \in {"rename", "catalog"}
        /\ (pc' = "catalog" => pc # "remove")
        /\ UNCHANGED <<rec, put, job, kind, new>>
    BY <1>19 DEF SwapRemove, SwapRename, SwapReplace, At, Goes
  <2>2. {pc, pc'} \subseteq SwapSteps /\ {pc, pc'} \subseteq Building /\ pc' \notin {"sample", "backfill", "assign"}
    BY <2>1 DEF Building, SwapSteps
  <2>3. pc' = "catalog" /\ job = "detach" => flat' = new.part[0]
    BY <1>19, <2>1 DEF SwapRemove, SwapRename, SwapReplace, At, IInv, ControlInv
  <2>4. pc' = "catalog" /\ job # "detach" =>
          dir'.centroids /\ \A j \in Shards : dir'.file[j] = new.part[j]
    <3>1. pc' = "catalog" /\ job # "detach" => pc = "rename"
      BY <2>1 DEF IInv, ControlInv
    <3>2. pc = "rename" => dir' = [centroids |-> TRUE, file |-> [j \in Shards |-> new.part[j]]] \/ pc' # "catalog"
      BY <1>19 DEF SwapRemove, SwapRename, SwapReplace, At, Goes
    <3>3. QED  BY <3>1, <3>2
  <2>5. QED  BY <1>0, <2>1, <2>2, <2>3, <2>4 DEF BuildInv
<1>20. CASE SwapCatalog
  <2>1. pc = "catalog" /\ pc' = "assign" /\ UNCHANGED <<rec, put, job, kind, new, flat, dir>>
    BY <1>20 DEF SwapCatalog, At, Goes
  <2>2. {pc, pc'} \subseteq SwapSteps /\ {pc, pc'} \subseteq Building
    BY <2>1 DEF Building, SwapSteps
  <2>3. QED  BY <1>0, <2>1, <2>2 DEF BuildInv
<1>21. CASE SwapAssign \/ SwapFails \/ Stop \/ Crash
  BY <1>2, <1>3, <1>21 DEF SwapAssign, SwapFails, Fails, Stop, Crash, Lost, Goes
<1>22. CASE JobFinish
  BY <1>2, <1>3, <1>22 DEF JobFinish, At, Goes, BuildInv
<1>23. CASE Open
  <2>1. pc \notin Building /\ pc' = pc /\ new' = new
    BY <1>3, <1>23 DEF Open, IInv, ControlInv
  <2>2. QED  BY <1>2, <2>1 DEF BuildInv
<1>24. CASE LateStep
  <2>1. UNCHANGED <<pc, new, job, kind, rec, put>> /\ (mixed' \/ ~Outdated \/ UNCHANGED <<flat, dir>>)
    BY <1>24, LateEffect DEF IInv
  <2>2. ASSUME pc \in {"catalog", "assign"}, ~mixed', job = "detach"  PROVE flat' = flat
    <3>1. kind = "ivf"
      BY <2>2 DEF BuildInv, Building, SwapSteps
    <3>2. CASE Outdated
      BY <2>1, <2>2, <3>2
    <3>3. CASE ~Outdated
      <4>1. Held.kind = "ivf"
        BY <3>1, <3>3 DEF Outdated, Held
      <4>2. QED  BY <1>24, <4>1 DEF LateStep, LateFlat, LateShard, LateClears, LateRaises
    <3>4. QED  BY <3>2, <3>3
  <2>3. ASSUME pc \in {"catalog", "assign"}, ~mixed', job # "detach"  PROVE dir' = dir
    <3>1. CASE Outdated
      BY <2>1, <2>3, <3>1
    <3>2. CASE ~Outdated
      <4>1. kind # "ivf" \/ UNCHANGED dir
        BY <2>3, <3>2 DEF Outdated, Renamed
      <4>2. QED  BY <1>24, <3>2, <4>1, LateWrites DEF IInv
    <3>3. QED  BY <3>1, <3>2
  <2>4. QED  BY <1>1, <2>1, <2>2, <2>3
<1>25. QED  BY <1>6, <1>7, <1>8, <1>9, <1>10, <1>11, <1>12, <1>13, <1>14, <1>15, <1>16, <1>17,
    <1>18, <1>19, <1>20, <1>21, <1>22, <1>23, <1>24 DEF Next, LateStep

\* In memory: the rows that the index must have, and has unless the open found none.
Indexed == {r \in rec : r[2] # put.v \/ put.applied}
MemoryInv == up /\ ~hollow => Indexed \subseteq Entries(part)

\* On disk: the file of a part of the index has its rows, once it is up to date.
File(j) == Contents(IF j = 0 THEN flat ELSE dir.file[j])
Found(r) == \E j \in Parts(kind) : r \in part[j] /\ (r[2] # put.v \/ Synced(j) => r \in File(j))

\* A crash loses no row of a finished ingest job. While a collection is open it is the
\* index it has in memory that the catalog and the files say.
Safe ==
  /\ ~hollow
  /\ up => /\ \A r \in Indexed : Found(r)
           /\ kind = "ivf" => dir.centroids
           /\ sync.wrote => kind = "ivf"
           /\ catalog = kind \/ pc = "assign"
  /\ ~up => /\ {r \in rec : r[2] # put.v} \subseteq Entries(Loaded)
            /\ catalog = "ivf" => dir.centroids
LossInv == mixed \/ outcome = "error" \/ (job = "attach" /\ pc # "finish") \/ Safe

\* A delete unindexes no row that is still there.
LEMMA UnindexRows ==
  ASSUME Shape, RowsInv, DeleteUnindexes
  PROVE  \A r \in rec, j \in 0..NShards : r \in part[j] => r \in part'[j]
<1>1. part' = Removed(part, del.row[1]) /\ del.row[1] \notin Ids(rec)
  BY DEF DeleteUnindexes, RowsInv
<1>2. QED  BY <1>1 DEF Removed, Without, Ids, Shape

\* What is opened: the files without the entries of rows that are gone.
LEMMA OpenEffect ==
  ASSUME Shape, Open
  PROVE  /\ up' = TRUE /\ kind' = LoadedKind /\ DOMAIN Loaded = 0..NShards
         /\ \A r \in rec, j \in 0..NShards : r \in Loaded[j] => r \in part'[j]
         /\ hollow' = (mixed \/ ~({r \in rec : r[2] # put.v} \subseteq Entries(Loaded)))
<1>1. /\ up' = TRUE /\ kind' = LoadedKind
      /\ part' = [j \in DOMAIN Loaded |-> Without(Loaded[j], Ghosts)]
      /\ hollow' = (mixed \/ ~({r \in rec : r[2] # put.v} \subseteq Entries(Loaded)))
  BY DEF Open
<1>2. DOMAIN Loaded = 0..NShards
  BY DEF Loaded
<1>3. QED  BY <1>1, <1>2 DEF Without, Ghosts, Ids

\* The rows in memory stay there.
LEMMA MemoryStep ==
  ASSUME IInv, RowsInv, BuildInv, MemoryInv, [Next]_vars
  PROVE  MemoryInv'
<1> USE DEF disk, queue, index, syncs, history
<1>1. ASSUME part' = part, rec' \subseteq rec, hollow' = hollow, up' => up,
             up' => put' = put \/ (put.applied /\ put' = NoPut)
      PROVE  MemoryInv'
  BY <1>1 DEF MemoryInv, Entries, Indexed
<1>2. ASSUME ~up'  PROVE MemoryInv'
  BY <1>2 DEF MemoryInv
<1>3. \A r \in rec : r[2] # 0
  BY DEF RowsInv
<1>6. CASE UNCHANGED vars
  BY <1>1, <1>6 DEF vars
<1>7. CASE SyncFlat \/ SyncShard \/ SyncClears
  BY <1>1, <1>7 DEF SyncFlat, SyncShard, SyncClears
<1>8. CASE SyncEnds \/ SyncFails
  <2>1. CASE holder = "stop"
    BY <1>2, <1>8, <2>1 DEF SyncEnds, SyncFails, Lost
  <2>2. CASE holder # "stop"
    BY <1>1, <1>8, <2>2 DEF SyncEnds, SyncFails
  <2>3. QED  BY <2>1, <2>2
<1>9. CASE Put
  <2>1. /\ put'.v \in Nat \ {0} /\ put'.applied = TRUE /\ put' \in [v : Nat, applied : BOOLEAN]
        /\ Upsert(put'.v) /\ (put.v # 0 => put'.v = put.v)
    BY <1>9, PutEffect
  <2>2. up' = up /\ hollow' = hollow
    BY <1>9 DEF Put
  <2> DEFINE v == put'.v
  <2>3. rec' = (rec \ Replaced(v)) \cup {<<NextId, v>>}
    BY <2>1, UpsertRows DEF IInv
  <2>4. \A r \in rec \ Replaced(v) : r \in Indexed
    BY <1>3, <2>1 DEF Replaced, Indexed
  <2>5. /\ \A r \in rec \ Replaced(v), j \in 0..NShards : r \in part[j] => r \in part'[j]
        /\ \E j \in Parts(kind) : <<NextId, v>> \in part'[j]
    <3>1. \E j \in Parts(kind) :
             <<NextId, put'.v>> \in part'[j] /\ (j \in Shards => j \in dirty' /\ ~LateSynced(j)')
      BY <2>1, UpsertIndex DEF IInv
    <3>2. \A r \in rec \ Replaced(put'.v), j \in 0..NShards : r \in part[j] => r \in part'[j]
      BY <2>1, UpsertIndex DEF IInv
    <3>3. QED  BY <3>1, <3>2
  <2>6. Parts(kind) \subseteq 0..NShards
    BY Bounds DEF Parts
  <2> HIDE DEF v
  <2>7. QED  BY <2>2, <2>3, <2>4, <2>5, <2>6 DEF MemoryInv, Entries, Indexed
<1>10. CASE Flush \/ DeleteBegins \/ DeleteWritten \/ DeleteAbandoned
  BY <1>1, <1>10 DEF Flush, DeleteBegins, DeleteWritten, DeleteAbandoned
<1>11. CASE DeleteCommits \/ DeleteSyncAbandoned
  BY <1>1, <1>11 DEF DeleteCommits, DeleteSyncAbandoned
<1>12. CASE DeleteUnindexes
  <2>1. UNCHANGED <<rec, put, up, hollow>>
    BY <1>12 DEF DeleteUnindexes
  <2>2. \A r \in rec, j \in 0..NShards : r \in part[j] => r \in part'[j]
    BY <1>12, UnindexRows DEF IInv
  <2>3. QED  BY <2>1, <2>2 DEF MemoryInv, Entries, Indexed
<1>13. CASE ProbeBegins \/ ProbeReads \/ ProbeStores
  BY <1>1, <1>13 DEF ProbeBegins, ProbeReads, ProbeStores
<1>14. ASSUME NEW op \in Asks, Ask(op)  PROVE MemoryInv'
  BY <1>1, <1>14 DEF Ask
<1>15. CASE JobStart \/ Sample \/ Backfill \/ Stream \/ JobFinish
  BY <1>1, <1>15 DEF JobStart, Sample, Backfill, Stream, JobFinish
<1>16. CASE SwapBegins \/ SwapRemove \/ SwapRename \/ SwapReplace \/ SwapCatalog \/ SwapFails
  BY <1>1, <1>16 DEF SwapBegins, SwapRemove, SwapRename, SwapReplace, SwapCatalog, SwapFails
<1>17. CASE SwapAssign
  <2>1. pc = "assign" /\ part' = new.part /\ UNCHANGED <<rec, put, up>>
    BY <1>17 DEF SwapAssign, At, Becomes
  <2>2. rec \subseteq Entries(new.part)
    BY <2>1 DEF BuildInv, SwapSteps
  <2>3. QED  BY <2>1, <2>2 DEF MemoryInv, Indexed
<1>18. CASE Stop
  BY <1>1, <1>18 DEF Stop
<1>19. CASE Crash
  BY <1>2, <1>19 DEF Crash, Lost
<1>20. CASE Open
  <2>1. /\ up' = TRUE /\ DOMAIN Loaded = 0..NShards
        /\ \A r \in rec, j \in 0..NShards : r \in Loaded[j] => r \in part'[j]
        /\ hollow' = (mixed \/ ~({r \in rec : r[2] # put.v} \subseteq Entries(Loaded)))
    BY <1>20, OpenEffect DEF IInv
  <2>2. ~up /\ rec' = rec /\ put' = put
    BY <1>20 DEF Open
  <2>3. ~put.applied
    BY <2>2 DEF RowsInv
  <2>4. ASSUME ~hollow', NEW r \in Indexed'  PROVE r \in Entries(part')
    <3>1. r \in rec /\ r \in Entries(Loaded)
      BY <2>1, <2>2, <2>3, <2>4 DEF Indexed
    <3>2. PICK j \in 0..NShards : r \in Loaded[j]
      BY <3>1 DEF Entries
    <3>3. QED  BY <2>1, <3>1, <3>2 DEF Entries
  <2>5. QED  BY <2>4 DEF MemoryInv
<1>21. CASE LateStep
  BY <1>1, <1>21, LateEffect DEF IInv
<1>22. QED  BY <1>6, <1>7, <1>8, <1>9, <1>10, <1>11, <1>12, <1>13, <1>14, <1>15, <1>16, <1>17,
    <1>18, <1>19, <1>20, <1>21 DEF Next, LateStep

\* A file that has a row is a file.
LEMMA ContentsHas ==
  ASSUME RowsInv
  PROVE  \A r \in rec : \A E : r \in E => r \in Contents(E)
<1>1. <<0, 0>> \notin rec
  BY DEF RowsInv
<1>2. QED  BY <1>1 DEF Contents, NoFile

\* What the catalog says is what is loaded.
LEMMA LoadedFiles ==
  ASSUME catalog = "ivf" => dir.centroids
  PROVE  /\ catalog = "ivf" => \A j \in Shards : Loaded[j] = Contents(dir.file[j])
         /\ catalog # "ivf" => Loaded[0] = Contents(flat)
         /\ \A j \in 0..NShards : Loaded[j] \subseteq Entries(Loaded)
<1>1. DOMAIN Loaded = 0..NShards
  BY DEF Loaded
<1>2. \A j \in 0..NShards : Loaded[j] \subseteq Entries(Loaded)
  BY DEF Entries
<1>3. catalog = "ivf" => \A j \in Shards : Loaded[j] = Contents(dir.file[j])
  BY Bounds DEF Loaded, LoadedKind
<1>4. catalog # "ivf" => Loaded[0] = Contents(flat)
  BY Bounds DEF Loaded, LoadedKind
<1>5. QED  BY <1>2, <1>3, <1>4

\* A crash, at any step: the catalog says which files have the rows.
LEMMA CrashSafe ==
  ASSUME IInv, RowsInv, BuildInv, Safe, up, ~mixed
  PROVE  /\ {r \in rec : r[2] # put.v} \subseteq Entries(Loaded)
         /\ catalog = "ivf" => dir.centroids
<1>1. kind \in {"flat", "ivf"}
  BY DEF IInv, Shape
<1>2. CASE pc = "assign"
  <2>1. /\ \A r \in rec : r \in Entries(new.part)
        /\ job # "detach" => /\ catalog = "ivf" /\ dir.centroids /\ new.part[0] = {}
                             /\ \A j \in Shards : dir.file[j] = new.part[j]
        /\ job = "detach" => /\ catalog = "flat" /\ flat = new.part[0]
                             /\ \A j \in Shards : new.part[j] = {}
    BY <1>2 DEF BuildInv, IInv, ControlInv, Building, SwapSteps
  <2>2. \A r \in rec : IF job = "detach" THEN r \in new.part[0] ELSE \E j \in Shards : r \in new.part[j]
    <3>1. \A j \in 0..NShards : j = 0 \/ j \in Shards
      BY ShardsType
    <3>2. QED  BY <2>1, <3>1 DEF Entries
  <2>3. \A r \in rec : r \in Entries(Loaded)
    BY <2>1, <2>2, ContentsHas, LoadedFiles, Bounds
  <2>4. QED  BY <2>1, <2>3
<1>3. CASE pc # "assign"
  <2>1. catalog = kind /\ (kind = "ivf" => dir.centroids)
    BY <1>3 DEF Safe
  <2>2. ASSUME NEW r \in rec, r[2] # put.v  PROVE r \in Entries(Loaded)
    <3>1. PICK j \in Parts(kind) : r \in File(j)
      BY <2>2 DEF Safe, Indexed, Found
    <3>2. Loaded[j] = File(j) /\ j \in 0..NShards
      BY <1>1, <2>1, LoadedFiles, Bounds DEF Parts, File
    <3>3. QED  BY <2>1, <3>1, <3>2, LoadedFiles
  <2>3. QED  BY <2>1, <2>2
<1>4. QED  BY <1>2, <1>3

\* A sync that begins, ends or fails brings no file up to date.
LEMMA SyncedLater ==
  ASSUME Shape, dirty \subseteq dirty', LateKept,
         \/ sync'.at \in {0, 1} /\ ~sync'.wrote
         \/ sync'.at = sync.at /\ sync'.wrote = sync.wrote
  PROVE  \A j : Synced(j)' => Synced(j)
<1>0. \A j \in Shards : LateSynced(j)' => Synced(j)
  BY DEF LateKept
<1>1. CASE sync'.at \in {0, 1} /\ ~sync'.wrote
  <2>1. ~(sync'.at > NShards) /\ \A j \in Shards : ~(j < sync'.at)
    BY <1>1, ShardsType
  <2>2. QED  BY <1>0, <1>1, <2>1 DEF Synced, Shards
<1>2. CASE sync'.at = sync.at /\ sync'.wrote = sync.wrote
  BY <1>0, <1>2 DEF Synced, Shards
<1>3. QED  BY <1>1, <1>2

\* The index is open and safe, and a step leaves every row where it is found.
LEMMA SafeKept ==
  ASSUME Safe, up, up', kind' = kind, hollow' = hollow, Indexed' \subseteq Indexed,
         kind = "ivf" /\ dir.centroids => dir'.centroids,
         sync'.wrote => sync.wrote \/ kind = "ivf",
         catalog' = kind \/ pc' = "assign",
         \A r \in rec', j \in Parts(kind) :
           r \in part[j] /\ (r[2] # put.v \/ Synced(j) => r \in File(j)) =>
             r \in part'[j] /\ (r[2] # put'.v \/ Synced(j)' => r \in File(j)')
  PROVE  Safe'
<1>1. Indexed' \subseteq rec'
  BY DEF Indexed
<1>2. \A r \in Indexed' : Found(r)'
  <2>1. ASSUME NEW r \in Indexed'  PROVE Found(r)'
    <3>1. Found(r)
      BY DEF Safe
    <3>2. PICK j \in Parts(kind) : r \in part[j] /\ (r[2] # put.v \/ Synced(j) => r \in File(j))
      BY <3>1 DEF Found
    <3>3. r \in part'[j] /\ (r[2] # put'.v \/ Synced(j)' => r \in File(j)')
      BY <1>1, <3>2
    <3>4. j \in Parts(kind)'
      BY DEF Parts, Shards
    <3>5. QED  BY <3>3, <3>4 DEF Found
  <2>2. QED  BY <2>1
<1>3. QED  BY <1>2 DEF Safe

\* An abandoned sync of another index brings nothing up to date.
LEMMA LateStale ==
  ASSUME Shape, ControlInv, LateInv, LateStep, late.stale
  PROVE  \A j : Synced(j)' => Synced(j)
<1> USE DEF index
<1>1. UNCHANGED <<dirty, sync>>
  BY DEF LateStep, LateFlat, LateShard, LateClears, LateRaises
<1>2. ~late'.wrote \/ late'.stale
  <2>1. CASE LateFlat \/ LateRaises
    BY <2>1 DEF LateFlat, LateRaises, NoLate
  <2>2. CASE LateNext
    BY <2>2, LateNextEffect, LateEffect
  <2>3. CASE late' = [late EXCEPT !.wrote = TRUE]
    BY <2>3 DEF LateInv
  <2>4. QED  BY <2>1, <2>2, <2>3 DEF LateStep, LateShard, LateClears
<1>3. \A j : ~LateSynced(j)'
  BY <1>2 DEF LateSynced
<1>4. QED  BY <1>1, <1>3 DEF Synced, Shards

\* ... and one of the index in memory leaves every row where it is found.
LEMMA LateFiles ==
  ASSUME Shape, ControlInv, LateInv, RowsInv, LateStep, ~Outdated,
         NEW r \in rec, NEW j \in Parts(kind), r \in part[j],
         r[2] # put.v \/ Synced(j) => r \in File(j), r[2] # put.v \/ Synced(j)'
  PROVE  r \in File(j)'
<1> USE DEF disk, index
<1>0. ~late.stale /\ Held.kind = kind /\ Held.part = part /\ sync' = sync
  BY LateEffect DEF Outdated, Held
<1>1. CASE kind = "flat"
  <2>1. j = 0 /\ 0 \notin Shards
    BY <1>1, Bounds DEF Parts
  <2>2. r[2] # put.v \/ Synced(j)
    BY <1>0, <2>1 DEF Synced, Shards
  <2>3. flat' = part[0] \/ flat' = flat
    BY <1>0 DEF LateStep, LateFlat, LateShard, LateClears, LateRaises
  <2>4. QED  BY <2>1, <2>2, <2>3, ContentsHas DEF File
<1>2. CASE kind # "flat"
  <2>1. j \in Shards /\ j # 0
    BY <1>2, Bounds DEF Parts, Shape
  <2>2. CASE dir'.file[j] = part[j]
    BY <2>1, <2>2, ContentsHas DEF File, Contents
  <2>3. CASE dir'.file[j] # part[j]
    <3>1. dir'.file[j] = dir.file[j]
      BY <2>1, <2>3, LateWrites
    <3>2. ~LateSynced(j)'
      BY <2>3, LateWrites DEF LateSynced
    <3>3. j \notin dirty' => j \notin dirty \/ LateSynced(j)
      BY <1>0, LateWrites DEF LateSynced
    <3>4. Synced(j)' => Synced(j)
      BY <1>0, <3>2, <3>3 DEF Synced, Shards
    <3>5. QED  BY <2>1, <3>1, <3>4 DEF File, Contents
  <2>4. QED  BY <2>2, <2>3
<1>3. QED  BY <1>1, <1>2 DEF Shape

\* Nothing is lost while the index is safe, or there is still what rebuilds it.
LEMMA LossStep ==
  ASSUME IInv, RowsInv, KindInv, BuildInv, LossInv, [Next]_vars
  PROVE  LossInv'
<1> USE DEF disk, queue, index, syncs, history
<1>0. SUFFICES ASSUME ~mixed, ~mixed'  PROVE LossInv'
  BY MixedStays DEF LossInv, IInv
<1>1. ASSUME outcome' = outcome, job' = job, pc' = "finish" => pc = "finish", Safe => Safe'
      PROVE  LossInv'
  BY <1>0, <1>1 DEF LossInv
<1>2. ASSUME Safe, up, up' = up, kind' = kind, part' = part, dirty \subseteq dirty', hollow' = hollow, catalog' = catalog,
             flat' = flat, dir' = dir, rec' \subseteq rec, put' = put, LateKept,
             \/ sync'.at \in {0, 1} /\ ~sync'.wrote
             \/ sync'.at = sync.at /\ sync'.wrote = sync.wrote,
             pc = "assign" => pc' = "assign"
      PROVE  Safe'
  <2>1. \A j : Synced(j)' => Synced(j)
    BY <1>2, SyncedLater DEF IInv
  <2>2. \A j : File(j)' = File(j)
    BY <1>2 DEF File
  <2>3. sync'.wrote => sync.wrote \/ kind = "ivf"
    BY <1>2
  <2>4. catalog' = kind \/ pc' = "assign"
    BY <1>2 DEF Safe
  <2>5. Indexed' \subseteq Indexed
    BY <1>2 DEF Indexed
  <2>6. QED  BY <1>2, <2>1, <2>2, <2>3, <2>4, <2>5, SafeKept
<1>3. ASSUME ~up, ~up', UNCHANGED <<hollow, rec, put, catalog, dir, flat>>  PROVE Safe => Safe'
  BY <1>3 DEF Safe, Entries, Loaded, LoadedKind, Shards
<1>4. ASSUME Safe, up, ~up', hollow' = hollow, rec' = rec, put'.v = put.v, catalog' = catalog, dir' = dir, flat' = flat
      PROVE  Safe'
  <2>1. /\ {r \in rec : r[2] # put.v} \subseteq Entries(Loaded)
        /\ catalog = "ivf" => dir.centroids
    BY <1>0, <1>4, CrashSafe
  <2>2. Loaded' = Loaded
    BY <1>4 DEF Loaded, LoadedKind, Shards
  <2>3. QED  BY <1>4, <2>1, <2>2 DEF Safe, Entries
<1>5. sync.at # 0 => up /\ pc # "assign" /\ holder # "none"
  BY DEF IInv, ControlInv, SwapSteps
<1>5a. late' = late \/ (\E J : late' = Race(late, J)) \/ ~late'.wrote \/ late'.stale => LateKept
  BY LateIsKept DEF IInv
<1>5b. LateKept => \A j : LateSynced(j)' /\ j \in Shards => Synced(j)
  BY DEF LateKept
<1>6. CASE UNCHANGED vars
  <2>0. LateKept
    BY <1>5a, <1>6 DEF vars
  <2>1. up' = up /\ up \in BOOLEAN
    BY <1>6 DEF vars, IInv, Shape
  <2>2. CASE up
    BY <1>1, <1>2, <1>6, <2>0, <2>1, <2>2 DEF vars
  <2>3. CASE ~up
    BY <1>1, <1>3, <1>6, <2>1, <2>3 DEF vars
  <2>4. QED  BY <2>2, <2>3
<1>7. CASE SyncFlat
  <2>1. /\ kind = "flat" /\ sync.at = 1 /\ flat' = part[0] /\ sync' = [NoSync EXCEPT !.at = NShards + 1]
        /\ UNCHANGED <<rec, dir, catalog, put, job, outcome, up, kind, part, dirty, pc, hollow>>
    BY <1>7 DEF SyncFlat
  <2>2. up /\ pc # "assign"
    BY <1>5, <2>1
  <2>3. ~sync'.wrote
    BY <2>1 DEF NoSync
  <2>4. \A r \in rec, j \in Parts(kind) : r \in part[j] => r \in File(j)'
    BY <2>1, ContentsHas DEF Parts, File, Contents
  <2>5. ASSUME Safe  PROVE Safe'
    <3>1. catalog' = kind /\ Indexed' \subseteq Indexed
      BY <2>1, <2>2, <2>5 DEF Safe, Indexed
    <3>2. QED  BY <2>1, <2>2, <2>3, <2>4, <2>5, <3>1, SafeKept
  <2>6. QED  BY <1>1, <2>1, <2>5
<1>8. CASE SyncShard
  <2>1. /\ kind = "ivf" /\ sync.at \in Shards /\ ~sync.wrote
        /\ UNCHANGED <<rec, flat, catalog, put, job, outcome, up, kind, part, dirty, late, pc, hollow>>
        /\ dir'.centroids = TRUE
    BY <1>8 DEF SyncShard, IInv, Shape
  <2>2. up /\ pc # "assign"
    BY <1>5, <2>1, Bounds
  <2>3. /\ \A j \in Shards \ {sync.at} : dir'.file[j] = dir.file[j]
        /\ dir'.file[sync.at] \in {dir.file[sync.at], part[sync.at]}
        /\ sync'.wrote => dir'.file[sync.at] = part[sync.at]
    BY <1>8, SyncShardEffect DEF IInv
  <2>4. \/ sync'.at = sync.at /\ sync'.wrote
        \/ sync'.at = sync.at + 1 /\ ~sync'.wrote /\ sync.at \notin dirty
    <3>1. CASE SyncWrites(sync.at)
      BY <1>8, <3>1 DEF SyncShard, IInv, Shape
    <3>2. CASE ~SyncWrites(sync.at)
      BY <1>8, <3>2 DEF SyncShard, SyncWrites, SyncNext, NoSync
    <3>3. QED  BY <3>1, <3>2
  <2>5. ASSUME NEW r \in rec, NEW j \in Shards, r \in part[j], r[2] # put.v \/ Synced(j) => r \in File(j),
               r[2] # put.v \/ Synced(j)'
        PROVE  r \in File(j)'
    <3>1. j # 0 /\ (j = sync.at => sync.at \in Shards)
      BY <2>1, Bounds
    <3>2. CASE j = sync.at /\ dir'.file[sync.at] = part[sync.at]
      BY <2>5, <3>1, <3>2, ContentsHas DEF File, Contents
    <3>3. CASE ~(j = sync.at /\ dir'.file[sync.at] = part[sync.at])
      <4>1. dir'.file[j] = dir.file[j]
        BY <2>3, <3>3
      <4>2. r[2] # put.v \/ Synced(j)
        <5>1. sync.at \in 1..NShards /\ j \in 1..NShards /\ NShards \in Nat
          BY <2>1, ShardsType
        <5>2. CASE sync'.wrote
          BY <2>1, <2>3, <2>4, <2>5, <3>3, <5>1, <5>2 DEF Synced, LateSynced, Shards
        <5>3. CASE ~sync'.wrote
          BY <2>1, <2>4, <2>5, <5>1, <5>3 DEF Synced, LateSynced, Shards
        <5>4. QED  BY <5>2, <5>3
      <4>3. QED  BY <2>5, <3>1, <4>1, <4>2 DEF File, Contents
    <3>4. QED  BY <3>2, <3>3
  <2>6. ASSUME Safe  PROVE Safe'
    <3>1. catalog' = kind /\ Indexed' \subseteq Indexed
      BY <2>1, <2>2, <2>6 DEF Safe, Indexed
    <3>2. Parts(kind) = Shards
      BY <2>1 DEF Parts
    <3>3. QED  BY <2>1, <2>2, <2>5, <2>6, <3>1, <3>2, SafeKept
  <2>7. QED  BY <1>1, <2>1, <2>6
<1>9. CASE SyncClears
  <2>1. /\ sync.wrote /\ sync.at \in Shards /\ dirty' = dirty \ Clears /\ sync' = [NoSync EXCEPT !.at = sync.at + 1]
        /\ UNCHANGED <<rec, flat, dir, catalog, put, job, outcome, up, kind, part, late, pc, hollow>>
    BY <1>9 DEF SyncClears, SyncNext, IInv, ControlInv
  <2>2. up /\ pc # "assign" /\ ~sync'.wrote /\ sync'.at = sync.at + 1
    BY <1>5, <2>1, Bounds DEF NoSync
  <2>3. \A j \in Shards : Synced(j)' => Synced(j)
    <3>1. sync.at \in 1..NShards /\ NShards \in Nat /\ Shards = 1..NShards /\ Clears \subseteq {sync.at}
      BY <2>1, ShardsType DEF Clears
    <3>2. QED  BY <2>1, <2>2, <3>1 DEF Synced, LateSynced, Shards
  <2>4. \A j : File(j)' = File(j)
    BY <2>1 DEF File
  <2>5. ASSUME Safe  PROVE Safe'
    <3>1. catalog' = kind /\ Indexed' \subseteq Indexed /\ kind = "ivf"
      BY <2>1, <2>2, <2>5 DEF Safe, Indexed
    <3>2. Parts(kind) = Shards
      BY <3>1 DEF Parts
    <3>3. QED  BY <2>1, <2>2, <2>3, <2>4, <2>5, <3>1, <3>2, SafeKept
  <2>6. QED  BY <1>1, <2>1, <2>5
<1>10. CASE SyncEnds
  <2>1. /\ sync.at > NShards /\ UNCHANGED <<rec, flat, dir, catalog, job, outcome, hollow>>
        /\ put' = IF holder \in {"flush", "stop"} /\ put.applied THEN NoPut ELSE put
    BY <1>10 DEF SyncEnds
  <2>2. sync.at # 0 /\ \A j : Synced(j)
    BY <2>1, ShardsType DEF Synced
  <2>3. ASSUME Safe  PROVE Safe'
    <3>1. catalog = kind /\ (kind = "ivf" => dir.centroids) /\ up /\ pc # "assign"
      BY <1>5, <2>2, <2>3 DEF Safe
    <3>2. CASE holder = "stop"
      <4>1. ~up'
        BY <1>10, <3>2 DEF SyncEnds, Lost
      <4>2. ASSUME NEW r \in rec, r[2] # put'.v  PROVE r \in Entries(Loaded)
        <5>1. r \in Indexed
          BY <2>1, <3>2, <4>2 DEF Indexed
        <5>2. PICK j \in Parts(kind) : r \in File(j)
          BY <2>2, <2>3, <3>1, <5>1 DEF Safe, Found
        <5>3. Loaded[j] = File(j) /\ j \in 0..NShards
          BY <3>1, LoadedFiles, Bounds DEF Parts, File, IInv, Shape
        <5>4. QED  BY <3>1, <5>2, <5>3, LoadedFiles
      <4>3. Loaded' = Loaded
        BY <2>1 DEF Loaded, LoadedKind, Shards
      <4>4. QED  BY <2>1, <2>3, <3>1, <4>1, <4>2, <4>3 DEF Safe, Entries
    <3>3. CASE holder # "stop"
      <4>1. /\ sync' = NoSync /\ UNCHANGED <<up, kind, part, dirty, pc>>
        BY <1>10, <3>3 DEF SyncEnds
      <4>2. ~sync'.wrote
        BY <4>1 DEF NoSync
      <4>3. \A j : File(j)' = File(j)
        BY <2>1 DEF File
      <4>4. Indexed' \subseteq Indexed
        BY <2>1 DEF Indexed, NoPut
      <4>5. \A r \in rec', j \in Parts(kind) :
              r \in part[j] /\ (r[2] # put.v \/ Synced(j) => r \in File(j)) =>
                r \in part'[j] /\ (r[2] # put'.v \/ Synced(j)' => r \in File(j)')
        BY <2>2, <4>1, <4>3
      <4>6. QED  BY <2>1, <2>3, <3>1, <4>1, <4>2, <4>4, <4>5, SafeKept
    <3>4. QED  BY <3>2, <3>3
  <2>4. pc' = "finish" => pc = "finish"
    BY <1>10 DEF SyncEnds, Lost
  <2>5. QED  BY <1>1, <2>1, <2>3, <2>4
<1>11. CASE SyncFails
  <2>1. /\ sync.at # 0 /\ UNCHANGED <<rec, flat, dir, catalog, job, outcome, hollow>>
    BY <1>11, Bounds DEF SyncFails
  <2>2. CASE holder = "stop"
    <3>1. ~up' /\ up /\ pc' # "finish" /\ put' = [put EXCEPT !.applied = FALSE]
      BY <1>5, <1>11, <2>1, <2>2 DEF SyncFails, Lost
    <3>2. put'.v = put.v
      BY <3>1 DEF RowsInv
    <3>3. QED  BY <1>1, <1>4, <2>1, <3>1, <3>2
  <2>3. CASE holder # "stop"
    <3>1. sync' = NoSync /\ LateKept /\ UNCHANGED <<up, kind, part, dirty, pc, put>>
      BY <1>5a, <1>11, <2>3 DEF SyncFails
    <3>2. sync'.at \in {0, 1} /\ ~sync'.wrote /\ up
      BY <1>5, <2>1, <3>1 DEF NoSync
    <3>3. QED  BY <1>1, <1>2, <2>1, <3>1, <3>2
  <2>4. QED  BY <2>2, <2>3
<1>12. CASE Put
  <2>1. /\ put'.v \in Nat \ {0} /\ put'.applied = TRUE /\ put' \in [v : Nat, applied : BOOLEAN]
        /\ Upsert(put'.v) /\ (put.v # 0 => put'.v = put.v)
    BY <1>12, PutEffect
  <2>2. /\ up /\ pc = "idle" /\ holder = "none"
        /\ UNCHANGED <<flat, dir, catalog, job, outcome, up, kind, pc, sync, hollow>>
    BY <1>12 DEF Put
  <2> DEFINE v == put'.v
  <2>0. PICK row : row = <<NextId, v>>
    OBVIOUS
  <2>3. rec' = (rec \ Replaced(v)) \cup {row}
    BY <2>0, <2>1, UpsertRows DEF IInv
  <2>4. /\ \A r \in rec \ Replaced(v), j \in 0..NShards : r \in part[j] => r \in part'[j]
        /\ \E j \in Parts(kind) :
             row \in part'[j] /\ (j \in Shards => j \in dirty' /\ ~LateSynced(j)')
        /\ dirty \subseteq dirty'
    BY <2>0, <2>1, UpsertIndex DEF IInv
  <2>5. Parts(kind) \subseteq 0..NShards
    BY Bounds DEF Parts
  <2>6. \A j : File(j)' = File(j)
    BY <2>2 DEF File
  <2>7. sync.at = 0 /\ ~sync.wrote
    BY <2>2, Bounds DEF IInv, ControlInv, Shape
  <2>8. \A r \in rec \ Replaced(v) : r \in Indexed /\ r[2] # put.v
    BY <2>1 DEF RowsInv, Replaced, Indexed
  <2>9. ASSUME Safe  PROVE Safe'
    <3>1. ASSUME NEW r \in rec \ Replaced(v)  PROVE Found(r)'
      <4>1. PICK j \in Parts(kind) : r \in part[j] /\ r \in File(j)
        BY <2>2, <2>8, <2>9 DEF Safe, Found
      <4>2. r \in part'[j] /\ r \in File(j)' /\ j \in Parts(kind)'
        BY <2>2, <2>4, <2>5, <2>6, <4>1 DEF Parts, Shards
      <4>3. QED  BY <4>2 DEF Found
    <3>2. Found(row)'
      <4>1. PICK j \in Parts(kind) :
             row \in part'[j] /\ (j \in Shards => j \in dirty' /\ ~LateSynced(j)')
        BY <2>4
      <4>2. ~Synced(j)'
        <5>1. sync'.at = 0 /\ ~(0 > NShards) /\ \A i \in Shards : ~(i < 0) /\ i # 0
          BY <2>2, <2>7, ShardsType
        <5>2. j \in Shards => j \in dirty' /\ ~(j = late'.at /\ late'.wrote /\ ~late'.raced /\ ~late'.stale)
          BY <4>1 DEF LateSynced
        <5>3. QED  BY <5>1, <5>2 DEF Synced, LateSynced, Shards
      <4>3. j \in Parts(kind)'
        BY <2>2 DEF Parts, Shards
      <4>4. row[2] = put'.v
        BY <2>0
      <4>5. QED  BY <4>1, <4>2, <4>3, <4>4 DEF Found
    <3>3. \A r \in Indexed' : Found(r)'
      BY <2>3, <3>1, <3>2 DEF Indexed
    <3>4. QED  BY <2>2, <2>7, <2>9, <3>3 DEF Safe
  <2>10. QED  BY <1>1, <2>2, <2>9
<1>13. CASE Flush \/ Stop
  <2>1. /\ up /\ holder = "none" /\ sync' = [NoSync EXCEPT !.at = 1]
        /\ pc' \in {pc, "off"}
        /\ UNCHANGED <<rec, flat, dir, catalog, put, job, outcome, up, kind, part, dirty, hollow>>
        /\ LateKept
    BY <1>5a, <1>13 DEF Flush, Stop, SyncBegins
  <2>2. sync'.at \in {0, 1} /\ ~sync'.wrote
    BY <2>1 DEF NoSync
  <2>3. pc # "assign"
    BY <2>1 DEF IInv, ControlInv, SwapSteps
  <2>4. QED  BY <1>1, <1>2, <2>1, <2>2, <2>3
<1>14. CASE DeleteBegins \/ DeleteCommits \/ DeleteAbandoned
  <2>1. /\ rec' \subseteq rec
        /\ UNCHANGED <<flat, dir, catalog, put, job, outcome, up, kind, part, dirty, pc, sync, hollow>>
        /\ LateKept
    BY <1>5a, <1>14 DEF DeleteBegins, DeleteCommits, DeleteAbandoned
  <2>2. up
    BY <1>14 DEF DeleteBegins, DeleteCommits, DeleteAbandoned, IInv, ControlInv
  <2>3. QED  BY <1>1, <1>2, <2>1, <2>2
<1>15. CASE DeleteUnindexes \/ DeleteWritten
  <2>1. /\ UNCHANGED <<rec, flat, dir, catalog, put, job, outcome, up, kind, pc, hollow>>
        /\ dirty \subseteq dirty'
        /\ late' = late \/ (\E J : late' = Race(late, J))
    BY <1>15 DEF DeleteUnindexes, DeleteWritten, Written
  <2>2. up
    BY <1>15 DEF DeleteUnindexes, DeleteWritten, IInv, ControlInv
  <2>3. \/ sync'.at \in {0, 1} /\ ~sync'.wrote
        \/ sync'.at = sync.at /\ sync'.wrote = sync.wrote
    BY <1>15, UnindexEffect, ThreadEndsEffect DEF IInv, DeleteWritten, Shape
  <2>4. \A r \in rec, j \in 0..NShards : r \in part[j] => r \in part'[j]
    BY <1>15, UnindexRows DEF IInv, DeleteWritten
  <2>5. \A j : Synced(j)' => Synced(j)
    BY <1>5a, <2>1, <2>3, SyncedLater DEF IInv
  <2>6. \A j : File(j)' = File(j)
    BY <2>1 DEF File
  <2>7. Parts(kind) \subseteq 0..NShards
    BY Bounds DEF Parts
  <2>8. ASSUME Safe  PROVE Safe'
    <3>1. (catalog' = kind \/ pc' = "assign") /\ Indexed' \subseteq Indexed
      BY <2>1, <2>2, <2>8 DEF Safe, Indexed
    <3>2. sync'.wrote => sync.wrote
      BY <2>3
    <3>3. QED  BY <2>1, <2>2, <2>4, <2>5, <2>6, <2>7, <2>8, <3>1, <3>2, SafeKept
  <2>9. QED  BY <1>1, <2>1, <2>8
<1>16. CASE ProbeBegins \/ ProbeReads \/ ProbeStores
  <2>1. /\ UNCHANGED <<rec, flat, dir, catalog, put, job, outcome, up, kind, part, dirty, pc, sync, hollow>>
        /\ LateKept
    BY <1>5a, <1>16 DEF ProbeBegins, ProbeReads, ProbeStores
  <2>2. up
    BY <1>16 DEF ProbeBegins, ProbeReads, ProbeStores, IInv, ControlInv
  <2>3. QED  BY <1>1, <1>2, <2>1, <2>2
<1>17. ASSUME NEW op \in Asks, Ask(op)  PROVE LossInv'
  <2>1. /\ up /\ job = "none"
        /\ UNCHANGED <<rec, flat, dir, catalog, put, outcome, up, kind, part, dirty, pc, sync, hollow>>
        /\ LateKept
    BY <1>5a, <1>17 DEF Ask
  <2>2. Safe => Safe'
    BY <1>2, <2>1
  <2>3. QED  BY <1>0, <2>1, <2>2 DEF LossInv
<1>18. CASE JobStart
  <2>1. /\ up /\ pc = "idle" /\ UNCHANGED <<rec, flat, put, up, kind, part, dirty, sync, late, hollow>>
        /\ LateKept
    BY <1>5a, <1>18 DEF JobStart, At
  <2>2. CASE Fails
    BY <2>2 DEF LossInv, Fails
  <2>3. CASE job = "retune" /\ kind = "ivf" /\ catalog' = "ivf" /\ UNCHANGED <<dir, job, outcome>>
    <3>1. ASSUME Safe  PROVE Safe'
      <4>1. \A j : File(j)' = File(j)
        BY <2>1, <2>3 DEF File
      <4>2. \A j : Synced(j)' => Synced(j)
        BY <2>1 DEF Synced, LateSynced, Shards
      <4>3. catalog' = kind /\ Indexed' \subseteq Indexed
        BY <2>1, <2>3 DEF Indexed
      <4>4. QED  BY <2>1, <2>3, <3>1, <4>1, <4>2, <4>3, SafeKept
    <3>2. QED  BY <1>0, <2>3, <3>1 DEF LossInv
  <2>4. CASE job = "detach" /\ kind = "flat" /\ catalog' = "flat" /\ UNCHANGED <<job, outcome>>
    <3>1. ASSUME Safe  PROVE Safe'
      <4>1. Parts(kind) = {0} /\ File(0)' = File(0)
        BY <2>1, <2>4 DEF Parts, File
      <4>2. \A j : Synced(j)' => Synced(j)
        BY <2>1 DEF Synced, LateSynced, Shards
      <4>3. catalog' = kind /\ Indexed' \subseteq Indexed
        BY <2>1, <2>4 DEF Indexed
      <4>4. sync'.wrote => sync.wrote \/ kind = "ivf"
        BY <2>1
      <4>5. QED  BY <2>1, <2>4, <3>1, <4>1, <4>2, <4>3, <4>4, SafeKept
    <3>2. QED  BY <1>0, <2>4, <3>1 DEF LossInv
  <2>5. CASE /\ UNCHANGED <<dir, catalog, job, outcome>> /\ pc' \in {"stream", "sample"}
    <3>1. Safe => Safe'
      BY <1>2, <2>1, <2>5
    <3>2. QED  BY <1>1, <2>5, <3>1
  <2>6. QED  BY <1>18, <2>2, <2>3, <2>4, <2>5 DEF JobStart, Goes
<1>19. CASE Sample \/ Backfill \/ Stream \/ SwapBegins
  <2>1. /\ up /\ pc \in {"sample", "backfill", "stream", "swap"}
        /\ UNCHANGED <<rec, flat, dir, catalog, put, up, kind, part, dirty, sync, hollow>>
        /\ LateKept
        /\ Fails \/ (job' = job /\ outcome' = outcome /\ pc' # "finish")
    BY <1>5a, <1>19 DEF Sample, Backfill, Stream, SwapBegins, At, Goes
  <2>2. CASE Fails
    BY <2>2 DEF LossInv, Fails
  <2>3. Safe => Safe'
    BY <1>2, <2>1
  <2>4. QED  BY <1>1, <2>1, <2>2, <2>3
<1>20. CASE SwapRemove \/ SwapRename \/ SwapReplace
  <2>1. /\ up /\ pc \in {"remove", "rename", "replace"} /\ pc' \in {"rename", "catalog"}
        /\ UNCHANGED <<rec, catalog, put, job, outcome, up, kind, part, dirty, sync, late, hollow>>
        /\ (pc = "replace" => dir' = dir) /\ (pc # "replace" => flat' = flat)
    BY <1>20 DEF SwapRemove, SwapRename, SwapReplace, At, Goes
  <2>2. /\ pc = "replace" => job = "detach" /\ kind = "ivf"
        /\ pc # "replace" /\ job # "attach" => kind = "flat"
    <3>1. pc \in Building /\ (pc = "replace" <=> job = "detach") /\ job # "none"
      BY <2>1 DEF Building, SwapSteps, IInv, ControlInv
    <3>2. CASE job = "detach"
      BY <3>1, <3>2 DEF BuildInv
    <3>3. CASE job # "detach"
      <4>1. job = "retune" => kind = "flat"
        BY <3>1, <3>3 DEF BuildInv
      <4>2. job # "attach" => job = "retune"
        BY <3>1, <3>3 DEF KindInv
      <4>3. QED  BY <3>1, <3>3, <4>1, <4>2
    <3>4. QED  BY <3>2, <3>3
  <2>3. ASSUME Safe, job # "attach"  PROVE Safe'
    <3>1. \A j \in Parts(kind) : File(j)' = File(j)
      BY <2>1, <2>2, <2>3, Bounds DEF Parts, File
    <3>2. \A j : Synced(j)' => Synced(j)
      BY <2>1 DEF Synced, LateSynced, Shards
    <3>3. catalog' = kind /\ Indexed' \subseteq Indexed
      BY <2>1, <2>3 DEF Indexed, Safe
    <3>4. kind = "ivf" => dir' = dir
      BY <2>1, <2>2, <2>3
    <3>5. QED  BY <2>1, <2>3, <3>1, <3>2, <3>3, <3>4, SafeKept
  <2>4. QED  BY <1>0, <2>1, <2>3 DEF LossInv
<1>21. CASE SwapCatalog
  <2>1. /\ up /\ pc' = "assign"
        /\ UNCHANGED <<rec, flat, dir, put, job, outcome, up, kind, part, dirty, sync, late, hollow>>
    BY <1>21 DEF SwapCatalog, At, Goes
  <2>2. ASSUME Safe  PROVE Safe'
    <3>1. \A j : File(j)' = File(j)
      BY <2>1 DEF File
    <3>2. \A j : Synced(j)' => Synced(j)
      BY <2>1 DEF Synced, LateSynced, Shards
    <3>3. Indexed' \subseteq Indexed
      BY <2>1 DEF Indexed
    <3>4. QED  BY <2>1, <2>2, <3>1, <3>2, <3>3, SafeKept
  <2>3. QED  BY <1>1, <2>1, <2>2
<1>22. CASE SwapAssign
  <2>1. /\ up /\ pc = "assign" /\ kind' = catalog /\ part' = new.part /\ hollow' = FALSE
        /\ UNCHANGED <<rec, catalog, put, up, sync>>
        /\ (IF job = "detach" THEN flat' = flat ELSE dir' = dir)
    BY <1>22 DEF SwapAssign, At, Becomes
  <2>2. /\ \A r \in rec : r \in Entries(new.part)
        /\ job # "detach" => /\ catalog = "ivf" /\ dir.centroids /\ new.part[0] = {}
                             /\ \A j \in Shards : dir.file[j] = new.part[j]
        /\ job = "detach" => /\ catalog = "flat" /\ flat = new.part[0]
                             /\ \A j \in Shards : new.part[j] = {}
    BY <1>0, <2>1 DEF BuildInv, IInv, ControlInv, Building, SwapSteps
  <2>3. \A r \in rec : IF job = "detach" THEN r \in new.part[0] ELSE \E j \in Shards : r \in new.part[j]
    <3>1. \A j \in 0..NShards : j = 0 \/ j \in Shards
      BY ShardsType
    <3>2. QED  BY <2>2, <3>1 DEF Entries
  <2>4. ASSUME NEW r \in rec  PROVE Found(r)'
    <3>1. CASE job = "detach"
      <4>1. 0 \in Parts(kind)' /\ r \in part'[0] /\ r \in flat'
        BY <2>1, <2>2, <2>3, <3>1 DEF Parts
      <4>2. r \in File(0)'
        BY <4>1, ContentsHas DEF File, Contents
      <4>3. QED  BY <4>1, <4>2 DEF Found
    <3>2. CASE job # "detach"
      <4>1. PICK j \in Shards : r \in new.part[j]
        BY <2>3, <3>2
      <4>2. j \in Parts(kind)' /\ r \in part'[j] /\ r \in dir'.file[j] /\ j # 0
        BY <2>1, <2>2, <3>2, <4>1, Bounds DEF Parts, Shards
      <4>3. r \in File(j)'
        BY <4>2, ContentsHas DEF File, Contents
      <4>4. QED  BY <4>2, <4>3 DEF Found
    <3>3. QED  BY <3>1, <3>2
  <2>5. ~sync.wrote
    BY <2>1, Bounds DEF IInv, ControlInv, SwapSteps
  <2>6. kind' = "ivf" => dir'.centroids
    BY <2>1, <2>2
  <2>7. Indexed' \subseteq rec
    BY <2>1 DEF Indexed
  <2>8. QED  BY <2>1, <2>4, <2>5, <2>6, <2>7 DEF LossInv, Safe
<1>23. CASE SwapFails
  BY <1>23 DEF SwapFails, Fails, LossInv
<1>24. CASE JobFinish
  <2>1. /\ up /\ pc = "finish" /\ pc' = "idle"
        /\ UNCHANGED <<rec, flat, dir, catalog, put, outcome, up, kind, part, dirty, sync, hollow>>
        /\ LateKept
    BY <1>5a, <1>24 DEF JobFinish, At, Goes
  <2>2. Safe => Safe'
    BY <1>2, <2>1
  <2>3. QED  BY <1>0, <2>1, <2>2 DEF LossInv
<1>25. CASE Crash
  <2>1. /\ up /\ ~up' /\ pc' # "finish" /\ put' = [put EXCEPT !.applied = FALSE]
        /\ UNCHANGED <<rec, flat, dir, catalog, job, outcome, hollow>>
    BY <1>25 DEF Crash, Lost
  <2>2. put'.v = put.v
    BY <2>1 DEF RowsInv
  <2>3. QED  BY <1>1, <1>4, <2>1, <2>2
<1>26. CASE Open
  <2>1. /\ up' = TRUE /\ kind' = LoadedKind /\ DOMAIN Loaded = 0..NShards
        /\ \A r \in rec, j \in 0..NShards : r \in Loaded[j] => r \in part'[j]
        /\ hollow' = (mixed \/ ~({r \in rec : r[2] # put.v} \subseteq Entries(Loaded)))
    BY <1>26, OpenEffect DEF IInv
  <2>2. /\ ~up /\ UNCHANGED <<rec, catalog, put, job, outcome, pc, sync>>
        /\ IF Ghosts = {} THEN UNCHANGED <<flat, dir>>
           ELSE IF LoadedKind = "flat" THEN flat' = part'[0] /\ dir' = dir
           ELSE flat' = flat /\ dir' = [dir EXCEPT !.file = [j \in Shards |-> part'[j]]]
    BY <1>26 DEF Open
  <2>3. ASSUME Safe  PROVE Safe'
    <3>1. /\ {r \in rec : r[2] # put.v} \subseteq Entries(Loaded)
          /\ catalog = "ivf" => dir.centroids
      BY <2>2, <2>3 DEF Safe
    <3>2. LoadedKind = catalog
      BY <3>1 DEF LoadedKind, KindInv
    <3>3. dir'.centroids = dir.centroids
      BY <2>2 DEF IInv, Shape
    <3>4. ~sync.wrote /\ ~put.applied
      BY <2>2, Bounds DEF IInv, ControlInv, RowsInv
    <3>5. ASSUME NEW r \in rec, r[2] # put.v  PROVE Found(r)'
      <4>1. PICK j \in 0..NShards : r \in Loaded[j]
        BY <3>1, <3>5 DEF Entries
      <4>2. j \in Parts(LoadedKind) /\ Loaded[j] = File(j)
        BY <4>1, <3>1, <3>2, LoadedFiles, ShardsType DEF Parts, File, Loaded
      <4>3. r \in part'[j] /\ j \in Parts(kind)'
        BY <2>1, <4>1, <4>2 DEF Parts, Shards
      <4>4. r \in File(j)'
        <5>1. CASE Ghosts = {}
          BY <2>2, <4>1, <4>2, <5>1 DEF File
        <5>2. CASE Ghosts # {} /\ LoadedKind = "flat"
          <6>1. j = 0 /\ flat' = part'[0]
            BY <2>2, <4>2, <5>2 DEF Parts
          <6>2. QED  BY <4>3, <6>1, ContentsHas DEF File, Contents
        <5>3. CASE Ghosts # {} /\ LoadedKind # "flat"
          <6>1. j \in Shards /\ j # 0 /\ dir' = [dir EXCEPT !.file = [i \in Shards |-> part'[i]]]
            BY <2>2, <4>2, <5>3, Bounds DEF Parts, LoadedKind
          <6>2. dir'.file[j] = part'[j]
            BY <6>1 DEF IInv, Shape
          <6>3. QED  BY <4>3, <6>1, <6>2, ContentsHas DEF File, Contents
        <5>4. QED  BY <5>1, <5>2, <5>3
      <4>5. QED  BY <4>3, <4>4 DEF Found
    <3>6. ASSUME NEW r \in Indexed'  PROVE Found(r)'
      BY <2>2, <3>4, <3>5 DEF Indexed
    <3>7. QED  BY <1>0, <2>1, <2>2, <3>1, <3>2, <3>3, <3>4, <3>6 DEF Safe
  <2>4. QED  BY <1>1, <2>2, <2>3
<1>27. CASE DeleteSyncAbandoned
  <2>1. /\ UNCHANGED <<rec, flat, dir, catalog, put, job, outcome, up, kind, part, dirty, pc, hollow>>
        /\ sync' = NoSync /\ late' = [NoLate EXCEPT !.at = sync.at, !.wrote = sync.wrote, !.raced = sync.raced]
        /\ sync.at # 0
    BY <1>27, Bounds DEF DeleteSyncAbandoned
  <2>2. sync'.at \in {0, 1} /\ ~sync'.wrote /\ up
    BY <1>5, <2>1 DEF NoSync
  <2>3. late'.at = sync.at /\ late'.wrote = sync.wrote
    BY <2>1 DEF NoLate
  <2>4. LateKept
    BY <2>3 DEF LateKept, LateSynced, Synced
  <2>5. QED  BY <1>1, <1>2, <2>1, <2>2, <2>4
<1>28. CASE LateStep
  <2>1. /\ UNCHANGED <<rec, catalog, queue, up, kind, part, pc, sync, hollow>>
        /\ dirty' \subseteq dirty /\ late.at # 0
        /\ ~Outdated \/ UNCHANGED <<flat, dir>>
    BY <1>0, <1>28, LateEffect DEF IInv
  <2>2. CASE ~up
    <3>1. Outdated
      BY <2>1, <2>2 DEF IInv, LateInv, Outdated
    <3>2. QED  BY <1>1, <1>3, <2>1, <2>2, <3>1
  <2>3. CASE up /\ late.stale
    <3>1. \A j : File(j)' = File(j)
      BY <2>1, <2>3 DEF File, Outdated
    <3>2. \A j : Synced(j)' => Synced(j)
      BY <1>28, <2>3, LateStale DEF IInv
    <3>3. ASSUME Safe  PROVE Safe'
      <4>1. (catalog' = kind \/ pc' = "assign") /\ Indexed' \subseteq Indexed
        BY <2>1, <2>3, <3>3 DEF Safe, Indexed
      <4>2. QED  BY <2>1, <2>3, <3>1, <3>2, <3>3, <4>1, SafeKept DEF Outdated
    <3>4. QED  BY <1>1, <2>1, <3>3
  <2>4. CASE up /\ ~Outdated
    <3>1. ASSUME Safe  PROVE Safe'
      <4>1. (catalog' = kind \/ pc' = "assign") /\ Indexed' \subseteq Indexed
        BY <2>1, <2>4, <3>1 DEF Safe, Indexed
      <4>2. ASSUME NEW r \in rec, NEW j \in Parts(kind), r \in part[j],
                   r[2] # put.v \/ Synced(j) => r \in File(j), r[2] # put.v \/ Synced(j)'
            PROVE  r \in File(j)'
        BY <1>28, <2>4, <4>2, LateFiles DEF IInv
      <4>3. dir.centroids => dir'.centroids
        <5>1. \A c, f : [dir EXCEPT !.centroids = c].centroids = c /\ [centroids |-> c, file |-> f].centroids = c
          BY DEF IInv, Shape
        <5>2. CASE LateFlat \/ LateClears \/ LateRaises
          BY <5>2 DEF LateFlat, LateClears, LateRaises
        <5>3. CASE LateShard
          <6>1. dir'.centroids = (dir.centroids \/ late.at = 1)
            BY <5>1, <5>3 DEF LateShard
          <6>2. QED  BY <6>1
        <5>4. QED  BY <1>28, <5>2, <5>3 DEF LateStep
      <4>4. QED  BY <2>1, <2>4, <3>1, <4>1, <4>2, <4>3, SafeKept
    <3>2. QED  BY <1>1, <2>1, <3>1
  <2>5. CASE up /\ ~late.stale /\ Outdated
    <3>1. kind = "ivf" /\ job # "detach" /\ pc \in {"catalog", "assign"}
      BY <2>5 DEF Outdated, Renamed
    <3>2. job # "retune" /\ job # "none"
      BY <3>1 DEF BuildInv, Building, SwapSteps, IInv, ControlInv
    <3>3. job' = "attach" /\ pc' # "finish"
      BY <2>1, <3>1, <3>2 DEF KindInv
    <3>4. QED  BY <3>3 DEF LossInv
  <2>6. QED  BY <2>2, <2>3, <2>4, <2>5 DEF IInv, Shape
<1>29. QED  BY <1>6, <1>7, <1>8, <1>9, <1>10, <1>11, <1>12, <1>13, <1>14, <1>15, <1>16, <1>17,
    <1>18, <1>19, <1>20, <1>21, <1>22, <1>23, <1>24, <1>25, <1>26, <1>27, <1>28 DEF Next, LateStep

\* The inductive invariant: that of the caches, the rows, the build and the files.
LossIInv == IInv /\ RowsInv /\ KindInv /\ BuildInv /\ LossInv

\* The rows at first.
LEMMA InitRows == Init => RowsInv
<1> SUFFICES ASSUME Init  PROVE RowsInv
  OBVIOUS
<1>1. rec = {<<i, i>> : i \in 1..Stored} /\ Stored \in Nat
  BY SwapAssumption DEF Init
<1>2. IsFiniteSet(rec)
  <2> DEFINE f == [i \in 1..Stored |-> <<i, i>>]
  <2>1. f \in Surjection(1..Stored, rec)
    BY <1>1 DEF Surjection
  <2>2. IsFiniteSet(1..Stored)
    BY <1>1, FS_Interval
  <2> HIDE DEF f
  <2>3. QED  BY <2>1, <2>2, FS_Surjection
<1>3. put \in [v : Nat, applied : BOOLEAN] /\ ~put.applied
  BY DEF Init, NoPut
<1>4. used \in [Events -> Nat] /\ del.stage # "unindex"
  BY DEF Init, NoDel
<1>5. rec \subseteq (Nat \ {0}) \X (Nat \ {0}) /\ \A r, q \in rec : r[1] = q[1] => r = q
  BY <1>1
<1>6. QED  BY <1>2, <1>3, <1>4, <1>5 DEF RowsInv

\* A row has a shard.
LEMMA ShardOfRow ==
  ASSUME NEW i \in Nat
  PROVE  1 + (i % NShards) \in Shards
BY ShardsType

\* The invariant holds at first.
LEMMA InitLoss == Init => LossIInv /\ MemoryInv
<1> SUFFICES ASSUME Init  PROVE LossIInv /\ MemoryInv
  OBVIOUS
<1>1. IInv /\ RowsInv /\ KindInv
  BY InitInv, InitRows DEF Init, KindInv
<1>2. /\ pc = "idle" /\ new = NoBuild /\ up = TRUE /\ hollow = FALSE /\ catalog = kind
      /\ kind \in {"flat", "ivf"} /\ sync = NoSync /\ rec = {<<i, i>> : i \in 1..Stored}
  BY DEF Init
<1>3. BuildInv
  BY <1>2, NoBuildEffect DEF BuildInv, Building, SwapSteps
<1>4. \A r \in rec : r[1] \in Nat
  BY <1>2
<1>5. \A r \in rec : \E j \in Parts(kind) : r \in part[j] /\ r \in File(j)
  <2>1. CASE kind = "flat"
    <3>1. part[0] = rec /\ flat = rec
      BY <2>1, Bounds DEF Init
    <3>2. QED  BY <1>1, <2>1, <3>1, ContentsHas DEF Parts, File, Contents
  <2>2. CASE kind = "ivf"
    <3>1. \A j \in Shards : part[j] = {r \in rec : j = 1 + (r[1] % NShards)} /\ dir.file[j] = part[j]
      BY <2>2, Bounds DEF Init
    <3>2. ASSUME NEW r \in rec  PROVE \E j \in Shards : r \in part[j] /\ r \in File(j)
      <4>1. PICK j \in Shards : j = 1 + (r[1] % NShards)
        BY <1>4, ShardOfRow
      <4>2. r \in part[j] /\ r \in dir.file[j] /\ j # 0
        BY <3>1, <4>1, Bounds
      <4>3. QED  BY <1>1, <4>2, ContentsHas DEF File, Contents
    <3>3. QED  BY <2>2, <3>2 DEF Parts
  <2>3. QED  BY <1>2, <2>1, <2>2
<1>6. kind = "ivf" => dir.centroids
  BY DEF Init
<1>7. ~sync.wrote
  BY <1>2 DEF NoSync
<1>8. Indexed \subseteq rec
  BY DEF Indexed
<1>9. \A r \in Indexed : Found(r)
  BY <1>5, <1>8 DEF Found
<1>10. LossInv
  BY <1>2, <1>6, <1>7, <1>9 DEF LossInv, Safe
<1>11. MemoryInv
  <2>1. Parts(kind) \subseteq 0..NShards
    BY Bounds DEF Parts
  <2>2. QED  BY <1>5, <1>8, <2>1 DEF MemoryInv, Entries
<1>12. QED  BY <1>1, <1>3, <1>10, <1>11 DEF LossIInv

\* The inductive invariant of the rows: where the index in memory, the one being built
\* and the files have them.
THEOREM LossInvariant == Spec => [](LossIInv /\ MemoryInv)
<1>1. Init => LossIInv /\ MemoryInv
  BY InitLoss
<1>2. LossIInv /\ MemoryInv /\ [Next]_vars => (LossIInv /\ MemoryInv)'
  <2> SUFFICES ASSUME LossIInv, MemoryInv, [Next]_vars  PROVE (LossIInv /\ MemoryInv)'
    OBVIOUS
  <2>1. IInv /\ RowsInv /\ KindInv /\ BuildInv /\ LossInv
    BY DEF LossIInv
  <2>2. IInv'
    BY <2>1, ShapeStep, ControlStep, CacheStep, LateInvStep DEF IInv
  <2>3. RowsInv' /\ KindInv' /\ BuildInv' /\ LossInv' /\ MemoryInv'
    BY <2>1, RowsStep, KindStep, BuildStep, LossStep, MemoryStep
  <2>4. QED  BY <2>2, <2>3 DEF LossIInv
<1>3. QED  BY <1>1, <1>2, PTL DEF Spec

\* Every row of an ingest job that need not replay is in the index in memory, through
\* upserts, deletes, builds and swaps that fail at any step (add_with_ids, _swap_index):
\* what IndexIsTheRows says of lost rows, also inside the write sections.
THEOREM RowsAreInTheIndex == Spec => []MemoryInv
<1>1. QED  BY LossInvariant, PTL

\* A crash at any step of a sync, a swap or a delete leaves the rows in an index that the
\* next open loads; or the index job that rebuilds it is open, or has ended in 'error';
\* or a sync whose delete has no caller any more has written into another index.
THEOREM NothingIsLost == Spec => []NothingLost
<1>1. LossIInv => NothingLost
  BY DEF LossIInv, LossInv, Safe, NothingLost
<1>2. QED  BY <1>1, LossInvariant, PTL

-----------------------------------------------------------------------------
\* What is in the index, as long as every delete has returned.

\* Each id has one entry.
OneEach(p) == \A i, j \in 0..NShards : \A e \in p[i], d \in p[j] : e[1] = d[1] => i = j /\ e = d

\* A put has one row.
OnePut == \A r, q \in rec : r[2] = q[2] => r = q

\* An upsert removes the row that an earlier run of its job left.
LEMMA OnePutStep ==
  ASSUME IInv, RowsInv, OnePut, [Next]_vars
  PROVE  OnePut'
<1> USE DEF disk, queue, index, syncs, history
<1>1. ASSUME rec' \subseteq rec  PROVE OnePut'
  BY <1>1 DEF OnePut
<1>2. CASE UNCHANGED vars
  BY <1>1, <1>2 DEF vars
<1>3. CASE SyncFlat \/ SyncShard \/ SyncClears \/ SyncEnds \/ SyncFails \/ Flush
  BY <1>1, <1>3 DEF SyncFlat, SyncShard, SyncClears, SyncEnds, SyncFails, Flush
<1>4. CASE Put
  <2>1. put'.v \in Nat \ {0} /\ Upsert(put'.v)
    BY <1>4, PutEffect
  <2>2. PICK v : v = put'.v
    OBVIOUS
  <2>3. rec' = (rec \ Replaced(v)) \cup {<<NextId, v>>}
    BY <2>1, <2>2, UpsertRows DEF IInv
  <2>4. \A r \in rec \ Replaced(v) : r[2] # v
    BY DEF Replaced
  <2>5. QED  BY <2>3, <2>4 DEF OnePut
<1>5. CASE DeleteBegins \/ DeleteCommits \/ DeleteUnindexes \/ DeleteWritten \/ DeleteAbandoned
              \/ DeleteSyncAbandoned
  BY <1>1, <1>5 DEF DeleteBegins, DeleteCommits, DeleteUnindexes, DeleteWritten, DeleteAbandoned,
    DeleteSyncAbandoned
<1>6. CASE ProbeBegins \/ ProbeReads \/ ProbeStores \/ Stop \/ Crash \/ Open
  BY <1>1, <1>6 DEF ProbeBegins, ProbeReads, ProbeStores, Stop, Crash, Open
<1>7. ASSUME NEW op \in Asks, Ask(op)  PROVE OnePut'
  BY <1>1, <1>7 DEF Ask
<1>8. CASE JobStart \/ Sample \/ Backfill \/ Stream \/ SwapBegins
  BY <1>1, <1>8 DEF JobStart, Sample, Backfill, Stream, SwapBegins
<1>9. CASE SwapRemove \/ SwapRename \/ SwapReplace \/ SwapCatalog \/ SwapAssign \/ SwapFails \/ JobFinish
  BY <1>1, <1>9 DEF SwapRemove, SwapRename, SwapReplace, SwapCatalog, SwapAssign, SwapFails, JobFinish
<1>10. CASE LateStep
  BY <1>1, <1>10, LateEffect DEF IInv
<1>11. QED  BY <1>2, <1>3, <1>4, <1>5, <1>6, <1>7, <1>8, <1>9, <1>10 DEF Next, LateStep

\* A delete that does not return stays one.
LEMMA OrphansStay ==
  ASSUME [Next]_vars
  PROVE  orphans \subseteq orphans'
<1> USE DEF disk, queue, index, syncs, history
<1>1. CASE UNCHANGED vars
  BY <1>1 DEF vars
<1>2. CASE SyncFlat \/ SyncShard \/ SyncClears \/ SyncEnds \/ SyncFails \/ Put \/ Flush
  BY <1>2 DEF SyncFlat, SyncShard, SyncClears, SyncEnds, SyncFails, Put, Flush
<1>3. CASE DeleteBegins \/ DeleteCommits \/ DeleteUnindexes \/ DeleteWritten \/ DeleteAbandoned
              \/ DeleteSyncAbandoned
  BY <1>3 DEF DeleteBegins, DeleteCommits, DeleteUnindexes, DeleteWritten, DeleteAbandoned,
    DeleteSyncAbandoned
<1>4. CASE ProbeBegins \/ ProbeReads \/ ProbeStores \/ Stop \/ Crash \/ Open
  BY <1>4 DEF ProbeBegins, ProbeReads, ProbeStores, Stop, Crash, Open
<1>5. ASSUME NEW op \in Asks, Ask(op)  PROVE orphans \subseteq orphans'
  BY <1>5 DEF Ask
<1>6. CASE JobStart \/ Sample \/ Backfill \/ Stream \/ SwapBegins
  BY <1>6 DEF JobStart, Sample, Backfill, Stream, SwapBegins
<1>7. CASE SwapRemove \/ SwapRename \/ SwapReplace \/ SwapCatalog \/ SwapAssign \/ SwapFails \/ JobFinish
  BY <1>7 DEF SwapRemove, SwapRename, SwapReplace, SwapCatalog, SwapAssign, SwapFails, JobFinish
<1>8. CASE LateFlat \/ LateShard \/ LateClears \/ LateRaises
  BY <1>8 DEF LateFlat, LateShard, LateClears, LateRaises
<1>9. QED  BY <1>1, <1>2, <1>3, <1>4, <1>5, <1>6, <1>7, <1>8 DEF Next

\* Then no sync is abandoned.
NoLateSync == late.at = 0 /\ ~mixed
LEMMA NoLateStep ==
  ASSUME IInv, NoLateSync, [Next]_vars, orphans' = {}
  PROVE  NoLateSync'
<1> USE DEF NoLateSync, disk, queue, index, syncs, history
<1>1. ASSUME late' = late \/ (\E J : late' = Race(late, J)) \/ late' = NoLate, mixed' = mixed
      PROVE  NoLateSync'
  BY <1>1 DEF NoLate, Race, IInv, LateInv
<1>2. CASE UNCHANGED vars
  BY <1>1, <1>2 DEF vars
<1>3. CASE SyncFlat \/ SyncShard \/ SyncClears \/ SyncEnds \/ SyncFails \/ Flush
  BY <1>1, <1>3 DEF SyncFlat, SyncShard, SyncClears, SyncEnds, SyncFails, Flush, Leave
<1>4. CASE Put
  BY <1>1, <1>4 DEF Put, Upsert, Written
<1>5. CASE DeleteBegins \/ DeleteCommits \/ DeleteUnindexes \/ DeleteWritten
  BY <1>1, <1>5 DEF DeleteBegins, DeleteCommits, DeleteUnindexes, DeleteWritten, Written
<1>6. CASE DeleteAbandoned \/ DeleteSyncAbandoned
  BY <1>6 DEF DeleteAbandoned, DeleteSyncAbandoned
<1>7. CASE ProbeBegins \/ ProbeReads \/ ProbeStores \/ Stop \/ Crash \/ Open
  BY <1>1, <1>7 DEF ProbeBegins, ProbeReads, ProbeStores, Stop, Crash, Open
<1>8. ASSUME NEW op \in Asks, Ask(op)  PROVE NoLateSync'
  BY <1>1, <1>8 DEF Ask
<1>9. CASE JobStart \/ Sample \/ Backfill \/ Stream \/ SwapBegins
  BY <1>1, <1>9 DEF JobStart, Sample, Backfill, Stream, SwapBegins
<1>10. CASE SwapRemove \/ SwapRename \/ SwapReplace \/ SwapCatalog \/ SwapAssign \/ SwapFails \/ JobFinish
  BY <1>1, <1>10 DEF SwapRemove, SwapRename, SwapReplace, SwapCatalog, SwapAssign, SwapFails, JobFinish, Leave
<1>11. CASE LateStep
  BY <1>11, LateEffect DEF IInv
<1>12. QED  BY <1>2, <1>3, <1>4, <1>5, <1>6, <1>7, <1>8, <1>9, <1>10, <1>11 DEF Next, LateStep

\* No write races a sync: it leaves every shard it is past clean.
Quiet ==
  /\ NoLateSync
  /\ ~del.orphan /\ ~sync.raced
  /\ kind = "ivf" => \A j \in Shards : j < sync.at => j \notin dirty

\* Only the thread of an abandoned delete writes next to a sync.
LEMMA QuietStep ==
  ASSUME IInv, Quiet, [Next]_vars, orphans' = {}
  PROVE  Quiet'
<1> USE DEF disk, queue, index, syncs, history
<1>0. NoLateSync'
  BY NoLateStep DEF Quiet
<1>1. ASSUME del'.orphan = FALSE, sync'.raced = FALSE,
             \/ sync'.at = sync.at /\ kind' = kind /\ dirty' = dirty
             \/ kind' = "flat" \/ dirty' = {} \/ sync'.at \in {0, 1}
      PROVE  Quiet'
  BY <1>0, <1>1, ShardsType DEF Quiet, Shards
<1>2. NoDel.orphan = FALSE /\ NoSync.raced = FALSE /\ NoSync.at = 0
      /\ [NoSync EXCEPT !.at = 1].raced = FALSE /\ [NoSync EXCEPT !.at = 1].at = 1
  BY DEF NoDel, NoSync
<1>3. del.orphan = FALSE /\ sync.raced = FALSE
  BY DEF Quiet, IInv, Shape
<1>4. CASE UNCHANGED vars
  BY <1>1, <1>3, <1>4 DEF vars
<1>5. CASE SyncFlat
  <2>1. kind' = "flat" /\ del' = del /\ sync' = [NoSync EXCEPT !.at = NShards + 1]
    BY <1>5 DEF SyncFlat
  <2>2. sync'.raced = FALSE
    BY <2>1 DEF NoSync
  <2>3. QED  BY <1>1, <1>3, <2>1, <2>2
<1>6. CASE SyncShard
  <2>1. sync.at \in Shards /\ UNCHANGED <<del, kind, dirty>>
    BY <1>6 DEF SyncShard
  <2>2. CASE SyncWrites(sync.at)
    <3>1. sync' = [sync EXCEPT !.wrote = TRUE]
      BY <1>6, <2>2 DEF SyncShard
    <3>2. sync'.at = sync.at /\ sync'.raced = sync.raced
      BY <3>1 DEF IInv, Shape
    <3>3. QED  BY <1>1, <1>3, <2>1, <3>2
  <2>3. CASE ~SyncWrites(sync.at)
    <3>1. sync' = [NoSync EXCEPT !.at = sync.at + 1] /\ sync.at \notin dirty
      BY <1>6, <2>3 DEF SyncShard, SyncWrites, SyncNext
    <3>2. sync'.at = sync.at + 1 /\ sync'.raced = FALSE
      BY <3>1 DEF NoSync
    <3>3. QED  BY <1>0, <1>3, <2>1, <3>1, <3>2, ShardsType DEF Quiet, Shards
  <2>4. QED  BY <2>2, <2>3
<1>7. CASE SyncClears
  <2>1. sync' = [NoSync EXCEPT !.at = sync.at + 1] /\ dirty' = dirty \ {sync.at} /\ UNCHANGED <<del, kind>>
    BY <1>3, <1>7 DEF SyncClears, SyncNext, Clears
  <2>2. sync'.at = sync.at + 1 /\ sync'.raced = FALSE
    BY <2>1 DEF NoSync
  <2>3. sync.at \in Shards
    BY <1>7 DEF SyncClears, IInv, ControlInv
  <2>4. QED  BY <1>0, <1>3, <2>1, <2>2, <2>3, ShardsType DEF Quiet, Shards
<1>8. CASE SyncEnds \/ SyncFails
  <2>1. sync' = NoSync /\ del' \in {NoDel, del}
    BY <1>8 DEF SyncEnds, SyncFails, Lost
  <2>2. QED  BY <1>1, <1>2, <1>3, <2>1
<1>9. CASE Put
  <2>1. UNCHANGED <<del, sync>> /\ holder = "none"
    BY <1>9 DEF Put
  <2>2. sync.at = 0
    BY <2>1 DEF IInv, ControlInv
  <2>3. QED  BY <1>1, <1>3, <2>1, <2>2
<1>10. CASE Flush \/ Stop
  BY <1>1, <1>2, <1>3, <1>10 DEF Flush, Stop, SyncBegins
<1>11. CASE DeleteBegins
  <2>1. del'.orphan = FALSE /\ UNCHANGED <<kind, dirty, sync>>
    BY <1>11 DEF DeleteBegins, NoDel
  <2>2. QED  BY <1>1, <1>3, <2>1
<1>12. CASE DeleteCommits
  <2>1. del'.orphan = del.orphan /\ UNCHANGED <<kind, dirty, sync>>
    BY <1>12 DEF DeleteCommits, IInv, Shape
  <2>2. QED  BY <1>1, <1>3, <2>1
<1>13. CASE DeleteUnindexes \/ DeleteWritten
  <2>1. ASSUME ThreadEnds  PROVE Quiet'
    <3>1. del' = [del EXCEPT !.stage = "sync"] /\ sync' = [NoSync EXCEPT !.at = 1]
      BY <1>3, <2>1 DEF ThreadEnds, SyncBegins
    <3>2. del'.orphan = FALSE
      BY <1>3, <3>1 DEF IInv, Shape
    <3>3. QED  BY <1>1, <1>2, <3>1, <3>2
  <2>2. CASE ~ThreadEnds
    <3>1. /\ UNCHANGED <<kind, dirty, sync>>
          /\ \E j : del' = [del EXCEPT !.stage = "written", !.at = j]
      BY <1>13, <2>2 DEF DeleteUnindexes, DeleteWritten
    <3>2. del'.orphan = FALSE
      BY <1>3, <3>1 DEF IInv, Shape
    <3>3. QED  BY <1>1, <1>3, <3>1, <3>2
  <2>3. QED  BY <2>1, <2>2
<1>14. CASE DeleteAbandoned \/ DeleteSyncAbandoned
  BY <1>14 DEF DeleteAbandoned, DeleteSyncAbandoned
<1>15. CASE ProbeBegins \/ ProbeReads \/ ProbeStores
  BY <1>1, <1>3, <1>15 DEF ProbeBegins, ProbeReads, ProbeStores
<1>16. ASSUME NEW op \in Asks, Ask(op)  PROVE Quiet'
  BY <1>1, <1>3, <1>16 DEF Ask
<1>17. CASE JobStart \/ Sample \/ Backfill \/ Stream \/ SwapBegins
  BY <1>1, <1>3, <1>17 DEF JobStart, Sample, Backfill, Stream, SwapBegins
<1>18. CASE SwapRemove \/ SwapRename \/ SwapReplace \/ SwapCatalog \/ SwapFails \/ JobFinish
  BY <1>1, <1>3, <1>18 DEF SwapRemove, SwapRename, SwapReplace, SwapCatalog, SwapFails, JobFinish
<1>19. CASE SwapAssign
  <2>1. del'.orphan = del.orphan /\ dirty' = {} /\ sync' = sync
    BY <1>19 DEF SwapAssign, Becomes, IInv, Shape
  <2>2. QED  BY <1>1, <1>3, <2>1
<1>20. CASE Crash
  BY <1>1, <1>2, <1>20 DEF Crash, Lost
<1>21. CASE Open
  BY <1>1, <1>3, <1>21 DEF Open
<1>22. CASE LateStep
  BY <1>22, LateEffect DEF Quiet, NoLateSync, IInv
<1>23. QED  BY <1>4, <1>5, <1>6, <1>7, <1>8, <1>9, <1>10, <1>11, <1>12, <1>13, <1>14, <1>15,
    <1>16, <1>17, <1>18, <1>19, <1>20, <1>21, <1>22 DEF Next, LateStep

\* The index being built has each id once, and no id that it has not seen; once the swap
\* has taken out what was deleted meanwhile, only ids of rows.
BuiltInv ==
  /\ OneEach(new.part)
  /\ \A j \in 0..NShards : \A e \in new.part[j] : e[1] \in new.seen
  /\ pc \in SwapSteps => \A j \in 0..NShards : \A e \in new.part[j] : e[1] \in Ids(rec)
  /\ pc \in {"sample", "stream"} => ~new.late
  /\ pc \in {"sample", "backfill", "stream"} /\ ~new.late =>
       new.last \in Nat /\ new.seen \subseteq Nat /\ \A i \in new.seen : i <= new.last
  /\ pc = "backfill" /\ new.late =>
       \A r, q \in new.todo : r[1] \notin new.seen /\ (q[1] = r[1] => q = r)

\* Rows that the index has not seen join it.
LEMMA AddsOnce ==
  ASSUME Shape, BuiltInv, NEW E, Adds(E),
         \A r, q \in E : r[1] \notin new.seen /\ (q[1] = r[1] => q = r)
  PROVE  /\ OneEach(new'.part)
         /\ \A j \in 0..NShards : \A e \in new'.part[j] : e[1] \in new'.seen
         /\ new'.last = Max({new.last} \cup Ids(E)) /\ new'.seen = new.seen \cup Ids(E)
         /\ new'.late = new.late
<1>1. PICK f \in Shard(E) :
        new' = [new EXCEPT !.part = [j \in DOMAIN @ |-> @[j] \cup {e \in E : f[e] = j}],
                           !.seen = @ \cup Ids(E), !.todo = {},
                           !.last = Max({@} \cup Ids(E))]
  BY DEF Adds
<1> DEFINE p == [j \in DOMAIN new.part |-> new.part[j] \cup {e \in E : f[e] = j}]
           s == new.seen \cup Ids(E)
           l == Max({new.last} \cup Ids(E))
<1>2. new' = [new EXCEPT !.part = p, !.seen = s, !.todo = {}, !.last = l]
  BY <1>1
<1>3. DOMAIN p = 0..NShards /\ \A j \in 0..NShards : p[j] = new.part[j] \cup {e \in E : f[e] = j}
  BY DEF Shape
<1> HIDE DEF p
<1>4. OneEach(p)
  <2>1. ASSUME NEW i \in 0..NShards, NEW j \in 0..NShards, NEW e \in p[i], NEW d \in p[j], e[1] = d[1]
        PROVE  i = j /\ e = d
    <3>1. \A k \in 0..NShards : \A x \in new.part[k] : x[1] \in new.seen
      BY DEF BuiltInv
    <3>2. (e \in new.part[i] \/ (e \in E /\ f[e] = i)) /\ (d \in new.part[j] \/ (d \in E /\ f[d] = j))
      BY <1>3
    <3>3. CASE e \in new.part[i] /\ d \in new.part[j]
      BY <2>1, <3>3 DEF BuiltInv, OneEach
    <3>4. CASE e \in E /\ f[e] = i /\ d \in E /\ f[d] = j
      BY <2>1, <3>4
    <3>5. QED  BY <2>1, <3>1, <3>2, <3>3, <3>4
  <2>2. QED  BY <2>1 DEF OneEach
<1>5. \A j \in 0..NShards : \A e \in p[j] : e[1] \in s
  BY <1>3 DEF BuiltInv, Ids
<1> HIDE DEF s, l
<1>6. new'.part = p /\ new'.seen = s /\ new'.last = l /\ new'.late = new.late
  BY <1>2 DEF Shape
<1>7. OneEach(new'.part)
  BY <1>4, <1>6
<1>8. QED  BY <1>5, <1>6, <1>7 DEF s, l

\* A block of the stream has higher ids than those before, and the rows that joined late
\* are those it has skipped.
LEMMA BuiltStep ==
  ASSUME IInv, RowsInv, BuildInv, Quiet, BuiltInv, [Next]_vars, orphans' = {}
  PROVE  BuiltInv'
<1> USE DEF disk, queue, index, syncs, history
<1>1. ASSUME pc' = pc, new' = new, pc \in SwapSteps => rec' = rec
      PROVE  BuiltInv'
  BY <1>1 DEF BuiltInv, OneEach, Ids
<1>2. ASSUME pc' \notin Building, new' = NoBuild  PROVE BuiltInv'
  <2>1. \A j \in 0..NShards : new'.part[j] = {}
    BY <1>2, NoBuildEffect
  <2>2. pc' \notin SwapSteps /\ pc' \notin {"sample", "backfill", "stream"}
    BY <1>2 DEF Building
  <2>3. QED  BY <2>1, <2>2 DEF BuiltInv, OneEach
<1>3. "idle" \notin Building /\ "off" \notin Building /\ "finish" \notin Building
  BY DEF Building, SwapSteps
<1>4. pc \in SwapSteps => holder = "swap"
  BY DEF IInv, ControlInv
<1>6. CASE UNCHANGED vars
  BY <1>1, <1>6 DEF vars
<1>7. CASE SyncFlat \/ SyncShard \/ SyncClears
  BY <1>1, <1>7 DEF SyncFlat, SyncShard, SyncClears
<1>8. CASE SyncEnds \/ SyncFails
  <2>1. CASE holder = "stop"
    BY <1>2, <1>3, <1>8, <2>1 DEF SyncEnds, SyncFails, Lost
  <2>2. CASE holder # "stop"
    BY <1>1, <1>8, <2>2 DEF SyncEnds, SyncFails
  <2>3. QED  BY <2>1, <2>2
<1>9. CASE Put
  BY <1>2, <1>3, <1>9 DEF Put, BuildInv
<1>10. CASE Flush \/ DeleteBegins \/ DeleteUnindexes \/ DeleteWritten \/ DeleteAbandoned
              \/ DeleteSyncAbandoned
  BY <1>1, <1>10 DEF Flush, DeleteBegins, DeleteUnindexes, DeleteWritten, DeleteAbandoned,
    DeleteSyncAbandoned
<1>11. CASE DeleteCommits
  <2>1. del.stage = "commit" /\ UNCHANGED <<pc, new>>
    BY <1>11 DEF DeleteCommits
  <2>2. holder = "delete"
    BY <2>1 DEF Quiet, IInv, ControlInv
  <2>3. QED  BY <1>1, <1>4, <2>1, <2>2
<1>12. CASE ProbeBegins \/ ProbeReads \/ ProbeStores
  BY <1>1, <1>12 DEF ProbeBegins, ProbeReads, ProbeStores
<1>13. ASSUME NEW op \in Asks, Ask(op)  PROVE BuiltInv'
  BY <1>1, <1>13 DEF Ask
<1>14. CASE JobStart
  <2>1. pc \notin Building /\ new = NoBuild /\ UNCHANGED rec
    BY <1>3, <1>14 DEF JobStart, At, BuildInv
  <2>2. CASE pc' \in {"finish", "idle"} /\ new' \in {new, NoBuild}
    BY <1>2, <1>3, <2>1, <2>2
  <2>3. CASE pc' \in {"sample", "stream"} /\ new' = new
    <3>1. /\ new'.seen = {} /\ ~new'.late /\ new'.last = 0 /\ \A j \in 0..NShards : new'.part[j] = {}
      BY <2>1, <2>3, NoBuildEffect DEF NoBuild
    <3>2. pc' \notin SwapSteps /\ pc' # "backfill"
      BY <2>3 DEF SwapSteps
    <3>3. QED  BY <3>1, <3>2 DEF BuiltInv, OneEach
  <2>4. QED
    BY <1>14, <2>2, <2>3 DEF JobStart, Goes, Fails
<1>15. CASE Sample
  <2>1. /\ pc = "sample" /\ pc' \in {"backfill", "stream"}
        /\ new' = [new EXCEPT !.todo = IF ShortSample THEN rec \ WithVec ELSE {}]
    BY <1>15 DEF Sample, At, Goes
  <2>2. UNCHANGED <<new.seen, new.part, new.late, new.last>>
    BY <2>1 DEF IInv, Shape
  <2>3. pc' \notin SwapSteps
    BY <2>1 DEF SwapSteps
  <2>4. QED  BY <2>1, <2>2, <2>3 DEF BuiltInv, OneEach
<1>16. CASE Backfill
  <2>1. pc = "backfill"
    BY <1>16 DEF Backfill, At
  <2>2. CASE Fails
    BY <1>2, <1>3, <2>2 DEF Fails
  <2>3. CASE ~Fails
    <3>1. /\ IF new.late THEN Adds(new.todo) ELSE new' = [new EXCEPT !.todo = {}]
          /\ pc' = (IF new.late THEN "swap" ELSE "stream")
      BY <1>16, <2>3 DEF Backfill, Goes
    <3>2. CASE new.late
      <4>1. Adds(new.todo) /\ pc' = "swap" /\ pc' \notin SwapSteps
        BY <3>1, <3>2 DEF SwapSteps
      <4>2. \A r, q \in new.todo : r[1] \notin new.seen /\ (q[1] = r[1] => q = r)
        BY <2>1, <3>2 DEF BuiltInv
      <4>3. OneEach(new'.part) /\ \A j \in 0..NShards : \A e \in new'.part[j] : e[1] \in new'.seen
        BY <4>1, <4>2, AddsOnce DEF IInv
      <4>4. QED  BY <4>1, <4>3 DEF BuiltInv, OneEach
    <3>3. CASE ~new.late
      <4>1. pc' = "stream" /\ UNCHANGED <<new.seen, new.part, new.late, new.last>>
        BY <3>1, <3>3 DEF IInv, Shape
      <4>2. pc' \notin SwapSteps
        BY <4>1 DEF SwapSteps
      <4>3. QED  BY <2>1, <3>3, <4>1, <4>2 DEF BuiltInv, OneEach
    <3>4. QED  BY <3>2, <3>3
  <2>4. QED  BY <2>2, <2>3
<1>17. CASE Stream
  <2> DEFINE rest == {r \in WithVec : r[1] > new.last}
             next == CHOOSE r \in rest : \A q \in rest : r[1] <= q[1]
  <2>1. /\ pc = "stream" /\ UNCHANGED rec
        /\ rest \in SUBSET rec
    BY <1>17 DEF Stream, At, WithVec
  <2>2. ~new.late /\ new.last \in Nat /\ new.seen \subseteq Nat /\ \A i \in new.seen : i <= new.last
    BY <2>1 DEF BuiltInv
  <2>3. CASE Fails
    BY <1>2, <1>3, <2>3 DEF Fails
  <2>4. CASE rest # {} /\ Adds({next}) /\ pc' = pc
    <3>1. PICK r \in rest : r = next
      BY <2>1, <2>4, StreamBlock
    <3> HIDE DEF next
    <3>2. r[1] \in Nat /\ r[1] > new.last
      BY <2>1, <3>1 DEF RowsInv
    <3>3. \A x, q \in {next} : x[1] \notin new.seen /\ (q[1] = x[1] => q = x)
      BY <2>2, <3>1, <3>2
    <3>4. /\ OneEach(new'.part)
          /\ \A j \in 0..NShards : \A e \in new'.part[j] : e[1] \in new'.seen
          /\ new'.last = Max({new.last} \cup Ids({next})) /\ new'.seen = new.seen \cup Ids({next})
          /\ new'.late = new.late
      BY <2>4, <3>3, AddsOnce DEF IInv
    <3>5. Ids({next}) = {r[1]}
      BY <3>1 DEF Ids
    <3> DEFINE S == {new.last} \cup {r[1]}
    <3>6. Max(S) \in S /\ \A n \in S : n <= Max(S)
      <4>1. S \subseteq Nat /\ S # {}
        BY <2>2, <3>2
      <4>2. IsFiniteSet(S)
        BY FS_Singleton, FS_Union
      <4> HIDE DEF S
      <4>3. QED  BY <4>1, <4>2, MaxIsGreatest
    <3>7. new'.last = Max(S) /\ new'.seen = new.seen \cup {r[1]}
      BY <3>4, <3>5
    <3>8. new'.last \in Nat /\ new.last <= new'.last /\ r[1] <= new'.last
      BY <2>2, <3>2, <3>6, <3>7
    <3>9. new'.seen \subseteq Nat /\ \A i \in new'.seen : i <= new'.last
      BY <2>2, <3>2, <3>7, <3>8
    <3>10. pc' \notin SwapSteps /\ pc' # "backfill"
      BY <2>1, <2>4 DEF SwapSteps
    <3>11. QED  BY <2>2, <3>4, <3>8, <3>9, <3>10 DEF BuiltInv, OneEach
  <2>5. CASE pc' = "swap" /\ new' = new
    <3>1. pc' \notin SwapSteps
      BY <2>5 DEF SwapSteps
    <3>2. QED  BY <2>5, <3>1 DEF BuiltInv, OneEach
  <2>6. CASE pc' = "backfill" /\ new' = [new EXCEPT !.todo = Missing, !.late = TRUE]
    <3>1. new'.seen = new.seen /\ new'.part = new.part /\ new'.todo = Missing /\ new'.late = TRUE
      BY <2>6 DEF IInv, Shape
    <3>2. \A r, q \in Missing : r[1] \notin new.seen /\ (q[1] = r[1] => q = r)
      BY DEF Missing, RowsInv
    <3>3. pc' \notin SwapSteps
      BY <2>6 DEF SwapSteps
    <3>4. QED  BY <2>6, <3>1, <3>2, <3>3 DEF BuiltInv, OneEach
  <2>7. QED  BY <1>17, <2>3, <2>4, <2>5, <2>6 DEF Stream, Goes
<1>18. CASE SwapBegins
  <2>1. /\ pc = "swap" /\ pc' \in {"replace", "rename", "remove"} /\ UNCHANGED rec
        /\ new' = [new EXCEPT !.part = [j \in DOMAIN @ |-> Without(@[j], Gone)]]
    BY <1>18 DEF SwapBegins, At, Goes
  <2> DEFINE p == [j \in DOMAIN new.part |-> Without(new.part[j], Gone)]
  <2>2. new' = [new EXCEPT !.part = p]
    BY <2>1
  <2>3. DOMAIN p = 0..NShards /\ \A j \in 0..NShards : p[j] = Without(new.part[j], Gone)
    BY DEF IInv, Shape
  <2> HIDE DEF p
  <2>4. new'.part = p /\ new'.seen = new.seen
    BY <2>2 DEF IInv, Shape
  <2>5. \A j \in 0..NShards : \A e \in p[j] : e \in new.part[j] /\ e[1] \in new.seen /\ e[1] \in Ids(rec)
    BY <2>3 DEF Without, Gone, BuiltInv
  <2>6. Ids(rec)' = Ids(rec)
    BY <2>1 DEF Ids
  <2>7. OneEach(p)
    BY <2>5 DEF BuiltInv, OneEach
  <2>8. OneEach(new'.part)
    BY <2>4, <2>7
  <2>9. pc' \notin {"sample", "backfill", "stream"}
    BY <2>1
  <2>10. \A j \in 0..NShards : \A e \in new'.part[j] : e[1] \in new'.seen /\ e[1] \in Ids(rec)'
    BY <2>4, <2>5, <2>6
  <2>11. QED  BY <2>8, <2>9, <2>10 DEF BuiltInv, OneEach
<1>19. CASE SwapRemove \/ SwapRename \/ SwapReplace \/ SwapCatalog
  <2>1. pc \in SwapSteps /\ pc' \in SwapSteps /\ UNCHANGED <<rec, new>>
    BY <1>19 DEF SwapRemove, SwapRename, SwapReplace, SwapCatalog, At, Goes, SwapSteps
  <2>2. pc' \notin {"sample", "backfill", "stream"}
    BY <2>1 DEF SwapSteps
  <2>3. QED  BY <2>1, <2>2 DEF BuiltInv, OneEach, Ids
<1>20. CASE SwapAssign \/ SwapFails \/ Stop \/ Crash
  BY <1>2, <1>3, <1>20 DEF SwapAssign, SwapFails, Fails, Stop, Crash, Lost, Goes
<1>21. CASE JobFinish
  BY <1>2, <1>3, <1>21 DEF JobFinish, At, Goes, BuildInv
<1>22. CASE Open
  <2>1. pc \notin Building /\ pc' = pc /\ new' = new
    BY <1>3, <1>22 DEF Open, IInv, ControlInv
  <2>2. QED  BY <1>2, <2>1 DEF BuildInv
<1>23. CASE LateStep
  BY <1>23, LateEffect DEF Quiet, NoLateSync, IInv
<1>24. QED  BY <1>6, <1>7, <1>8, <1>9, <1>10, <1>11, <1>12, <1>13, <1>14, <1>15, <1>16, <1>17,
    <1>18, <1>19, <1>20, <1>21, <1>22, <1>23 DEF Next, LateStep

\* An entry of a file whose row is gone, and whose id is not used again: it is below the
\* next id, or the delete has yet to write the shard.
Stale(e) ==
  /\ e[1] \notin Ids(rec)
  /\ (e[1] \in Nat /\ e[1] < NextId) \/ del.stage \in {"unindex", "written", "sync"}

\* While the collection is open every id in memory is of a row, once, and the shard files
\* have nothing else that is not stale; a flat index has no shard files to be taken for it.
ExactMemory ==
  /\ OneEach(part)
  /\ \A j \in 0..NShards : \A e \in part[j] :
       e[1] \in Ids(rec) \/ (del.stage = "unindex" /\ e[1] = del.row[1])
  /\ kind = "ivf" /\ ~Renamed =>
       \A j \in Shards : \A e \in Contents(dir.file[j]) : e \in part[j] \/ Stale(e)
  /\ kind = "flat" /\ catalog = "ivf" /\ dir.centroids => Renamed

\* Each row has at most one entry in what the next open loads.
FlatOnce == \A e, d \in Contents(flat) : e[1] = d[1] => e = d
ShardsOnce ==
  \A i, j \in Shards : \A e \in Contents(dir.file[i]), d \in Contents(dir.file[j]) :
    e[1] = d[1] /\ e[1] \in Ids(rec) => i = j /\ e = d

Exact ==
  /\ up => ExactMemory
  /\ FlatOnce
  /\ ~up /\ catalog = "ivf" /\ dir.centroids => ShardsOnce

\* Every number in Ids of rows is below the next id, after a step, too.
LEMMA NextIdOf ==
  ASSUME NEW R, IsFiniteSet(R), R \subseteq (Nat \ {0}) \X (Nat \ {0})
  PROVE  /\ 1 + Max({0} \cup Ids(R)) \in Nat
         /\ \A i \in Ids(R) : i \in Nat /\ i < 1 + Max({0} \cup Ids(R))
<1> DEFINE S == {0} \cup Ids(R)
<1>1. S \subseteq Nat /\ S # {} /\ Ids(R) \subseteq S
  BY DEF Ids
<1>2. IsFiniteSet(S)
  <2>1. IsFiniteSet(Ids(R))
    <3> DEFINE f == [r \in R |-> r[1]]
    <3>1. f \in Surjection(R, Ids(R))
      BY DEF Ids, Surjection
    <3> HIDE DEF f
    <3>2. QED  BY <3>1, FS_Surjection
  <2>2. QED  BY <2>1, FS_Singleton, FS_Union
<1> HIDE DEF S
<1>3. Max(S) \in S /\ \A n \in S : n <= Max(S)
  BY <1>1, <1>2, MaxIsGreatest
<1> DEFINE m == Max(S)
<1>4. m \in Nat /\ \A i \in Ids(R) : i \in Nat /\ i <= m
  BY <1>1, <1>3
<1>5. 1 + Max({0} \cup Ids(R)) = 1 + m
  BY DEF S
<1> HIDE DEF m
<1>6. 1 + m \in Nat /\ \A i \in Ids(R) : i < 1 + m
  BY <1>4
<1>7. QED  BY <1>4, <1>5, <1>6

\* What remains of a file is what it had.
LEMMA ContentsPart ==
  ASSUME NEW f
  PROVE  \A e \in Contents(f) : e \in f
BY DEF Contents

\* A row's entry leaves the index.
LEMMA RemovedOnce ==
  ASSUME Shape, OneEach(part), NEW id, NEW j \in 0..NShards
  PROVE  /\ \A e \in Removed(part, id)[j] : e \in part[j] /\ e[1] # id
         /\ \A e \in part[j] : e \in Removed(part, id)[j] \/ e[1] = id
<1>1. ASSUME NEW e \in Removed(part, id)[j]  PROVE e \in part[j] /\ e[1] # id
  <2>1. e \in part[j]
    BY <1>1 DEF Removed, Without, Shape
  <2>2. ASSUME e[1] = id  PROVE FALSE
    <3>1. j \notin Home(part, id)
      BY <1>1, <2>2 DEF Removed, Without, Shape
    <3>2. \A i \in 0..NShards : id \in Ids(part[i]) => i = j
      BY <2>1, <2>2 DEF Ids, OneEach
    <3>3. j \in Home(part, id)
      BY <2>1, <2>2, <3>2, ShardsType DEF Home, Ids, Shape
    <3>4. QED  BY <3>1, <3>3
  <2>3. QED  BY <2>1, <2>2
<1>2. \A e \in part[j] : e \in Removed(part, id)[j] \/ e[1] = id
  BY DEF Removed, Without, Shape
<1>3. QED  BY <1>1, <1>2

\* What an upsert leaves in the index, and what it takes out of it.
LEMMA UpsertOnce ==
  ASSUME Shape, RowsInv, OnePut, OneEach(part), NEW v \in Nat \ {0}, Upsert(v),
         \A j \in 0..NShards : \A e \in part[j] : e[1] \in Ids(rec)
  PROVE  /\ OneEach(part')
         /\ \A j \in 0..NShards : \A e \in part'[j] : e[1] \in Ids(rec')
         /\ \A j \in 0..NShards : \A e \in part[j] : e \in part'[j] \/ e[1] \notin Ids(rec')
<1> DEFINE old  == {r \in rec : r[2] = v}
           row  == <<NextId, v>>
           kept == IF old = {} THEN part ELSE Removed(part, CHOOSE id \in Ids(old) : TRUE)
<1>1. PICK k \in Parts(kind) : part' = [kept EXCEPT ![k] = @ \cup {row}]
  BY DEF Upsert
<1>2. rec' = (rec \ Replaced(v)) \cup {row}
  BY UpsertRows
<1>3. DOMAIN kept = 0..NShards /\ k \in 0..NShards
  BY <1>1, RemovedEffect, Bounds DEF Shape, Parts
<1>4. \A i \in Ids(rec) : i # NextId
  <2>1. \A r \in rec : r[1] # NextId
    BY NextIdIsNew DEF RowsInv
  <2>2. QED  BY <2>1 DEF Ids
<1>5. Ids(rec') = (Ids(rec) \ Ids(old)) \cup {NextId}
  <2>1. PICK y : y = row
    OBVIOUS
  <2>2. y[1] = NextId /\ rec' = (rec \ old) \cup {y} /\ old \subseteq rec
    BY <1>2, <2>1 DEF Replaced
  <2>3. \A r \in rec, q \in old : r[1] = q[1] => r \in old
    BY DEF RowsInv
  <2> HIDE DEF old, row
  <2>4. \A i \in Ids(rec') : i \in (Ids(rec) \ Ids(old)) \cup {NextId}
    BY <2>2, <2>3 DEF Ids
  <2>5. \A i \in (Ids(rec) \ Ids(old)) \cup {NextId} : i \in Ids(rec')
    BY <2>2 DEF Ids
  <2>6. QED  BY <2>4, <2>5
<1>6. \A j \in 0..NShards : \A e \in kept[j] : e \in part[j] /\ e[1] \notin Ids(old)
  <2>1. CASE old = {}
    BY <2>1 DEF Ids
  <2>2. CASE old # {}
    <3> DEFINE id == CHOOSE id \in Ids(old) : TRUE
    <3>1. id \in Ids(old)
      BY <2>2 DEF Ids
    <3>2. Ids(old) = {id}
      BY <3>1 DEF OnePut, Ids
    <3> HIDE DEF id
    <3>3. \A j \in 0..NShards : \A e \in Removed(part, id)[j] : e \in part[j] /\ e[1] # id
      BY RemovedOnce
    <3>4. QED  BY <2>2, <3>2, <3>3 DEF id
  <2>3. QED  BY <2>1, <2>2
<1>7. \A j \in 0..NShards : \A e \in part[j] : e \in kept[j] \/ e[1] \in Ids(old)
  <2>1. CASE old = {}
    BY <2>1
  <2>2. CASE old # {}
    <3> DEFINE id == CHOOSE id \in Ids(old) : TRUE
    <3>1. id \in Ids(old)
      BY <2>2 DEF Ids
    <3> HIDE DEF id
    <3>2. \A j \in 0..NShards : \A e \in part[j] : e \in Removed(part, id)[j] \/ e[1] = id
      BY RemovedOnce
    <3>3. QED  BY <2>2, <3>1, <3>2 DEF id
  <2>3. QED  BY <2>1, <2>2
<1> HIDE DEF kept
<1>8. PICK x : x = row
  OBVIOUS
<1>9. x[1] = NextId
  BY <1>8
<1> HIDE DEF row, old
<1>10. \A j \in 0..NShards : \A e \in part'[j] : e \in kept[j] \/ (e = x /\ j = k)
  BY <1>1, <1>3, <1>8
<1>11. \A j \in 0..NShards : \A e \in kept[j] : e \in part'[j] /\ e[1] \in Ids(rec) /\ e[1] # NextId
  BY <1>1, <1>3, <1>4, <1>6
<1>12. OneEach(part')
  <2>1. ASSUME NEW i \in 0..NShards, NEW j \in 0..NShards, NEW e \in part'[i], NEW d \in part'[j], e[1] = d[1]
        PROVE  i = j /\ e = d
    <3>1. (e \in kept[i] \/ (e = x /\ i = k)) /\ (d \in kept[j] \/ (d = x /\ j = k))
      BY <1>10
    <3>2. CASE e \in kept[i] /\ d \in kept[j]
      BY <1>6, <2>1, <3>2 DEF OneEach
    <3>3. QED  BY <1>9, <1>11, <2>1, <3>1, <3>2
  <2>2. QED  BY <2>1 DEF OneEach
<1>13. \A j \in 0..NShards : \A e \in part'[j] : e[1] \in Ids(rec')
  BY <1>5, <1>6, <1>9, <1>10, <1>11
<1>14. \A j \in 0..NShards : \A e \in part[j] : e \in part'[j] \/ e[1] \notin Ids(rec')
  <2>1. ASSUME NEW j \in 0..NShards, NEW e \in part[j]  PROVE e \in part'[j] \/ e[1] \notin Ids(rec')
    <3>1. e[1] \in Ids(rec)
      OBVIOUS
    <3>2. e[1] # NextId
      BY <1>4, <3>1
    <3>3. QED  BY <1>5, <1>7, <1>11, <3>2
  <2>2. QED  BY <2>1
<1>15. QED  BY <1>12, <1>13, <1>14

\* A crash, at any step: the files that the next open loads have each row once.
LEMMA CrashOnce ==
  ASSUME IInv, BuildInv, Quiet, BuiltInv, Exact, up, catalog = "ivf", dir.centroids
  PROVE  ShardsOnce
<1>1. ExactMemory /\ kind \in {"flat", "ivf"}
  BY DEF Exact, IInv, Shape
<1>2. CASE Renamed
  <2>1. \A j \in Shards : dir.file[j] = new.part[j]
    BY <1>2 DEF Renamed, BuildInv, Quiet, NoLateSync
  <2>2. \A j \in Shards : \A e \in Contents(dir.file[j]) : e \in new.part[j]
    BY <2>1, ContentsPart
  <2>3. QED  BY <2>2, ShardsType DEF ShardsOnce, BuiltInv, OneEach
<1>3. CASE ~Renamed
  <2>1. kind = "ivf"
    BY <1>1, <1>3 DEF ExactMemory
  <2>2. \A j \in Shards : \A e \in Contents(dir.file[j]) : e \in part[j] \/ e[1] \notin Ids(rec)
    BY <1>1, <1>3, <2>1 DEF ExactMemory, Stale
  <2>3. QED  BY <1>1, <2>2, ShardsType DEF ShardsOnce, ExactMemory, OneEach
<1>4. QED  BY <1>2, <1>3

\* The collection stays open, and what is in memory, on disk and in the catalog as it is.
LEMMA ExactKept ==
  ASSUME Exact, UNCHANGED <<up, kind, part, rec, catalog, flat, dir>>, up \in BOOLEAN,
         up => (Renamed' <=> Renamed),
         del.stage = "unindex" => del'.stage = "unindex" /\ del'.row = del.row,
         del.stage \in {"unindex", "written", "sync"} => del'.stage \in {"unindex", "written", "sync"}
  PROVE  Exact'
<1>1. Ids(rec)' = Ids(rec) /\ NextId' = NextId
  BY DEF Ids, NextId
<1>2. \A e : Stale(e) => Stale(e)'
  BY <1>1 DEF Stale
<1>3. up => ExactMemory'
  <2>1. SUFFICES ASSUME up  PROVE ExactMemory'
    OBVIOUS
  <2>2. ExactMemory /\ (Renamed' <=> Renamed)
    BY <2>1 DEF Exact
  <2>3. OneEach(part)'
    BY <2>2 DEF ExactMemory, OneEach
  <2>4. \A j \in 0..NShards : \A e \in part'[j] :
          e[1] \in Ids(rec)' \/ (del'.stage = "unindex" /\ e[1] = del'.row[1])
    BY <1>1, <2>2 DEF ExactMemory
  <2>5. kind' = "ivf" /\ ~Renamed' =>
          \A j \in Shards : \A e \in Contents(dir'.file[j]) : e \in part'[j] \/ Stale(e)'
    BY <1>2, <2>2 DEF ExactMemory
  <2>6. kind' = "flat" /\ catalog' = "ivf" /\ dir'.centroids => Renamed'
    BY <2>2 DEF ExactMemory
  <2>7. QED  BY <2>3, <2>4, <2>5, <2>6 DEF ExactMemory, Shards
<1>4. FlatOnce'
  BY DEF Exact, FlatOnce
<1>5. ~up /\ catalog = "ivf" /\ dir.centroids => ShardsOnce'
  BY <1>1 DEF Exact, ShardsOnce, Shards
<1>6. QED  BY <1>3, <1>4, <1>5 DEF Exact

\* ... or it is gone.
LEMMA ExactLost ==
  ASSUME IInv, BuildInv, Quiet, BuiltInv, Exact, up, up' = FALSE, UNCHANGED <<rec, catalog, flat, dir>>
  PROVE  Exact'
<1>1. Ids(rec)' = Ids(rec)
  BY DEF Ids
<1>2. catalog = "ivf" /\ dir.centroids => ShardsOnce'
  BY <1>1, CrashOnce DEF ShardsOnce, Shards
<1>3. FlatOnce'
  BY DEF Exact, FlatOnce
<1>4. QED  BY <1>2, <1>3 DEF Exact

\* It stays open, with the same rows, next to no delete.
LEMMA ExactOpen ==
  ASSUME Exact, up, up' = TRUE, rec' = rec, FlatOnce', ExactMemory'
  PROVE  Exact'
BY DEF Exact

\* What is opened.
LEMMA OpenOnce ==
  ASSUME IInv, RowsInv, KindInv, Exact, Open
  PROVE  Exact'
<1>1. /\ ~up /\ up' = TRUE /\ kind' = LoadedKind /\ UNCHANGED <<rec, catalog, pc, del>>
      /\ part' = [j \in DOMAIN Loaded |-> Without(Loaded[j], Ghosts)]
      /\ IF Ghosts = {} THEN UNCHANGED <<flat, dir>>
         ELSE IF LoadedKind = "flat" THEN flat' = part'[0] /\ dir' = dir
         ELSE flat' = flat /\ dir' = [dir EXCEPT !.file = [j \in Shards |-> part'[j]]]
  BY DEF Open
<1>2. DOMAIN Loaded = 0..NShards
  BY DEF Loaded
<1>3. \A j \in 0..NShards : part'[j] = Without(Loaded[j], Ghosts)
  BY <1>1, <1>2
<1>4. Ids(rec)' = Ids(rec)
  BY <1>1 DEF Ids
<1>5. \A j \in 0..NShards : \A e \in Loaded[j] : e \in part'[j] \/ e[1] \notin Ids(rec)
  BY <1>3 DEF Without, Ghosts, Ids, Entries
<1>6. \A j \in 0..NShards : \A e \in part'[j] : e \in Loaded[j] /\ e[1] \in Ids(rec)
  <2>1. ASSUME NEW j \in 0..NShards, NEW e \in part'[j]  PROVE e \in Loaded[j] /\ e[1] \in Ids(rec)
    <3>1. e \in Loaded[j] /\ e[1] \notin Ghosts
      BY <1>3, <2>1 DEF Without
    <3>2. e[1] \in Ids(Entries(Loaded))
      BY <3>1 DEF Ids, Entries
    <3>3. QED  BY <3>1, <3>2 DEF Ghosts
  <2>2. QED  BY <2>1
<1>7. pc' \notin {"catalog", "assign"}
  BY <1>1 DEF IInv, ControlInv
<1>8. CASE LoadedKind = "ivf"
  <2>1. catalog = "ivf" /\ dir.centroids /\ Loaded[0] = {}
        /\ \A j \in Shards : Loaded[j] = Contents(dir.file[j])
    BY <1>8, Bounds DEF LoadedKind, Loaded
  <2>2. ShardsOnce
    BY <1>1, <2>1 DEF Exact
  <2>3. OneEach(part')
    <3>1. ASSUME NEW i \in 0..NShards, NEW j \in 0..NShards, NEW e \in part'[i], NEW d \in part'[j], e[1] = d[1]
          PROVE  i = j /\ e = d
      <4>1. e \in Loaded[i] /\ d \in Loaded[j] /\ e[1] \in Ids(rec)
        BY <1>6
      <4>2. i \in Shards /\ j \in Shards
        BY <2>1, <4>1, ShardsType
      <4>3. QED  BY <2>1, <2>2, <3>1, <4>1, <4>2 DEF ShardsOnce
    <3>2. QED  BY <3>1 DEF OneEach
  <2>4. flat' = flat /\ \A j \in Shards : \A e \in Contents(dir'.file[j]) : e \in part'[j]
    <3>1. CASE Ghosts = {}
      BY <1>1, <1>3, <2>1, <3>1, ShardsType DEF Without
    <3>2. CASE Ghosts # {}
      <4>1. flat' = flat /\ dir' = [dir EXCEPT !.file = [j \in Shards |-> part'[j]]]
        BY <1>1, <1>8, <3>2
      <4>2. \A j \in Shards : dir'.file[j] = part'[j]
        BY <4>1 DEF IInv, Shape
      <4>3. QED  BY <4>1, <4>2, ContentsPart
    <3>3. QED  BY <3>1, <3>2
  <2>5. FlatOnce'
    BY <2>4 DEF Exact, FlatOnce
  <2>6. kind' = "ivf"
    BY <1>1, <1>8
  <2>7. OneEach(part)'
    BY <2>3 DEF OneEach
  <2>8. QED  BY <1>1, <1>4, <1>6, <2>4, <2>5, <2>6, <2>7 DEF Exact, ExactMemory, Shards
<1>9. CASE LoadedKind = "flat"
  <2>1. ~(catalog = "ivf" /\ dir.centroids) /\ Loaded[0] = Contents(flat)
        /\ \A j \in Shards : Loaded[j] = {}
    BY <1>9, Bounds DEF LoadedKind, Loaded
  <2>2. FlatOnce
    BY DEF Exact
  <2>3. OneEach(part')
    <3>1. ASSUME NEW i \in 0..NShards, NEW j \in 0..NShards, NEW e \in part'[i], NEW d \in part'[j], e[1] = d[1]
          PROVE  i = j /\ e = d
      <4>1. e \in Loaded[i] /\ d \in Loaded[j]
        BY <1>6
      <4>2. i = 0 /\ j = 0
        BY <2>1, <4>1, ShardsType
      <4>3. QED  BY <2>1, <2>2, <3>1, <4>1, <4>2 DEF FlatOnce
    <3>2. QED  BY <3>1 DEF OneEach
  <2>4. dir' = dir /\ \A e \in Contents(flat') : e \in Contents(flat)
    <3>1. CASE Ghosts = {}
      BY <1>1, <3>1
    <3>2. CASE Ghosts # {}
      <4>1. dir' = dir /\ flat' = part'[0]
        BY <1>1, <1>9, <3>2
      <4>2. \A e \in Contents(flat') : e \in part'[0]
        BY <4>1, ContentsPart
      <4>3. QED  BY <1>6, <2>1, <4>1, <4>2, Bounds
    <3>3. QED  BY <3>1, <3>2
  <2>5. FlatOnce'
    BY <2>2, <2>4 DEF FlatOnce
  <2>6. kind' = "flat" /\ ~(catalog' = "ivf" /\ dir'.centroids)
    BY <1>1, <1>9, <2>1, <2>4
  <2>7. OneEach(part)'
    BY <2>3 DEF OneEach
  <2>8. QED  BY <1>1, <1>4, <1>6, <2>5, <2>6, <2>7 DEF Exact, ExactMemory
<1>10. QED  BY <1>8, <1>9 DEF LoadedKind

\* It stays open with what it has in memory, while its files or the catalog change.
LEMMA ExactFiles ==
  ASSUME Exact, up, up' = TRUE, UNCHANGED <<part, rec>>,
         del.stage = "unindex" => del'.stage = "unindex" /\ del'.row = del.row,
         FlatOnce',
         kind' = "ivf" /\ ~Renamed' =>
           \A j \in Shards : \A e \in Contents(dir'.file[j]) : e \in part[j] \/ Stale(e)',
         kind' = "flat" /\ catalog' = "ivf" /\ dir'.centroids => Renamed'
  PROVE  Exact'
<1>1. Ids(rec)' = Ids(rec) /\ ExactMemory
  BY DEF Ids, Exact
<1>2. OneEach(part)'
  BY <1>1 DEF ExactMemory, OneEach
<1>3. \A j \in 0..NShards : \A e \in part'[j] :
        e[1] \in Ids(rec)' \/ (del'.stage = "unindex" /\ e[1] = del'.row[1])
  BY <1>1 DEF ExactMemory
<1>4. ExactMemory'
  BY <1>2, <1>3 DEF ExactMemory, Shards
<1>5. QED  BY <1>4 DEF Exact

\* An ingest job: what is stale stays so, as its row gets an id above all others.
LEMMA ExactPut ==
  ASSUME IInv, RowsInv, OnePut, Quiet, Exact, Put
  PROVE  Exact'
<1>1. /\ up /\ pc = "idle" /\ holder = "none"
      /\ UNCHANGED <<flat, dir, catalog, up, kind, pc, del>>
  BY DEF Put
<1>2. del.stage = "none"
  BY <1>1 DEF Quiet, IInv, ControlInv
<1>3. ExactMemory
  BY <1>1 DEF Exact
<1>4. put'.v \in Nat \ {0} /\ Upsert(put'.v)
  BY PutEffect
<1>5. PICK v \in Nat \ {0} : v = put'.v
  BY <1>4
<1>6. /\ OneEach(part')
      /\ \A j \in 0..NShards : \A e \in part'[j] : e[1] \in Ids(rec')
      /\ \A j \in 0..NShards : \A e \in part[j] : e \in part'[j] \/ e[1] \notin Ids(rec')
  BY <1>2, <1>3, <1>4, <1>5, UpsertOnce DEF IInv, ExactMemory
<1>7. NextId \in Nat /\ \A i \in Ids(rec) : i \in Nat /\ i < NextId
  BY NextIdOf DEF RowsInv, NextId
<1>8. /\ rec' = (rec \ Replaced(v)) \cup {<<NextId, v>>}
      /\ IsFiniteSet(rec') /\ rec' \subseteq (Nat \ {0}) \X (Nat \ {0})
  BY <1>4, <1>5, UpsertRows DEF IInv
<1>9. NextId \in Ids(rec') /\ \A i \in Ids(rec') : i \in Ids(rec) \/ i = NextId
  <2>1. PICK row : row = <<NextId, v>>
    OBVIOUS
  <2>2. row[1] = NextId /\ rec' = (rec \ Replaced(v)) \cup {row}
    BY <1>8, <2>1
  <2>3. QED  BY <2>2 DEF Ids
<1>10. NextId' \in Nat /\ NextId < NextId'
  <2>1. PICK R : R = rec'
    OBVIOUS
  <2>2. 1 + Max({0} \cup Ids(R)) \in Nat /\ \A i \in Ids(R) : i \in Nat /\ i < 1 + Max({0} \cup Ids(R))
    BY <1>8, <2>1, NextIdOf
  <2>3. NextId' = 1 + Max({0} \cup Ids(R))
    BY <2>1 DEF NextId, Ids
  <2>4. QED  BY <1>9, <2>1, <2>2, <2>3
<1>11. ASSUME NEW e, e[1] \in Nat, e[1] < NextId, e[1] \notin Ids(rec')  PROVE Stale(e)'
  <2>1. e[1] < NextId'
    BY <1>7, <1>10, <1>11
  <2>2. e[1] \notin Ids(rec)'
    BY <1>11 DEF Ids
  <2>3. QED  BY <1>11, <2>1, <2>2 DEF Stale
<1>12. ASSUME kind = "ivf", NEW j \in Shards, NEW e \in Contents(dir.file[j])
       PROVE  e \in part'[j] \/ Stale(e)'
  <2>1. e \in part[j] \/ Stale(e)
    BY <1>1, <1>3, <1>12 DEF ExactMemory, Renamed
  <2>2. CASE e \in part[j]
    <3>1. e[1] \in Ids(rec) /\ j \in 0..NShards
      BY <1>2, <1>3, <2>2, ShardsType DEF ExactMemory
    <3>2. QED  BY <1>6, <1>7, <1>11, <2>2, <3>1
  <2>3. CASE Stale(e)
    <3>1. e[1] \in Nat /\ e[1] < NextId /\ e[1] \notin Ids(rec)
      BY <1>2, <2>3 DEF Stale
    <3>2. e[1] \notin Ids(rec')
      BY <1>7, <1>9, <3>1
    <3>3. QED  BY <1>11, <3>1, <3>2
  <2>4. QED  BY <2>1, <2>2, <2>3
<1>13. OneEach(part)'
  BY <1>6 DEF OneEach
<1>14. \A j \in 0..NShards : \A e \in part'[j] : e[1] \in Ids(rec)'
  BY <1>6 DEF Ids
<1>15. kind' = "flat" /\ catalog' = "ivf" /\ dir'.centroids => Renamed'
  BY <1>1, <1>3 DEF ExactMemory, Renamed
<1>16. ExactMemory'
  BY <1>1, <1>12, <1>13, <1>14, <1>15 DEF ExactMemory, Shards
<1>17. FlatOnce'
  BY <1>1 DEF Exact, FlatOnce
<1>18. QED  BY <1>1, <1>16, <1>17 DEF Exact

\* A delete, in its transaction and then in the index.
LEMMA ExactDelete ==
  ASSUME IInv, RowsInv, Quiet, Exact, DeleteCommits \/ DeleteUnindexes
  PROVE  Exact'
<1>1. /\ up /\ UNCHANGED <<flat, dir, catalog, up, kind, pc, job>>
      /\ ~del.orphan
  BY DEF DeleteCommits, DeleteUnindexes, disk, queue, index, Quiet, IInv, ControlInv
<1>2. ExactMemory
  BY <1>1 DEF Exact
<1>3. FlatOnce'
  BY <1>1 DEF Exact, FlatOnce
<1>4. Renamed' <=> Renamed
  BY <1>1 DEF Renamed
<1>5. CASE DeleteCommits
  <2>1. PICK r \in rec : rec' = rec \ {r} /\ del' = [del EXCEPT !.stage = "unindex", !.row = r]
    BY <1>5 DEF DeleteCommits
  <2>2. del'.stage = "unindex" /\ del'.row = r /\ del.stage = "commit" /\ part' = part
    BY <1>5, <2>1 DEF DeleteCommits, index, IInv, Shape
  <2>3. \A i \in Ids(rec) : i \in Ids(rec)' \/ i = r[1]
    BY <2>1 DEF Ids
  <2>4. Ids(rec)' \subseteq Ids(rec)
    BY <2>1 DEF Ids
  <2>5. OneEach(part)'
    BY <1>2, <2>2 DEF ExactMemory, OneEach
  <2>6. \A j \in 0..NShards : \A e \in part'[j] :
          e[1] \in Ids(rec)' \/ (del'.stage = "unindex" /\ e[1] = del'.row[1])
    BY <1>2, <2>2, <2>3 DEF ExactMemory
  <2>7. \A e : Stale(e) => Stale(e)'
    BY <2>2, <2>4 DEF Stale
  <2>8. ExactMemory'
    BY <1>1, <1>2, <1>4, <2>2, <2>5, <2>6, <2>7 DEF ExactMemory, Shards
  <2>9. QED  BY <1>1, <1>3, <2>8 DEF Exact
<1>6. CASE DeleteUnindexes
  <2> DEFINE id == del.row[1]
  <2>1. part' = Removed(part, id) /\ rec' = rec /\ id \notin Ids(rec) /\ del.stage = "unindex"
    BY <1>6 DEF DeleteUnindexes, disk, RowsInv
  <2>2. Ids(rec)' = Ids(rec) /\ NextId' = NextId
    BY <2>1 DEF Ids, NextId
  <2>3. del'.stage \in {"written", "sync"}
    BY <1>1, <1>6, UnindexEffect, ThreadEndsEffect DEF IInv
  <2> HIDE DEF id
  <2>4. \A j \in 0..NShards : /\ \A e \in part'[j] : e \in part[j] /\ e[1] # id
                              /\ \A e \in part[j] : e \in part'[j] \/ e[1] = id
    BY <1>2, <2>1, RemovedOnce DEF IInv, ExactMemory
  <2>5. OneEach(part)'
    BY <1>2, <2>4 DEF ExactMemory, OneEach
  <2>6. \A j \in 0..NShards : \A e \in part'[j] : e[1] \in Ids(rec)'
    BY <1>2, <2>2, <2>4 DEF ExactMemory, id
  <2>7. \A e : Stale(e) \/ e[1] = id => Stale(e)'
    BY <2>1, <2>2, <2>3 DEF Stale
  <2>8. kind' = "ivf" /\ ~Renamed' =>
          \A j \in Shards : \A e \in Contents(dir'.file[j]) : e \in part'[j] \/ Stale(e)'
    BY <1>1, <1>2, <1>4, <2>4, <2>7, ShardsType DEF ExactMemory
  <2>9. ExactMemory'
    BY <1>1, <1>2, <1>4, <2>5, <2>6, <2>8 DEF ExactMemory, Shards
  <2>10. QED  BY <1>1, <1>3, <2>9 DEF Exact
<1>7. QED  BY <1>5, <1>6

\* What a sync leaves: once a delete's is over, the shards have no entry of its row.
LEMMA ExactSync ==
  ASSUME IInv, BuildInv, CleanInv, Quiet, BuiltInv, Exact, orphans' = {},
         SyncFlat \/ SyncShard \/ SyncEnds \/ SyncFails
  PROVE  Exact'
<1>1. sync.at # 0 /\ up /\ holder \in {"flush", "delete", "stop"} /\ pc \notin SwapSteps /\ ~Renamed
  <2>1. sync.at # 0
    <3>1. sync.at = 1 \/ sync.at \in Shards \/ sync.at > NShards
      BY DEF SyncFlat, SyncShard, SyncEnds, SyncFails
    <3>2. QED  BY <3>1, ShardsType
  <2>2. QED  BY <2>1 DEF IInv, ControlInv, Shape, Renamed, SwapSteps
<1>2. ExactMemory /\ FlatOnce
  BY <1>1 DEF Exact
<1>3. rec' = rec /\ catalog' = catalog
  BY DEF SyncFlat, SyncShard, SyncEnds, SyncFails, disk
<1>4. Ids(rec)' = Ids(rec) /\ NextId' = NextId
  BY <1>3 DEF Ids, NextId
<1>5. CASE SyncFlat
  <2>1. /\ kind = "flat" /\ flat' = part[0]
        /\ UNCHANGED <<dir, up, kind, part, pc, job, del>>
    BY <1>5 DEF SyncFlat, queue, index
  <2>2. FlatOnce'
    BY <1>2, <2>1, ContentsPart, Bounds DEF ExactMemory, OneEach, FlatOnce
  <2>3. kind' = "flat" /\ ~(catalog' = "ivf" /\ dir'.centroids)
    BY <1>1, <1>2, <1>3, <2>1 DEF ExactMemory
  <2>4. QED  BY <1>1, <1>3, <2>1, <2>2, <2>3, ExactFiles
<1>6. CASE SyncShard
  <2>1. /\ kind = "ivf" /\ UNCHANGED <<flat, up, kind, part, del>>
    BY <1>6 DEF SyncShard, index
  <2>2. FlatOnce'
    BY <1>2, <2>1 DEF FlatOnce
  <2>3. ASSUME NEW j \in Shards, NEW e \in Contents(dir'.file[j])  PROVE e \in part[j] \/ Stale(e)'
    <3>1. dir'.file[j] \in {dir.file[j], part[j]}
      BY <1>6, SyncShardEffect DEF IInv
    <3>2. CASE dir'.file[j] = dir.file[j]
      <4>1. e \in part[j] \/ Stale(e)
        BY <1>1, <1>2, <2>1, <3>2 DEF ExactMemory
      <4>2. Stale(e) => Stale(e)'
        BY <1>4, <2>1 DEF Stale
      <4>3. QED  BY <4>1, <4>2
    <3>3. CASE dir'.file[j] = part[j]
      BY <3>3, ContentsPart
    <3>4. QED  BY <3>1, <3>2, <3>3
  <2>4. QED  BY <1>1, <1>3, <2>1, <2>2, <2>3, ExactFiles
<1>7. CASE SyncEnds \/ SyncFails
  <2>1. UNCHANGED <<flat, dir, job>>
    BY <1>7 DEF SyncEnds, SyncFails, disk
  <2>2. CASE holder = "stop"
    BY <1>1, <1>3, <1>7, <2>1, <2>2, ExactLost DEF SyncEnds, SyncFails, Lost
  <2>3. CASE holder = "flush"
    <3>1. del.stage = "none"
      BY <2>3 DEF Quiet, IInv, ControlInv
    <3>2. UNCHANGED <<up, kind, part, pc>> /\ up \in BOOLEAN
      BY <1>7, <2>3 DEF SyncEnds, SyncFails, index, IInv, Shape
    <3>3. Renamed' <=> Renamed
      BY <2>1, <3>2 DEF Renamed
    <3>4. QED  BY <1>3, <2>1, <3>1, <3>2, <3>3, ExactKept
  <2>4. CASE holder = "delete"
    <3>1. SyncEnds
      BY <1>7, <2>4 DEF SyncFails
    <3>2. sync.at > NShards /\ del.stage = "sync" /\ UNCHANGED <<up, kind, part, pc>>
      BY <1>1, <2>4, <3>1 DEF SyncEnds, index, IInv, ControlInv
    <3>3. FlatOnce'
      BY <1>2, <2>1 DEF FlatOnce
    <3>4. ASSUME kind = "ivf", NEW j \in Shards, NEW e \in Contents(dir.file[j])  PROVE e \in part[j]
      <4>1. j \notin dirty
        <5>1. j < sync.at
          BY <3>2, ShardsType DEF IInv, Shape
        <5>2. QED  BY <3>4, <5>1 DEF Quiet
      <4>2. dir.file[j] = NoFile \/ dir.file[j] = part[j]
        BY <1>1, <3>2, <3>4, <4>1 DEF CleanInv, FilesInv, InWrite, Quiet, NoLateSync
      <4>3. QED  BY <3>4, <4>2, ContentsPart DEF Contents
    <3>5. Renamed' <=> Renamed
      BY <2>1, <3>2 DEF Renamed
    <3>6. kind' = "flat" /\ catalog' = "ivf" /\ dir'.centroids => Renamed'
      BY <1>2, <1>3, <2>1, <3>2, <3>5 DEF ExactMemory
    <3>7. QED  BY <1>1, <1>3, <2>1, <3>2, <3>3, <3>4, <3>6, ExactFiles
  <2>5. QED  BY <1>1, <2>2, <2>3, <2>4
<1>8. QED  BY <1>5, <1>6, <1>7

\* The steps of a swap: between the rename and the last one the files are the new index.
LEMMA ExactSwap ==
  ASSUME IInv, KindInv, BuildInv, Quiet, BuiltInv, Exact,
         SwapRemove \/ SwapRename \/ SwapReplace \/ SwapCatalog \/ SwapAssign
  PROVE  Exact'
<1>1. up /\ up' = TRUE /\ rec' = rec /\ pc \in SwapSteps /\ job' = job
  BY DEF SwapRemove, SwapRename, SwapReplace, SwapCatalog, SwapAssign, At, queue, SwapSteps,
         IInv, Shape
<1>2. ExactMemory /\ FlatOnce
  BY <1>1 DEF Exact
<1>3. Ids(rec)' = Ids(rec) /\ NextId' = NextId
  BY <1>1 DEF Ids, NextId
<1>4. CASE SwapRemove \/ SwapRename \/ SwapReplace \/ SwapCatalog
  <2>1. UNCHANGED <<kind, part, del>>
    BY <1>4 DEF SwapRemove, SwapRename, SwapReplace, SwapCatalog, index
  <2>2. \A e : Stale(e) => Stale(e)'
    BY <1>3, <2>1 DEF Stale
  <2>3. CASE SwapRemove
    <3>1. pc = "remove" /\ pc' = "rename" /\ UNCHANGED <<flat, catalog>>
      BY <2>3 DEF SwapRemove, At, Goes
    <3>2. /\ dir'.centroids => dir.centroids
          /\ \A j \in Shards : dir'.file[j] \in {dir.file[j], NoFile}
      <4>1. PICK c \in BOOLEAN, J \in SUBSET Shards :
              dir' = [centroids |-> c /\ dir.centroids,
                      file |-> [j \in Shards |-> IF j \in J THEN dir.file[j] ELSE NoFile]]
        BY <2>3 DEF SwapRemove
      <4> DEFINE f == [j \in Shards |-> IF j \in J THEN dir.file[j] ELSE NoFile]
                 b == c /\ dir.centroids
      <4>2. \A j \in Shards : f[j] \in {dir.file[j], NoFile}
        OBVIOUS
      <4>3. b => dir.centroids
        OBVIOUS
      <4>4. dir' = [centroids |-> b, file |-> f]
        BY <4>1
      <4> HIDE DEF f, b
      <4>5. dir'.file = f /\ dir'.centroids = b
        BY <4>4
      <4>6. QED  BY <4>2, <4>3, <4>5
    <3>3. FlatOnce'
      BY <1>2, <3>1 DEF FlatOnce
    <3>4. ~Renamed /\ ~Renamed'
      BY <3>1 DEF Renamed
    <3>5. kind' = "ivf" => \A j \in Shards : \A e \in Contents(dir'.file[j]) : e \in part[j] \/ Stale(e)'
      BY <1>2, <2>1, <2>2, <3>2, <3>4 DEF ExactMemory, Contents
    <3>6. ~(kind' = "flat" /\ catalog' = "ivf" /\ dir'.centroids)
      BY <1>2, <2>1, <3>1, <3>2, <3>4 DEF ExactMemory
    <3>7. QED  BY <1>1, <2>1, <3>3, <3>5, <3>6, ExactFiles
  <2>4. CASE SwapRename
    <3>1. pc = "rename" /\ pc' = "catalog" /\ flat' = flat
      BY <2>4 DEF SwapRename, At, Goes
    <3>2. Renamed'
      BY <1>1, <3>1 DEF Renamed, IInv, ControlInv
    <3>3. FlatOnce'
      BY <1>2, <3>1 DEF FlatOnce
    <3>4. QED  BY <1>1, <2>1, <3>2, <3>3, ExactFiles
  <2>5. CASE SwapReplace
    <3>1. pc = "replace" /\ flat' = new.part[0] /\ UNCHANGED <<dir, catalog>>
      BY <2>5 DEF SwapReplace, At
    <3>2. ~Renamed /\ ~Renamed'
      BY <1>1, <3>1 DEF Renamed, IInv, ControlInv
    <3>3. FlatOnce'
      BY <3>1, ContentsPart, Bounds DEF BuiltInv, OneEach, FlatOnce
    <3>4. kind' = "ivf" => \A j \in Shards : \A e \in Contents(dir'.file[j]) : e \in part[j] \/ Stale(e)'
      BY <1>2, <2>1, <2>2, <3>1, <3>2 DEF ExactMemory
    <3>5. ~(kind' = "flat" /\ catalog' = "ivf" /\ dir'.centroids)
      BY <1>2, <2>1, <3>1, <3>2 DEF ExactMemory
    <3>6. QED  BY <1>1, <2>1, <3>3, <3>4, <3>5, ExactFiles
  <2>6. CASE SwapCatalog
    <3>1. /\ pc = "catalog" /\ pc' = "assign" /\ UNCHANGED <<flat, dir>>
          /\ catalog' = IF job = "detach" THEN "flat" ELSE "ivf"
      BY <2>6 DEF SwapCatalog, At, Goes
    <3>2. (Renamed' <=> Renamed) /\ (catalog' = "ivf" => Renamed')
      BY <1>1, <3>1 DEF Renamed
    <3>3. FlatOnce'
      BY <1>2, <3>1 DEF FlatOnce
    <3>4. kind' = "ivf" /\ ~Renamed' =>
            \A j \in Shards : \A e \in Contents(dir'.file[j]) : e \in part[j] \/ Stale(e)'
      BY <1>2, <2>1, <2>2, <3>1, <3>2 DEF ExactMemory
    <3>5. QED  BY <1>1, <2>1, <3>2, <3>3, <3>4, ExactFiles
  <2>7. QED  BY <1>4, <2>3, <2>4, <2>5, <2>6
<1>5. CASE SwapAssign
  <2>1. /\ pc = "assign" /\ kind' = catalog /\ part' = new.part /\ catalog' = catalog
        /\ pc' = "finish"
    BY <1>5 DEF SwapAssign, Becomes, At, Goes
  <2>2. OneEach(part)'
    BY <2>1 DEF BuiltInv, OneEach
  <2>3. \A j \in 0..NShards : \A e \in part'[j] : e[1] \in Ids(rec)'
    BY <1>1, <1>3, <2>1 DEF BuiltInv
  <2>4. CASE job = "detach"
    <3>1. kind' = "flat" /\ catalog' = "flat" /\ flat' = flat
      BY <1>5, <2>1, <2>4 DEF SwapAssign, IInv, ControlInv
    <3>2. FlatOnce'
      BY <1>2, <3>1 DEF FlatOnce
    <3>3. ExactMemory'
      BY <2>2, <2>3, <3>1 DEF ExactMemory
    <3>4. QED  BY <1>1, <3>2, <3>3 DEF Exact
  <2>5. CASE job # "detach"
    <3>1. kind' = "ivf" /\ flat' = NoFile /\ dir' = dir
      BY <1>5, <2>1, <2>5 DEF SwapAssign, IInv, ControlInv
    <3>2. FlatOnce'
      BY <3>1 DEF FlatOnce, Contents
    <3>3. \A j \in Shards : \A e \in Contents(dir'.file[j]) : e \in part'[j]
      BY <2>1, <2>5, <3>1, ContentsPart DEF BuildInv, Quiet, NoLateSync
    <3>4. ExactMemory'
      BY <2>2, <2>3, <3>1, <3>3 DEF ExactMemory, Shards
    <3>5. QED  BY <1>1, <3>2, <3>4 DEF Exact
  <2>6. QED  BY <2>4, <2>5
<1>6. QED  BY <1>4, <1>5

\* No step puts a row in the index twice, or leaves an entry without a row.
LEMMA ExactStep ==
  ASSUME FailingSteps \subseteq {"remove", "rename", "replace"},
         IInv, RowsInv, KindInv, BuildInv, CleanInv, OnePut, Quiet, BuiltInv, Exact,
         [Next]_vars, orphans' = {}
  PROVE  Exact'
<1> USE DEF disk, queue, index, syncs, history
<1>1. up \in BOOLEAN
  BY DEF IInv, Shape
<1>2. ASSUME UNCHANGED <<up, kind, part, rec, catalog, flat, dir, del>>, Renamed' <=> Renamed  PROVE Exact'
  BY <1>1, <1>2, ExactKept
<1>3. CASE UNCHANGED vars
  <2>1. Renamed' <=> Renamed
    BY <1>3 DEF vars, Renamed
  <2>2. QED  BY <1>2, <1>3, <2>1 DEF vars
<1>4. CASE SyncFlat \/ SyncShard \/ SyncEnds \/ SyncFails
  BY <1>4, ExactSync
<1>5. CASE SyncClears \/ Flush \/ ProbeBegins \/ ProbeReads \/ ProbeStores
  <2>1. UNCHANGED <<up, kind, part, rec, catalog, flat, dir, del, pc, job>>
    BY <1>5 DEF SyncClears, Flush, ProbeBegins, ProbeReads, ProbeStores
  <2>2. Renamed' <=> Renamed
    BY <2>1 DEF Renamed
  <2>3. QED  BY <1>2, <2>1, <2>2
<1>6. CASE Put
  BY <1>6, ExactPut
<1>7. CASE DeleteCommits \/ DeleteUnindexes
  BY <1>7, ExactDelete
<1>8. CASE DeleteBegins \/ DeleteWritten
  <2>1. UNCHANGED <<up, kind, part, rec, catalog, flat, dir, pc, job>>
    BY <1>8 DEF DeleteBegins, DeleteWritten
  <2>2. Renamed' <=> Renamed
    BY <2>1 DEF Renamed
  <2>3. CASE DeleteBegins
    BY <1>1, <2>1, <2>2, <2>3, ExactKept DEF DeleteBegins
  <2>4. CASE DeleteWritten
    <3>1. del.stage = "written" /\ del'.stage = "sync"
      BY <2>4, ThreadEndsEffect DEF DeleteWritten, Quiet, IInv
    <3>2. QED  BY <1>1, <2>1, <2>2, <3>1, ExactKept
  <2>5. QED  BY <1>8, <2>3, <2>4
<1>9. CASE DeleteAbandoned \/ DeleteSyncAbandoned
  BY <1>9 DEF DeleteAbandoned, DeleteSyncAbandoned
<1>10. ASSUME NEW op \in Asks, Ask(op)  PROVE Exact'
  <2>1. UNCHANGED <<up, kind, part, rec, catalog, flat, dir, del, pc>> /\ job = "none"
    BY <1>10 DEF Ask
  <2>2. ~Renamed /\ ~Renamed'
    BY <2>1 DEF IInv, ControlInv, Renamed, SwapSteps
  <2>3. QED  BY <1>2, <2>1, <2>2
<1>11. CASE JobStart
  <2>1. /\ up /\ pc = "idle" /\ pc' \in {"idle", "finish", "stream", "sample"}
        /\ UNCHANGED <<up, kind, part, rec, flat, del>>
    BY <1>11 DEF JobStart, At, Goes, Fails
  <2>2. ~Renamed /\ ~Renamed'
    BY <2>1 DEF Renamed
  <2>3. FlatOnce' /\ ExactMemory
    BY <2>1 DEF Exact, FlatOnce
  <2>4. CASE UNCHANGED <<catalog, dir>>
    BY <1>2, <2>1, <2>2, <2>4
  <2>5. CASE kind = "ivf" /\ dir' = dir
    <3>1. Ids(rec)' = Ids(rec) /\ NextId' = NextId
      BY <2>1 DEF Ids, NextId
    <3>2. \A e : Stale(e) => Stale(e)'
      BY <2>1, <3>1 DEF Stale
    <3>3. \A j \in Shards : \A e \in Contents(dir'.file[j]) : e \in part[j] \/ Stale(e)'
      BY <2>2, <2>3, <2>5, <3>2 DEF ExactMemory
    <3>4. QED  BY <2>1, <2>3, <2>5, <3>3, ExactFiles
  <2>6. CASE kind = "flat" /\ catalog' = "flat"
    BY <2>1, <2>3, <2>6, ExactFiles
  <2>7. QED  BY <1>11, <2>4, <2>5, <2>6 DEF JobStart
<1>12. CASE Sample \/ Backfill \/ Stream \/ SwapBegins \/ JobFinish
  <2>1. UNCHANGED <<up, kind, part, rec, catalog, flat, dir, del>>
    BY <1>12 DEF Sample, Backfill, Stream, SwapBegins, JobFinish
  <2>2. pc \notin {"catalog", "assign"} /\ pc' \notin {"catalog", "assign"}
    BY <1>12 DEF Sample, Backfill, Stream, SwapBegins, JobFinish, At, Goes, Fails
  <2>3. QED  BY <1>2, <2>1, <2>2 DEF Renamed
<1>13. CASE SwapRemove \/ SwapRename \/ SwapReplace \/ SwapCatalog \/ SwapAssign
  BY <1>13, ExactSwap
<1>14. CASE SwapFails
  <2>1. UNCHANGED <<up, kind, part, rec, catalog, flat, dir, del>>
    BY <1>14 DEF SwapFails
  <2>2. pc \notin {"catalog", "assign"} /\ pc' \notin {"catalog", "assign"}
    BY <1>14 DEF SwapFails, Fails
  <2>3. QED  BY <1>2, <2>1, <2>2 DEF Renamed
<1>15. CASE Stop
  <2>1. UNCHANGED <<up, kind, part, rec, catalog, flat, dir, del>>
    BY <1>15 DEF Stop
  <2>2. pc \notin {"catalog", "assign"} /\ pc' \notin {"catalog", "assign"}
    BY <1>15 DEF Stop, IInv, ControlInv, SwapSteps
  <2>3. QED  BY <1>2, <2>1, <2>2 DEF Renamed
<1>16. CASE Crash
  <2>1. up /\ up' = FALSE /\ UNCHANGED <<rec, catalog, flat, dir>>
    BY <1>16 DEF Crash, Lost
  <2>2. QED  BY <2>1, ExactLost
<1>17. CASE Open
  BY <1>17, OpenOnce
<1>18. CASE LateStep
  BY <1>18, LateEffect DEF Quiet, NoLateSync, IInv
<1>19. QED  BY <1>3, <1>4, <1>5, <1>6, <1>7, <1>8, <1>9, <1>10, <1>11, <1>12, <1>13, <1>14,
    <1>15, <1>16, <1>17, <1>18 DEF Next, LateStep

\* At first the files are the index, and the index is the rows.
LEMMA InitExact == Init => OnePut /\ Quiet /\ BuiltInv /\ Exact
<1> SUFFICES ASSUME Init  PROVE OnePut /\ Quiet /\ BuiltInv /\ Exact
  OBVIOUS
<1>1. /\ rec = {<<i, i>> : i \in 1..Stored} /\ Stored \in Nat
      /\ up = TRUE /\ dirty = {} /\ pc = "idle" /\ new = NoBuild /\ del = NoDel /\ sync = NoSync
      /\ catalog = kind /\ kind \in {"flat", "ivf"}
  BY SwapAssumption DEF Init
<1>2. OnePut /\ Quiet
  <2>1. late = NoLate /\ mixed = FALSE
    BY DEF Init
  <2>2. QED  BY <1>1, <2>1 DEF OnePut, Quiet, NoLateSync, NoDel, NoSync, NoLate
<1>3. BuiltInv
  <2>1. \A j \in 0..NShards : new.part[j] = {}
    BY <1>1, NoBuildEffect
  <2>2. QED  BY <1>1, <2>1 DEF BuiltInv, OneEach, SwapSteps
<1>4. \A r, q \in rec : r[1] = q[1] => r = q
  BY InitRows DEF RowsInv
<1>5. \A r \in rec : r[1] \in Ids(rec)
  BY DEF Ids
<1>6. CASE kind = "flat"
  <2>1. part[0] = rec /\ flat = rec /\ \A j \in Shards : part[j] = {}
    BY <1>6, Bounds DEF Init
  <2>2. \A j \in 0..NShards : j = 0 \/ j \in Shards
    BY ShardsType
  <2>3. OneEach(part)
    BY <1>4, <2>1, <2>2 DEF OneEach
  <2>4. dir = NoDir
    BY <1>6 DEF Init
  <2>5. ~dir.centroids
    BY <2>4 DEF NoDir
  <2>6. ExactMemory
    BY <1>5, <1>6, <2>1, <2>2, <2>3, <2>5 DEF ExactMemory
  <2>7. FlatOnce
    BY <1>4, <2>1, ContentsPart DEF FlatOnce
  <2>8. QED  BY <1>1, <1>2, <1>3, <2>6, <2>7 DEF Exact
<1>7. CASE kind = "ivf"
  <2>1. /\ \A j \in 0..NShards : part[j] = {r \in rec : j = 1 + (r[1] % NShards)}
        /\ \A j \in Shards : dir.file[j] = part[j]
        /\ flat = NoFile
    BY <1>7, Bounds DEF Init
  <2>2. OneEach(part)
    BY <1>4, <2>1 DEF OneEach
  <2>3. \A j \in Shards : \A e \in Contents(dir.file[j]) : e \in part[j]
    BY <2>1, ContentsPart
  <2>4. ExactMemory
    BY <1>5, <1>7, <2>1, <2>2, <2>3 DEF ExactMemory
  <2>5. FlatOnce
    BY <2>1 DEF FlatOnce, Contents
  <2>6. QED  BY <1>1, <1>2, <1>3, <2>4, <2>5 DEF Exact
<1>8. QED  BY <1>1, <1>6, <1>7

\* The inductive invariant of what the index has, as long as every delete has returned.
ExactIInv == orphans = {} => Quiet /\ BuiltInv /\ Exact

\* Each row is in the index once and nothing else is, whatever a swap, a sync, a stop or
\* a crash comes between (_swap_index, _sync_index, _reconcile_ghosts), until a delete is
\* abandoned or fails, if a swap does not fail past its commit point on disk.
THEOREM IndexIsExact ==
  ASSUME FailingSteps \subseteq {"remove", "rename", "replace"}
  PROVE  Spec => [](orphans = {} => IndexIsTheRows)
<1> DEFINE Inv == LossIInv /\ MemoryInv /\ CleanInv /\ LateClean /\ OnePut /\ ExactIInv
<1>1. Init => Inv
  BY InitLoss, InitInv, InitExact DEF ExactIInv
<1>2. Inv /\ [Next]_vars => Inv'
  <2> SUFFICES ASSUME Inv, [Next]_vars  PROVE Inv'
    OBVIOUS
  <2>1. IInv /\ RowsInv /\ KindInv /\ BuildInv /\ LossInv
    BY DEF LossIInv
  <2>2. LossIInv' /\ MemoryInv'
    BY <2>1, ShapeStep, ControlStep, CacheStep, LateInvStep, RowsStep, KindStep, BuildStep, LossStep, MemoryStep
       DEF LossIInv, IInv
  <2>3. CleanInv' /\ LateClean' /\ OnePut'
    BY <2>1, CleanStep, LateCleanStep, OnePutStep
  <2>4. ASSUME orphans' = {}  PROVE Quiet' /\ BuiltInv' /\ Exact'
    <3>1. Quiet /\ BuiltInv /\ Exact
      BY <2>4, OrphansStay DEF ExactIInv
    <3>2. Quiet' /\ BuiltInv'
      BY <2>1, <2>4, <3>1, QuietStep, BuiltStep
    <3>3. Exact'
      BY <2>1, <2>4, <3>1, ExactStep
    <3>4. QED  BY <3>2, <3>3
  <2>5. QED  BY <2>2, <2>3, <2>4 DEF ExactIInv
<1>3. Inv => (orphans = {} => IndexIsTheRows)
  <2> SUFFICES ASSUME Inv, orphans = {}, up, holder = "none", ~hollow
               PROVE  /\ {r \in rec : r[2] # put.v \/ put.applied} \subseteq Entries(part)
                      /\ \A i, j \in DOMAIN part : i # j => Ids(part[i]) \cap Ids(part[j]) \subseteq orphans
                      /\ put.v = 0 \/ put.applied =>
                           \A e \in Entries(part) : e \in rec \/ e[1] \in orphans \ Ids(rec)
    BY DEF IndexIsTheRows
  <2>1. IInv /\ RowsInv /\ ExactMemory /\ Quiet
    BY DEF LossIInv, ExactIInv, Exact
  <2>2. DOMAIN part = 0..NShards /\ del.stage = "none"
    BY <2>1 DEF IInv, Shape, ControlInv, Quiet
  <2>3. {r \in rec : r[2] # put.v \/ put.applied} \subseteq Entries(part)
    BY DEF MemoryInv, Indexed
  <2>4. ASSUME NEW i \in DOMAIN part, NEW j \in DOMAIN part, NEW id \in Ids(part[i]) \cap Ids(part[j])
        PROVE  i = j
    BY <2>1, <2>2, <2>4 DEF ExactMemory, OneEach, Ids
  <2>5. ASSUME put.v = 0 \/ put.applied, NEW e \in Entries(part)  PROVE e \in rec
    <3>1. PICK j \in 0..NShards : e \in part[j]
      BY DEF Entries
    <3>2. PICK r \in rec : r[1] = e[1]
      BY <2>1, <2>2, <3>1 DEF ExactMemory, Ids
    <3>3. r[2] # put.v \/ put.applied
      BY <2>1, <2>5 DEF RowsInv
    <3>4. PICK i \in 0..NShards : r \in part[i]
      BY <2>3, <3>3 DEF Entries
    <3>5. QED  BY <2>1, <3>1, <3>2, <3>4 DEF ExactMemory, OneEach
  <2>6. QED  BY <2>3, <2>4, <2>5
<1> HIDE DEF Inv
<1>4. QED  BY <1>1, <1>2, <1>3, PTL DEF Spec

=============================================================================
