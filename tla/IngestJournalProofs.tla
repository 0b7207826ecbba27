------------------------ MODULE IngestJournalProofs ------------------------
(***************************************************************************)
(* What holds of IngestJournal for every set of keys, every number of jobs *)
(* and every budget of crashes, stops, deletes and faults, with finishes   *)
(* cut off and deletes cancelled or not: the variables keep their types,   *)
(* and a done job's rows are in the synced index file. If no delete is     *)
(* cancelled, ids are sound and removals capped. No finished job is        *)
(* touched again; and, where no finish is cut off, jobs finish in the      *)
(* order they were journaled, no document is put back to an earlier        *)
(* version, and clients see the ledger of JobLedger.                       *)
(*                                                                         *)
(* TypeInv and DurabilityInv are inductive together; each lemma takes one  *)
(* group of actions through one of them. So is LineInv with them: what has *)
(* been processed and is to be finished is in line.                        *)
(***************************************************************************)
EXTENDS IngestJournal, FiniteSetTheorems, SequenceTheorems, TLAPS

\* TypeOK, made inductive: counters stay numbers since what they count is finite.
TypeInv == TypeOK /\ IsFiniteSet(records) /\ IsFiniteSet(replaced)

\* What pushing and popping do to the elements of a sequence.
LEMMA RangeOfParts ==
  ASSUME NEW S, NEW s \in Seq(S)
  PROVE  /\ Range(s) \subseteq S
         /\ s = <<>> => Range(s) = {}
         /\ s # <<>> => /\ Head(s) \in Range(s)
                        /\ Range(Tail(s)) \subseteq Range(s)
                        /\ s[1] = Head(s)
         /\ \A e \in S : Range(Append(s, e)) = Range(s) \cup {e}
<1>1. Range(s) \subseteq S /\ (s = <<>> => Range(s) = {})
  BY DEF Range
<1>2. ASSUME s # <<>>
      PROVE  Head(s) \in Range(s) /\ Range(Tail(s)) \subseteq Range(s) /\ s[1] = Head(s)
  BY <1>2 DEF Range
<1>3. ASSUME NEW e \in S  PROVE Range(Append(s, e)) = Range(s) \cup {e}
  <2> DEFINE t == Append(s, e)
  <2>1. /\ t \in Seq(S) /\ Len(t) = Len(s) + 1 /\ Len(s) \in Nat
        /\ \A i \in 1..Len(s) : t[i] = s[i]
        /\ t[Len(s) + 1] = e
    BY AppendProperties
  <2>2. DOMAIN t = 1..Len(t) /\ DOMAIN s = 1..Len(s)
    BY <2>1
  <2> HIDE DEF t
  <2>3. QED  BY <2>1, <2>2 DEF Range
<1>4. QED  BY <1>1, <1>2, <1>3

\* The rows an upsert inserts are finitely many rows with ids from MAX(id)+1 on.
LEMMA NewRowsType ==
  ASSUME records \subseteq Rows, NEW S \in SUBSET Keys, NEW j \in JobIds,
         NEW n \in NextIds, NEW ids \in Numberings(S, n)
  PROVE  /\ n \in Nat \ {0}
         /\ NewRows(ids, j) \subseteq Rows
         /\ IsFiniteSet(NewRows(ids, j))
<1>1. n \in Nat \ {0}
  BY DEF NextIds, Rows
<1>2. IsFiniteSet(S)
  BY KeysAssumption, FS_Subset
<1>3. Cardinality(S) \in Nat
  BY <1>2, FS_CardinalityType
<1>4. ids \in [S -> Nat \ {0}]
  BY <1>1, <1>3 DEF Numberings, Injection
<1>5. NewRows(ids, j) \subseteq Rows
  BY <1>4 DEF NewRows, Rows
<1>6. IsFiniteSet(NewRows(ids, j))
  <2> DEFINE row == [k \in S |-> [id |-> ids[k], key |-> k, job |-> j]]
  <2>1. row \in Surjection(S, NewRows(ids, j))
    BY <1>4 DEF Surjection, NewRows
  <2>2. QED  BY <2>1, <1>2, FS_Surjection
<1>7. QED  BY <1>1, <1>5, <1>6

\* The ids of an upsert's rows are distinct and not below the first one.
LEMMA NumberingsType ==
  ASSUME NEW S \in SUBSET Keys, NEW n \in Nat, NEW ids \in Numberings(S, n)
  PROVE  /\ DOMAIN ids = S
         /\ \A k \in S : ids[k] \in Nat /\ ids[k] >= n
         /\ \A k, l \in S : ids[k] = ids[l] => k = l
<1>1. Cardinality(S) \in Nat
  BY KeysAssumption, FS_Subset, FS_CardinalityType
<1>2. ids \in [S -> n..(n + Cardinality(S) - 1)] /\ IsInjective(ids)
  BY DEF Numberings, Injection
<1>3. QED
  BY <1>1, <1>2 DEF IsInjective

\* Counting an event keeps the counters numbers.
LEMMA SpendType ==
  ASSUME used \in [Events -> Nat], NEW e, Spend(e)
  PROVE  used' \in [Events -> Nat]
<1>1. CASE e \in Events
  BY <1>1 DEF Spend
<1>2. CASE e \notin Events
  BY <1>2 DEF Spend
<1>3. QED  BY <1>1, <1>2

-----------------------------------------------------------------------------
\* What the clients do keeps the types.
LEMMA ClientTypes == TypeInv /\ ControlInv /\ Client => TypeInv'
<1> SUFFICES ASSUME TypeInv, ControlInv, Client  PROVE TypeInv'
  OBVIOUS
<1> USE DEF TypeInv, TypeOK, journal, stores, worker, callers, threads
<1>1. ASSUME NEW a \in Asks, Enqueue(a)  PROVE TypeInv'
  BY <1>1, AsksAssumption DEF Enqueue, Statuses
<1>2. ASSUME NEW j \in JobIds, EnqueueReturns(j)  PROVE TypeInv'
  BY <1>2 DEF EnqueueReturns
<1>3. ASSUME NEW j \in JobIds, EnqueueCancelled(j)  PROVE TypeInv'
  BY <1>3, SpendType DEF EnqueueCancelled
<1>4. ASSUME NEW k \in Keys, DeleteDocument(k)  PROVE TypeInv'
  <2> DEFINE gone == {r \in records : r.key = k}
  <2>1. IsFiniteSet(gone) /\ IsFiniteSet(records \ gone)
    BY FS_Subset
  <2>2. Cardinality(gone) \in Nat
    BY <2>1, FS_CardinalityType
  <2>3. QED
    BY <1>4, <2>1, <2>2, SpendType DEF DeleteDocument, DeleteRows, RemoveIds
<1>5. ASSUME NEW k \in Keys, DeleteCancelled(k)  PROVE TypeInv'
  BY <1>5, SpendType DEF DeleteCancelled
<1>6. ASSUME DeleteSync  PROVE TypeInv'
  <2>1. used' \in [Events -> Nat]
    BY <1>6, SpendType DEF DeleteSync
  <2>2. file' \subseteq Rows /\ removed' \in Nat
    BY <1>6 DEF DeleteSync, SyncFile
  <2>3. deleting' \in BOOLEAN
    BY <1>6 DEF DeleteSync
  <2>4. UNCHANGED <<journal, records, mem, worker, callers, oDelete, oSync,
                    oFinish, oClaim, phase>>
    BY <1>6 DEF DeleteSync
  <2>5. QED  BY <2>1, <2>2, <2>3, <2>4
<1>7. ASSUME DeleteSyncCancelled  PROVE TypeInv'
  BY <1>7 DEF DeleteSyncCancelled
<1>8. QED
  BY <1>1, <1>2, <1>3, <1>4, <1>5, <1>6, <1>7 DEF Client

\* A job that joins the batch is a claimed one.
LEMMA JoinBatchTypes ==
  ASSUME TypeOK, cur # 0, NEW status \in Finished, JoinBatch(status)
  PROVE  batch' \in Seq(Outcomes) /\ cur' = 0 /\ pc' \in {"flush", "top"}
<1>1. [job |-> cur, status |-> status] \in Outcomes
  BY DEF TypeOK, Outcomes, JobIds
<1>2. QED
  BY <1>1, AppendProperties DEF TypeOK, JoinBatch

\* The worker's steps from the claim to the end of the write section.
LEMMA ProcessTypes ==
  ASSUME TypeInv, ControlInv,
         \/ ProcessEmpty \/ ProcessFails \/ UpsertRows \/ PreSync
         \/ UnindexReplaced \/ AddWithIds \/ AddRaises
  PROVE  TypeInv'
<1> USE DEF TypeInv, TypeOK, journal, stores, worker, callers, threads, Finished
<1>1. pc \in {"prep", "presync", "unindex", "add"} => cur \in JobIds /\ cur # 0
  BY DEF ControlInv, JobIds
<1>2. CASE ProcessEmpty
  BY BoundsAssumption, <1>1, <1>2, JoinBatchTypes DEF ProcessEmpty, PCs
<1>3. CASE ProcessFails
  BY BoundsAssumption, <1>1, <1>3, JoinBatchTypes, SpendType DEF ProcessFails, PCs
<1>4. CASE UpsertRows
  <2> DEFINE S == ask[cur].keys
  <2>1. cur \in JobIds /\ S \in SUBSET Keys
    BY <1>1, <1>4 DEF UpsertRows, Payloads
  <2>2. PICK n \in NextIds : \E ids \in Numberings(S, n) :
          /\ replaced' = {r \in records : r.key \in S}
          /\ added' = NewRows(ids, cur)
          /\ records' = (records \ replaced') \cup added'
    BY <1>4 DEF UpsertRows
  <2>3. PICK ids \in Numberings(S, n) :
          /\ replaced' = {r \in records : r.key \in S}
          /\ added' = NewRows(ids, cur)
          /\ records' = (records \ replaced') \cup added'
    BY <2>2
  <2>4. added' \subseteq Rows /\ IsFiniteSet(added')
    BY <2>1, <2>3, NewRowsType
  <2>5. IsFiniteSet(replaced') /\ IsFiniteSet(records \ replaced')
    BY <2>3, FS_Subset
  <2>6. IsFiniteSet(records')
    BY <2>3, <2>4, <2>5, FS_Union
  <2>7. QED
    BY <1>4, <2>3, <2>4, <2>5, <2>6 DEF UpsertRows, PCs
<1>5. CASE PreSync
  BY <1>5, SpendType DEF PreSync, SyncFile, PCs
<1>6. CASE UnindexReplaced
  <2>1. Cardinality(replaced) \in Nat
    BY FS_CardinalityType
  <2>2. QED  BY <1>6, <2>1 DEF UnindexReplaced, RemoveIds, PCs
<1>7. CASE AddWithIds
  BY BoundsAssumption, <1>1, <1>7, JoinBatchTypes DEF AddWithIds, PCs
<1>8. CASE AddRaises
  BY BoundsAssumption, <1>1, <1>8, JoinBatchTypes, SpendType DEF AddRaises, PCs
<1>9. QED
  BY <1>2, <1>3, <1>4, <1>5, <1>6, <1>7, <1>8

\* The worker's other steps.
LEMMA WorkerTypes == TypeInv /\ ControlInv /\ Worker => TypeInv'
<1> SUFFICES ASSUME TypeInv, ControlInv, Worker  PROVE TypeInv'
  OBVIOUS
<1> USE DEF TypeInv, TypeOK, journal, stores, worker, callers, threads, PCs
<1>1. CASE LoopTop
  BY <1>1 DEF LoopTop
<1>2. CASE ClaimJob
  BY <1>2 DEF ClaimJob, ClaimedPc, Statuses, JobIds
<1>3. CASE ClaimNone \/ NoneClaimed
  BY <1>3 DEF ClaimNone, NoneClaimed
<1>4. CASE ClaimRaises
  BY <1>4, SpendType DEF ClaimRaises
<1>5. CASE WakeUp
  BY <1>5 DEF WakeUp
<1>6. CASE \/ ProcessEmpty \/ ProcessFails \/ UpsertRows \/ PreSync
           \/ UnindexReplaced \/ AddWithIds \/ AddRaises
  BY <1>6, ProcessTypes
<1>7. CASE FlushSync
  BY <1>7 DEF FlushSync, SyncFile
<1>8. CASE FlushSyncFails
  BY <1>8, SpendType DEF FlushSyncFails
<1>9. CASE FlushRetry
  BY <1>9 DEF FlushRetry
<1>10. CASE PopJob
  <2>1. Head(batch) \in Outcomes /\ Tail(batch) \in Seq(Outcomes)
    BY <1>10, HeadTailProperties DEF PopJob
  <2>2. QED  BY <1>10, <2>1 DEF PopJob
<1>11. CASE FlushDone
  BY <1>11 DEF FlushDone
<1>12. CASE FinishJob
  <2>1. fin[1] \in Outcomes
    BY <1>12, RangeOfParts DEF FinishJob, ControlInv
  <2>2. QED
    BY <1>12, <2>1 DEF FinishJob, SetStatus, Outcomes, Statuses, Finished
<1>13. CASE FinishRaises
  BY <1>13, SpendType DEF FinishRaises
<1>14. CASE IndexJob
  <2>1. cur \in JobIds
    BY <1>14 DEF IndexJob, ControlInv, JobIds
  <2>2. \A status \in Finished : <<[job |-> cur, status |-> status]>> \in Seq(Outcomes)
    BY <2>1 DEF Outcomes
  <2>3. used' \in [Events -> Nat]
    BY <1>14, SpendType DEF IndexJob
  <2>4. /\ mem' \subseteq Rows /\ file' \subseteq Rows
        /\ fin' \in Seq(Outcomes)
    BY <1>14, <2>2 DEF IndexJob, Finished
  <2>5. /\ cur' = 0 /\ pc' = "finishing"
        /\ UNCHANGED <<journal, records, removed, after, replaced, added, batch,
                       callers, threads, phase>>
    BY <1>14 DEF IndexJob
  <2>6. QED  BY BoundsAssumption, <2>3, <2>4, <2>5
<1>15. QED
  BY <1>1, <1>2, <1>3, <1>4, <1>5, <1>6, <1>7, <1>8, <1>9, <1>10, <1>11, <1>12,
     <1>13, <1>14 DEF Worker

\* A discarded Collection leaves well-typed variables behind.
LEMMA DiscardTypes ==
  ASSUME TypeInv, Discard, UNCHANGED <<journal, records, file>>,
         acked' \subseteq JobIds, used' \in [Events -> Nat]
  PROVE  TypeInv'
<1> USE DEF TypeInv, TypeOK, journal, Discard
<1>1. /\ jobs' \in [JobIds -> Statuses] /\ ask' \in [JobIds -> Payloads]
      /\ records' \subseteq Rows /\ file' \subseteq Rows /\ mem' \subseteq Rows
      /\ removed' \in Nat
  OBVIOUS
<1>2. /\ pc' \in PCs /\ phase' \in Phases
      /\ after' \in 0..MaxJobs /\ cur' \in 0..MaxJobs
      /\ replaced' \subseteq Rows /\ added' \subseteq Rows
      /\ IsFiniteSet(records') /\ IsFiniteSet(replaced')
  BY BoundsAssumption, FS_EmptySet DEF PCs, Phases
<1>3. batch' \in Seq(Outcomes) /\ fin' \in Seq(Outcomes)
  BY EmptySeq
<1>4. /\ wake' \in BOOLEAN /\ waking' \subseteq JobIds
      /\ deleting' \in BOOLEAN /\ oDelete' \subseteq Keys /\ oSync' \in BOOLEAN
      /\ oFinish' \subseteq Outcomes /\ oClaim' \in BOOLEAN
  OBVIOUS
<1>5. QED  BY <1>1, <1>2, <1>3, <1>4

\* Threads left behind, stop(), crashes and reopening.
LEMMA OtherTypes ==
  TypeInv /\ ControlInv /\ (Orphan \/ Stop \/ Crash \/ OpenCollection) => TypeInv'
<1> SUFFICES ASSUME TypeInv, ControlInv,
                    Orphan \/ Stop \/ Crash \/ OpenCollection
             PROVE  TypeInv'
  OBVIOUS
<1> USE DEF TypeInv, TypeOK, journal, stores, worker, callers, threads, PCs, Phases
<1>1. ASSUME NEW k \in Keys, OrphanDeleteRows(k)  PROVE TypeInv'
  <2> DEFINE gone == {r \in records : r.key = k}
  <2>1. IsFiniteSet(gone) /\ IsFiniteSet(records \ gone)
    BY FS_Subset
  <2>2. Cardinality(gone) \in Nat
    BY <2>1, FS_CardinalityType
  <2>3. QED
    BY <1>1, <2>1, <2>2 DEF OrphanDeleteRows, DeleteRows, RemoveIds
<1>2. CASE OrphanSync
  BY <1>2 DEF OrphanSync, SyncFile
<1>3. ASSUME NEW o \in oFinish, OrphanFinish(o)  PROVE TypeInv'
  BY <1>3 DEF OrphanFinish, SetStatus, Outcomes, Statuses, Finished
<1>4. CASE OrphanClaim
  BY <1>4 DEF OrphanClaim, Statuses
<1>5. CASE StopBegin
  <2>1. Range(fin) \subseteq Outcomes /\ Range(fin) = {fin[i] : i \in DOMAIN fin}
    BY RangeOfParts DEF Range
  <2>2. QED  BY BoundsAssumption, <1>5, <2>1, SpendType DEF StopBegin
<1>6. CASE StopSync
  BY <1>6, SpendType DEF StopSync, SyncFile
<1>7. CASE StopFinish
  <2>1. batch[1] \in Outcomes /\ Tail(batch) \in Seq(Outcomes)
    BY <1>7, RangeOfParts, HeadTailProperties DEF StopFinish
  <2>2. QED
    BY <1>7, <2>1 DEF StopFinish, SetStatus, Outcomes, Statuses, Finished
<1>8. CASE StopFinished
  BY <1>8, SpendType DEF StopFinished
<1>9. CASE CloseConns
  <2>1. UNCHANGED <<journal, records, file, used>> /\ acked' \subseteq JobIds
    BY <1>9 DEF CloseConns
  <2>2. QED  BY <1>9, <2>1, DiscardTypes DEF CloseConns
<1>10. CASE Crash
  <2>1. UNCHANGED <<journal, records, file, acked>> /\ used' \in [Events -> Nat]
    BY <1>10, SpendType DEF Crash
  <2>2. QED  BY <1>10, <2>1, DiscardTypes DEF Crash
<1>11. CASE OpenCollection
  BY <1>11 DEF OpenCollection
<1>12. QED
  BY <1>1, <1>2, <1>3, <1>4, <1>5, <1>6, <1>7, <1>8, <1>9, <1>10, <1>11
  DEF Orphan, Stop

-----------------------------------------------------------------------------
\* ControlInv speaks of a few variables only.
LEMMA ControlFrame ==
  ASSUME ControlInv,
         UNCHANGED <<journal, pc, after, cur, batch, fin, oFinish, oClaim, phase>>,
         phase = "down" => ~deleting' /\ ~oSync'
  PROVE  ControlInv'
BY DEF ControlInv, journal

LEMMA ClientControl == TypeInv /\ ControlInv /\ Client => ControlInv'
<1> SUFFICES ASSUME TypeInv, ControlInv, Client  PROVE ControlInv'
  OBVIOUS
<1> USE DEF journal, stores, worker, callers, threads
<1>1. ASSUME NEW a \in Asks, Enqueue(a)  PROVE ControlInv'
  BY <1>1 DEF Enqueue, IsNextJob, ControlInv, TypeInv, TypeOK
<1>2. ASSUME NEW j \in JobIds, EnqueueReturns(j)  PROVE ControlInv'
  BY <1>2, ControlFrame DEF EnqueueReturns, ControlInv
<1>3. ASSUME NEW j \in JobIds, EnqueueCancelled(j)  PROVE ControlInv'
  BY <1>3, ControlFrame DEF EnqueueCancelled, ControlInv
<1>4. ASSUME NEW k \in Keys, DeleteDocument(k)  PROVE ControlInv'
  BY <1>4, ControlFrame DEF DeleteDocument, WriteLocked, ControlInv
<1>5. ASSUME NEW k \in Keys, DeleteCancelled(k)  PROVE ControlInv'
  BY <1>5, ControlFrame DEF DeleteCancelled, ControlInv
<1>6. CASE DeleteSync
  BY <1>6, ControlFrame DEF DeleteSync, ControlInv
<1>7. CASE DeleteSyncCancelled
  BY <1>7, ControlFrame DEF DeleteSyncCancelled, ControlInv
<1>8. QED
  BY <1>1, <1>2, <1>3, <1>4, <1>5, <1>6, <1>7 DEF Client

\* A job joins the batch above every job in it.
LEMMA JoinBatchControl ==
  ASSUME TypeInv, ControlInv, NEW status \in Finished, JoinBatch(status),
         pc \in {"prep", "add"}, UNCHANGED <<journal, after, fin, threads, phase>>
  PROVE  ControlInv'
<1>1. cur \in JobIds /\ cur # 0 /\ phase = "running" /\ fin = <<>>
  BY DEF ControlInv, TypeInv, TypeOK, JobIds
<1>2. [job |-> cur, status |-> status] \in Outcomes
  BY <1>1 DEF Outcomes
<1>3. Range(batch') = Range(batch) \cup {[job |-> cur, status |-> status]}
  BY <1>2, RangeOfParts DEF JoinBatch, TypeInv, TypeOK
<1>4. cur' = 0 /\ pc' \in {"flush", "top"}
  BY DEF JoinBatch
<1>5. \A o \in Range(batch') \cup Range(fin') : o.job <= after'
  BY <1>1, <1>3 DEF ControlInv
<1>6. QED
  BY <1>1, <1>4, <1>5 DEF ControlInv, journal, threads

LEMMA WorkerControl == TypeInv /\ ControlInv /\ Worker => ControlInv'
<1> SUFFICES ASSUME TypeInv, ControlInv, Worker  PROVE ControlInv'
  OBVIOUS
<1> USE DEF journal, stores, worker, callers, threads
<1>1. CASE LoopTop
  BY <1>1 DEF LoopTop, ControlInv
<1>2. CASE ClaimJob
  <2>1. PICK j \in JobIds : /\ IsClaimed(j)
                            /\ jobs' = [jobs EXCEPT ![j] = "processing"]
                            /\ after' = j /\ cur' = j /\ pc' = ClaimedPc(j)
    BY <1>2 DEF ClaimJob
  <2>2. j \in Nat /\ j > after /\ j # 0 /\ jobs'[j] = "processing"
    BY <2>1, BoundsAssumption DEF IsClaimed, Claimable, JobIds, TypeInv, TypeOK
  <2>3. phase = "running" /\ fin = <<>>
    BY <1>2 DEF ClaimJob, ControlInv
  <2>4. \A o \in Range(batch) : o.job \in Nat /\ o.job < j
    <3>1. Range(batch) \subseteq Outcomes
      BY RangeOfParts DEF TypeInv, TypeOK
    <3>2. \A o \in Range(batch) : o.job \in Nat
      BY <3>1, BoundsAssumption DEF Outcomes, JobIds
    <3>3. \A o \in Range(batch) : o.job <= after
      BY <2>3 DEF ControlInv
    <3>4. after \in Nat
      BY BoundsAssumption DEF TypeInv, TypeOK
    <3>5. QED  BY <2>2, <3>2, <3>3, <3>4
  <2>5. /\ pc' \in {"prep", "rebuild", "flush"}
        /\ pc' = "rebuild" => batch = <<>>
        /\ pc' # "prep" => ask[j].op = "index"
    <3>1. ask[j] \in Payloads
      BY DEF TypeInv, TypeOK
    <3>2. QED  BY <2>1, <3>1 DEF ClaimedPc, Payloads
  <2>6. UNCHANGED <<ask, batch, fin, threads, phase>>
    BY <1>2 DEF ClaimJob
  <2>7. Range(fin) = {}
    BY <2>3, RangeOfParts DEF TypeInv, TypeOK
  <2>8. QED
    BY <2>1, <2>2, <2>3, <2>4, <2>5, <2>6, <2>7 DEF ControlInv
<1>3. CASE ClaimNone \/ NoneClaimed
  BY <1>3 DEF ClaimNone, NoneClaimed, ControlInv
<1>4. CASE ClaimRaises
  BY <1>4 DEF ClaimRaises, ControlInv
<1>5. CASE WakeUp
  BY <1>5 DEF WakeUp, ControlInv
<1>6. CASE ProcessEmpty
  BY <1>6, JoinBatchControl DEF ProcessEmpty, Finished
<1>7. CASE ProcessFails
  BY <1>7, JoinBatchControl DEF ProcessFails, Finished
<1>8. CASE UpsertRows
  BY <1>8 DEF UpsertRows, ControlInv
<1>9. CASE PreSync
  BY <1>9 DEF PreSync, ControlInv
<1>10. CASE UnindexReplaced
  BY <1>10 DEF UnindexReplaced, ControlInv
<1>11. CASE AddWithIds
  BY <1>11, JoinBatchControl DEF AddWithIds, Finished
<1>12. CASE AddRaises
  BY <1>12, JoinBatchControl DEF AddRaises, Finished
<1>13. CASE FlushSync
  BY <1>13 DEF FlushSync, ControlInv
<1>14. CASE FlushSyncFails
  BY <1>14 DEF FlushSyncFails, ControlInv
<1>15. CASE FlushRetry
  BY <1>15 DEF FlushRetry, ControlInv
<1>16. CASE PopJob
  <2>1. /\ Range(batch') \subseteq Range(batch) /\ Head(batch) \in Range(batch)
        /\ Head(batch) \in Outcomes
    BY <1>16, RangeOfParts DEF PopJob, TypeInv, TypeOK
  <2>2. Range(fin') = {Head(batch)} /\ Len(fin') = 1 /\ fin' # <<>>
    BY <1>16 DEF PopJob, Range
  <2>3. QED  BY <1>16, <2>1, <2>2 DEF PopJob, ControlInv
<1>17. CASE FlushDone
  BY <1>17 DEF FlushDone, ControlInv
<1>18. CASE FinishJob
  <2>1. fin[1] \in Range(fin) /\ fin[1] \in Outcomes
    BY <1>18, RangeOfParts DEF FinishJob, ControlInv, TypeInv, TypeOK
  <2>2. cur # 0 => fin[1].job # cur
    BY <1>18, <2>1 DEF FinishJob, ControlInv, TypeInv, TypeOK, JobIds, Outcomes
  <2>3. cur # 0 => jobs'[cur] = jobs[cur]
    BY <1>18, <2>2 DEF FinishJob, SetStatus, TypeInv, TypeOK
  <2>4. Range(fin') = {} /\ Len(fin') = 0
    BY <1>18 DEF FinishJob, Range
  <2>5. QED  BY <1>18, <2>3, <2>4 DEF FinishJob, ControlInv
<1>19. CASE FinishRaises
  <2>1. Range(fin') = {} /\ Len(fin') = 0
    BY <1>19 DEF FinishRaises, Range
  <2>2. QED  BY <1>19, <2>1 DEF FinishRaises, ControlInv
<1>20. CASE IndexJob
  <2>1. cur # 0 /\ phase = "running" /\ batch = <<>> /\ fin = <<>>
    BY <1>20 DEF IndexJob, ControlInv
  <2>2. PICK status \in Finished : fin' = <<[job |-> cur, status |-> status]>>
    BY <1>20 DEF IndexJob, Finished
  <2>3. \A o \in Range(fin') : o.job = cur
    BY <2>2 DEF Range
  <2>4. Len(fin') = 1 /\ fin' # <<>>
    BY <2>2
  <2>5. QED
    BY <1>20, <2>1, <2>3, <2>4, RangeOfParts DEF IndexJob, ControlInv, TypeInv, TypeOK
<1>21. QED
  BY <1>1, <1>2, <1>3, <1>4, <1>5, <1>6, <1>7, <1>8, <1>9, <1>10, <1>11, <1>12,
     <1>13, <1>14, <1>15, <1>16, <1>17, <1>18, <1>19, <1>20 DEF Worker

LEMMA OtherControl ==
  TypeInv /\ ControlInv /\ (Orphan \/ Stop \/ Crash \/ OpenCollection) => ControlInv'
<1> SUFFICES ASSUME TypeInv, ControlInv,
                    Orphan \/ Stop \/ Crash \/ OpenCollection
             PROVE  ControlInv'
  OBVIOUS
<1> USE DEF journal, stores, worker, callers, threads
<1>1. ASSUME NEW k \in Keys, OrphanDeleteRows(k)  PROVE ControlInv'
  BY <1>1, ControlFrame DEF OrphanDeleteRows, ControlInv
<1>2. CASE OrphanSync
  BY <1>2, ControlFrame DEF OrphanSync, ControlInv
<1>3. ASSUME NEW o \in oFinish, OrphanFinish(o)  PROVE ControlInv'
  BY <1>3 DEF OrphanFinish, ControlInv
<1>4. CASE OrphanClaim
  BY <1>4 DEF OrphanClaim, ControlInv
<1>5. CASE StopBegin
  BY <1>5 DEF StopBegin, ControlInv, WriteLocked
<1>6. CASE StopSync
  BY <1>6 DEF StopSync, ControlInv
<1>7. CASE StopFinish
  BY <1>7 DEF StopFinish, ControlInv
<1>8. CASE StopFinished
  BY <1>8 DEF StopFinished, ControlInv
<1>9. CASE CloseConns \/ Crash
  <2>1. Discard
    BY <1>9 DEF CloseConns, Crash
  <2>2. QED  BY <2>1 DEF Discard, ControlInv
<1>10. CASE OpenCollection
  <2>1. batch' = <<>> /\ fin' = <<>>
    BY <1>10 DEF OpenCollection, ControlInv
  <2>2. Range(batch') = {} /\ Range(fin') = {} /\ Len(fin') = 0
    BY <2>1 DEF Range
  <2>3. QED  BY <1>10, <2>1, <2>2 DEF OpenCollection, ControlInv
<1>11. QED
  BY <1>1, <1>2, <1>3, <1>4, <1>5, <1>6, <1>7, <1>8, <1>9, <1>10 DEF Orphan, Stop

-----------------------------------------------------------------------------
\* What a step must leave alone so that the rows keep their invariant: no row
\* leaves a store it was needed in, and no job becomes done or due that was not.
LEMMA RowsFrame ==
  ASSUME TypeInv, RowsInv, records' \subseteq records,
         \A r \in records' :
           /\ r \in file => r \in file'
           /\ phase' # "down" /\ r \in mem => r \in mem'
           /\ Succeeds(r, Due') => Succeeds(r, Due)
           /\ Succeeds(r, Range(batch') \cup Due') => Succeeds(r, Range(batch) \cup Due)
           /\ jobs'[r.job] = "done" => jobs[r.job] = "done" \/ Succeeds(r, Due)
           /\ jobs[r.job] # "none" => jobs'[r.job] # "none" /\ ask'[r.job] = ask[r.job],
         phase = "down" => phase' = "down",
         pc' \in {"presync", "unindex"} =>
           pc \in {"presync", "unindex"} /\ replaced' = replaced,
         pc' \in {"presync", "unindex", "add"} =>
           pc \in {"presync", "unindex", "add"} /\ cur' = cur /\ added' = added
  PROVE  RowsInv'
<1> SUFFICES ASSUME NEW r \in records'  PROVE RowInv(r)'
  BY DEF RowsInv
<1>1. RowInv(r)
  BY DEF RowsInv
<1>2. Succeeds(r, Due) => Succeeds(r, Range(batch) \cup Due)
  BY DEF Succeeds
<1>3. /\ jobs'[r.job] = "done" => r \in file'
      /\ Succeeds(r, Due') => r \in file'
  BY <1>1 DEF RowInv
<1>4. phase' # "down" /\
      (jobs'[r.job] = "done" \/ Succeeds(r, Range(batch') \cup Due')) => r \in mem'
  BY <1>1, <1>2 DEF RowInv
<1>5. /\ r.key \in ask'[r.job].keys /\ jobs'[r.job] # "none"
      /\ \A q \in records' : q.id = r.id => q = r
  BY <1>1 DEF RowInv
<1>6. /\ pc' \in {"presync", "unindex"} => r.id \notin Ids(replaced')
      /\ pc' \in {"presync", "unindex", "add"} /\ r.job = cur' => r \in added'
  BY <1>1 DEF RowInv, Ids
<1>7. QED
  BY <1>3, <1>4, <1>5, <1>6 DEF RowInv, Succeeds, Ids

\* A sync puts in the file what the batch's jobs need there.
LEMMA SyncFrame ==
  ASSUME TypeInv, RowsInv, SyncFile, phase # "down",
         UNCHANGED <<journal, records, mem, cur, replaced, added, batch, fin, oFinish>>,
         pc' \in {"presync", "unindex"} => pc \in {"presync", "unindex"},
         pc' \in {"presync", "unindex", "add"} => pc \in {"presync", "unindex", "add"}
  PROVE  RowsInv'
<1> SUFFICES ASSUME NEW r \in records  PROVE RowInv(r)'
  BY DEF RowsInv, journal
<1>1. RowInv(r)
  BY DEF RowsInv
<1>2. Due' \subseteq Range(batch) \cup Due
  BY DEF Due
<1>3. Succeeds(r, Range(batch') \cup Due') => Succeeds(r, Range(batch) \cup Due)
  BY <1>2 DEF Succeeds
<1>4. jobs'[r.job] = "done" \/ Succeeds(r, Range(batch') \cup Due') => r \in mem
  BY <1>1, <1>3 DEF RowInv, journal
<1>5. Succeeds(r, Due') => Succeeds(r, Range(batch') \cup Due')
  BY DEF Succeeds
<1>6. QED
  BY <1>1, <1>4, <1>5 DEF RowInv, SyncFile, Succeeds, Ids, journal

\* Rows have ids of their own, so removing some rows' ids keeps the others'
\* vectors.
LEMMA DeleteRowsKeeps ==
  ASSUME TypeInv, RowsInv, NEW k \in Keys, DeleteRows(k)
  PROVE  /\ records' \subseteq records
         /\ \A r \in records' : r \in mem => r \in mem'
<1>1. records' = records \ {r \in records : r.key = k}
  BY DEF DeleteRows
<1>2. ASSUME NEW r \in records'  PROVE r.id \notin Ids({q \in records : q.key = k})
  BY <1>1, <1>2 DEF Ids, RowsInv, RowInv
<1>3. QED
  BY <1>1, <1>2 DEF DeleteRows, RemoveIds

LEMMA ClientRows == TypeInv /\ ControlInv /\ RowsInv /\ Client => RowsInv'
<1> SUFFICES ASSUME TypeInv, ControlInv, RowsInv, Client  PROVE RowsInv'
  OBVIOUS
<1> USE DEF journal, stores, worker, callers, threads
<1>1. ASSUME NEW a \in Asks, Enqueue(a)  PROVE RowsInv'
  <2>1. PICK j \in JobIds : /\ jobs[j] = "none"
                            /\ jobs' = [jobs EXCEPT ![j] = "pending"]
                            /\ ask' = [ask EXCEPT ![j] = a]
    BY <1>1 DEF Enqueue, IsNextJob
  <2>2. \A r \in records :
          /\ jobs[r.job] # "none"
          /\ jobs'[r.job] = jobs[r.job] /\ ask'[r.job] = ask[r.job]
    BY <2>1 DEF RowsInv, RowInv, TypeInv, TypeOK
  <2>3. Due' = Due /\ UNCHANGED <<stores, worker, phase>>
    BY <1>1 DEF Enqueue, Due
  <2>4. QED  BY <2>2, <2>3, RowsFrame
<1>2. ASSUME NEW j \in JobIds, EnqueueReturns(j) \/ EnqueueCancelled(j)
      PROVE  RowsInv'
  BY <1>2, RowsFrame DEF EnqueueReturns, EnqueueCancelled, Due
<1>3. ASSUME NEW k \in Keys, DeleteDocument(k)  PROVE RowsInv'
  BY <1>3, DeleteRowsKeeps, RowsFrame DEF DeleteDocument, Due
<1>4. ASSUME NEW k \in Keys, DeleteCancelled(k)  PROVE RowsInv'
  BY <1>4, RowsFrame DEF DeleteCancelled, Due
<1>5. CASE DeleteSync
  <2>1. phase # "down"
    BY <1>5 DEF DeleteSync, ControlInv
  <2>2. CASE SyncFile
    BY <1>5, <2>1, <2>2, SyncFrame DEF DeleteSync
  <2>3. CASE UNCHANGED <<file, removed>>
    BY <1>5, <2>3, RowsFrame DEF DeleteSync, Due
  <2>4. QED  BY <1>5, <2>2, <2>3 DEF DeleteSync
<1>6. CASE DeleteSyncCancelled
  BY <1>6, RowsFrame DEF DeleteSyncCancelled, Due
<1>7. QED
  BY <1>1, <1>2, <1>3, <1>4, <1>5, <1>6 DEF Client

LEMMA OtherRows ==
  TypeInv /\ ControlInv /\ RowsInv /\ (Orphan \/ Stop \/ Crash \/ OpenCollection)
    => RowsInv'
<1> SUFFICES ASSUME TypeInv, ControlInv, RowsInv,
                    Orphan \/ Stop \/ Crash \/ OpenCollection
             PROVE  RowsInv'
  OBVIOUS
<1> USE DEF journal, stores, worker, callers, threads
<1>1. ASSUME NEW k \in Keys, OrphanDeleteRows(k)  PROVE RowsInv'
  BY <1>1, DeleteRowsKeeps, RowsFrame DEF OrphanDeleteRows, Due
<1>2. CASE OrphanSync
  BY <1>2, SyncFrame DEF OrphanSync, ControlInv
<1>3. ASSUME NEW o \in oFinish, OrphanFinish(o)  PROVE RowsInv'
  <2>1. o \in Due /\ Due' \subseteq Due /\ o \in Outcomes
    BY <1>3 DEF OrphanFinish, Due, TypeInv, TypeOK
  <2>2. \A r \in records :
          /\ jobs'[r.job] = "done" => jobs[r.job] = "done" \/ Succeeds(r, Due)
          /\ jobs[r.job] # "none" => jobs'[r.job] # "none"
    BY <1>3, <2>1
    DEF OrphanFinish, SetStatus, Succeeds, Outcomes, Finished, TypeInv, TypeOK, Rows
  <2>3. QED
    BY <1>3, <2>1, <2>2, RowsFrame DEF OrphanFinish, Succeeds
<1>4. CASE OrphanClaim
  <2>1. \A r \in records : jobs'[r.job] \in {jobs[r.job], "processing"}
    BY <1>4 DEF OrphanClaim, TypeInv, TypeOK, Rows
  <2>2. QED  BY <1>4, <2>1, RowsFrame DEF OrphanClaim, Due
<1>5. CASE StopBegin
  <2>1. Due' \subseteq Due /\ batch' = batch
    BY <1>5 DEF StopBegin, Due, Range
  <2>2. phase # "down"
    BY <1>5 DEF StopBegin, WriteLocked
  <2>3. pc' = "off" /\ UNCHANGED <<journal, stores>>
    BY <1>5 DEF StopBegin
  <2>4. QED  BY <2>1, <2>2, <2>3, RowsFrame DEF Succeeds
<1>6. CASE StopSync
  <2>1. phase # "down"
    BY <1>6 DEF StopSync
  <2>2. CASE SyncFile
    BY <1>6, <2>1, <2>2, SyncFrame DEF StopSync
  <2>3. CASE phase' = "closing" /\ UNCHANGED <<file, removed>>
    BY <1>6, <2>1, <2>3, RowsFrame DEF StopSync, Due
  <2>4. QED  BY <1>6, <2>2, <2>3 DEF StopSync
<1>7. CASE StopFinish
  <2>1. /\ batch[1] \in Range(batch) /\ batch[1] \in Outcomes
        /\ Range(batch') \subseteq Range(batch)
    BY <1>7, RangeOfParts DEF StopFinish, TypeInv, TypeOK
  <2>2. batch[1] \in Due /\ Due' \subseteq Due
    BY <1>7, <2>1 DEF StopFinish, Due
  <2>3. \A r \in records :
          /\ jobs'[r.job] = "done" => jobs[r.job] = "done" \/ Succeeds(r, Due)
          /\ jobs[r.job] # "none" => jobs'[r.job] # "none"
    BY <1>7, <2>1, <2>2
    DEF StopFinish, SetStatus, Succeeds, Outcomes, Finished, TypeInv, TypeOK, Rows
  <2>4. QED
    BY <1>7, <2>1, <2>2, <2>3, RowsFrame DEF StopFinish, Succeeds
<1>8. CASE StopFinished
  <2>1. Due' \subseteq Due /\ batch' = batch
    BY <1>8 DEF StopFinished, Due
  <2>2. QED  BY <1>8, <2>1, RowsFrame DEF StopFinished, Succeeds
<1>9. CASE CloseConns \/ Crash
  <2>1. Discard /\ UNCHANGED <<journal, records, file>>
    BY <1>9 DEF CloseConns, Crash
  <2>2. Due' = {} /\ Range(batch') = {} /\ phase' = "down" /\ pc' = "off"
    BY <2>1 DEF Discard, Due, Range
  <2>3. QED  BY <2>1, <2>2, RowsFrame DEF Succeeds
<1>10. CASE OpenCollection
  <2>1. Due' = {} /\ Range(batch') = {}
    BY <1>10 DEF OpenCollection, ControlInv, Due, Range
  <2>2. /\ mem' = {e \in file : e.id \in Ids(records)} /\ file' = mem'
        /\ pc' = "top" /\ UNCHANGED <<journal, records>>
    BY <1>10 DEF OpenCollection
  <2>3. ASSUME NEW r \in records  PROVE RowInv(r)'
    <3>1. RowInv(r) /\ r.id \in Ids(records)
      BY DEF RowsInv, Ids
    <3>2. jobs'[r.job] = "done" => r \in mem'
      BY <2>2, <3>1 DEF RowInv
    <3>3. QED  BY <2>1, <2>2, <3>1, <3>2 DEF RowInv, Succeeds
  <2>4. QED  BY <2>2, <2>3 DEF RowsInv
<1>11. QED
  BY <1>1, <1>2, <1>3, <1>4, <1>5, <1>6, <1>7, <1>8, <1>9, <1>10 DEF Orphan, Stop

\* A job joins the batch: nothing new is due, and a failed job promises nothing.
LEMMA JoinBatchOwes ==
  ASSUME TypeInv, ControlInv, NEW status \in Finished, JoinBatch(status),
         pc \in {"prep", "add"}, UNCHANGED <<fin, oFinish, phase>>
  PROVE  /\ Due' \subseteq Due
         /\ pc' \in {"flush", "top"}
         /\ Range(batch') \cup Due' \subseteq
              Range(batch) \cup Due \cup {[job |-> cur, status |-> status]}
<1>1. cur \in JobIds /\ phase = "running"
  BY DEF ControlInv, TypeInv, TypeOK, JobIds
<1>2. [job |-> cur, status |-> status] \in Outcomes
  BY <1>1 DEF Outcomes
<1>3. Range(batch') = Range(batch) \cup {[job |-> cur, status |-> status]}
  BY <1>2, RangeOfParts DEF JoinBatch, TypeInv, TypeOK
<1>4. pc' \in {"flush", "top"}
  BY DEF JoinBatch
<1>5. Due' \subseteq Due
  BY <1>1, <1>4 DEF Due
<1>6. QED
  BY <1>3, <1>4, <1>5

\* The write section: an upsert's rows are new to everyone, and its job enters
\* the batch once all of them are in the index.
LEMMA ProcessRows ==
  ASSUME TypeInv, ControlInv, RowsInv,
         \/ ProcessEmpty \/ ProcessFails \/ UpsertRows \/ PreSync
         \/ UnindexReplaced \/ AddWithIds \/ AddRaises
  PROVE  RowsInv'
<1> USE DEF journal, stores, worker, callers, threads
<1>1. /\ pc \in {"prep", "presync", "unindex", "add"}
      /\ cur # 0 /\ cur \in JobIds /\ phase = "running"
  BY DEF ProcessEmpty, ProcessFails, UpsertRows, PreSync, UnindexReplaced,
         AddWithIds, AddRaises, ControlInv, TypeInv, TypeOK, JobIds
<1>2. CASE ProcessEmpty
  <2>1. JoinBatch("done") /\ UNCHANGED <<journal, stores, fin, oFinish, phase>>
    BY <1>2 DEF ProcessEmpty
  <2>2. /\ Due' \subseteq Due /\ pc' \in {"flush", "top"}
        /\ Range(batch') \cup Due' \subseteq
             Range(batch) \cup Due \cup {[job |-> cur, status |-> "done"]}
    BY <1>2, <2>1, JoinBatchOwes DEF ProcessEmpty, Finished
  <2>3. \A r \in records : r.job # cur
    BY <1>2 DEF ProcessEmpty, RowsInv, RowInv
  <2>4. QED
    BY <2>1, <2>2, <2>3, RowsFrame DEF Succeeds
<1>3. CASE ProcessFails
  <2>1. JoinBatch("error") /\ UNCHANGED <<journal, stores, fin, oFinish, phase>>
    BY <1>3 DEF ProcessFails
  <2>2. /\ Due' \subseteq Due /\ pc' \in {"flush", "top"}
        /\ Range(batch') \cup Due' \subseteq
             Range(batch) \cup Due \cup {[job |-> cur, status |-> "error"]}
    BY <1>3, <2>1, JoinBatchOwes DEF ProcessFails, Finished
  <2>3. QED
    BY <2>1, <2>2, RowsFrame DEF Succeeds
<1>4. CASE UpsertRows
  <2> DEFINE S == ask[cur].keys
  <2>1. /\ pc = "prep" /\ S \in SUBSET Keys
        /\ fin = <<>> /\ oFinish = {} /\ jobs[cur] = "processing"
    BY <1>1, <1>4 DEF UpsertRows, Payloads, TypeInv, TypeOK, ControlInv
  <2>2. PICK n \in NextIds : \E ids \in Numberings(S, n) :
          /\ replaced' = {r \in records : r.key \in S}
          /\ added' = NewRows(ids, cur)
          /\ records' = (records \ replaced') \cup added'
    BY <1>4 DEF UpsertRows
  <2>3. PICK ids \in Numberings(S, n) :
          /\ replaced' = {r \in records : r.key \in S}
          /\ added' = NewRows(ids, cur)
          /\ records' = (records \ replaced') \cup added'
    BY <2>2
  <2>4. /\ pc' \in {"add", "presync", "unindex"}
        /\ UNCHANGED <<journal, file, mem, cur, batch, fin, oFinish, phase>>
    BY <1>4 DEF UpsertRows
  <2>5. Due = {} /\ Due' = {}
    BY <1>1, <2>1, <2>4, RangeOfParts DEF Due, Range
  <2>6. \A r \in added' : /\ r.job = cur /\ r.key \in S
                          /\ \A q \in added' : q.id = r.id => q = r
                          /\ \A q \in records : q.id # r.id
    <3>1. /\ n \in Nat \ {0} /\ \A q \in records : q.id \in Nat /\ q.id < n
      BY <1>1, <2>1, NewRowsType DEF NextIds, IsNextId, TypeInv, TypeOK, Rows
    <3>2. /\ DOMAIN ids = S
          /\ \A k \in S : ids[k] \in Nat /\ ids[k] >= n
          /\ \A k, l \in S : ids[k] = ids[l] => k = l
      <4>1. n \in Nat
        BY <3>1
      <4> HIDE DEF S
      <4>2. QED  BY <2>1, <4>1, NumberingsType
    <3>3. added' = {[id |-> ids[k], key |-> k, job |-> cur] : k \in S}
      BY <2>3, <3>2 DEF NewRows
    <3>4. QED  BY <3>1, <3>2, <3>3
  <2>7. ASSUME NEW r \in records \ replaced'  PROVE RowInv(r)'
    <3>1. RowInv(r) /\ r.key \notin S /\ r.job # cur
      BY <2>3 DEF RowsInv, RowInv
    <3>2. \A q \in records' : q.id = r.id => q = r
      BY <2>3, <2>6, <3>1 DEF RowInv
    <3>3. r.id \notin Ids(replaced')
      BY <2>3, <3>1 DEF RowInv, Ids
    <3>4. /\ jobs'[r.job] = "done" => r \in file'
          /\ phase' # "down" /\
             (jobs'[r.job] = "done" \/ Succeeds(r, Range(batch') \cup Due')) => r \in mem'
          /\ r.key \in ask'[r.job].keys /\ jobs'[r.job] # "none"
          /\ ~Succeeds(r, Due')
      BY <2>4, <2>5, <3>1 DEF RowInv, Succeeds
    <3>5. QED  BY <2>4, <3>1, <3>2, <3>3, <3>4 DEF RowInv, Succeeds, Ids
  <2>8. ASSUME NEW r \in added'  PROVE RowInv(r)'
    <3>1. ~Succeeds(r, Range(batch') \cup Due') /\ ~Succeeds(r, Due')
      <4>1. \A o \in Range(batch) : o.job # cur
        <5>1. Range(batch) \subseteq Outcomes
          BY RangeOfParts DEF TypeInv, TypeOK
        <5>2. \A o \in Range(batch) : o.job \in Int /\ o.job < cur
          BY <1>1, <5>1 DEF ControlInv, Outcomes, JobIds
        <5>3. QED  BY <1>1, <5>2 DEF JobIds
      <4>2. QED  BY <2>4, <2>5, <2>6, <4>1 DEF Succeeds
    <3>2. \A q \in records' : q.id = r.id => q = r
      BY <2>3, <2>6
    <3>3. r.id \notin Ids(replaced')
      BY <2>3, <2>6 DEF Ids
    <3>4. QED
      BY <2>1, <2>4, <2>6, <3>1, <3>2, <3>3 DEF RowInv, Succeeds, Ids
  <2>9. QED
    BY <2>3, <2>7, <2>8 DEF RowsInv
<1>5. CASE PreSync
  <2>1. CASE SyncFile
    BY <1>1, <1>5, <2>1, SyncFrame DEF PreSync
  <2>2. CASE UNCHANGED <<file, removed>>
    BY <1>5, <2>2, RowsFrame DEF PreSync, Due
  <2>3. QED  BY <1>5, <2>1, <2>2 DEF PreSync
<1>6. CASE UnindexReplaced
  <2>1. \A r \in records : r \in mem => r \in mem'
    BY <1>6 DEF UnindexReplaced, RemoveIds, RowsInv, RowInv
  <2>2. QED
    BY <1>6, <2>1, RowsFrame DEF UnindexReplaced, Due
<1>7. CASE AddWithIds
  <2>1. /\ JoinBatch("done") /\ pc = "add" /\ mem' = mem \cup added
        /\ UNCHANGED <<journal, records, file, fin, oFinish, phase>>
    BY <1>7 DEF AddWithIds
  <2>2. /\ Due' \subseteq Due /\ pc' \in {"flush", "top"}
        /\ Range(batch') \cup Due' \subseteq
             Range(batch) \cup Due \cup {[job |-> cur, status |-> "done"]}
    BY <2>1, JoinBatchOwes DEF Finished
  <2>3. ASSUME NEW r \in records  PROVE RowInv(r)'
    <3>1. RowInv(r) /\ (r.job = cur => r \in added)
      BY <2>1 DEF RowsInv, RowInv
    <3>2. Succeeds(r, Range(batch') \cup Due') =>
            Succeeds(r, Range(batch) \cup Due) \/ r.job = cur
      BY <2>2 DEF Succeeds
    <3>3. Succeeds(r, Due') => Succeeds(r, Due)
      BY <2>2 DEF Succeeds
    <3>4. QED
      BY <2>1, <2>2, <3>1, <3>2, <3>3 DEF RowInv, Succeeds
  <2>4. QED  BY <2>1, <2>3 DEF RowsInv
<1>8. CASE AddRaises
  <2>1. /\ JoinBatch("error") /\ pc = "add" /\ mem \subseteq mem'
        /\ UNCHANGED <<journal, records, file, fin, oFinish, phase>>
    BY <1>8 DEF AddRaises
  <2>2. /\ Due' \subseteq Due /\ pc' \in {"flush", "top"}
        /\ Range(batch') \cup Due' \subseteq
             Range(batch) \cup Due \cup {[job |-> cur, status |-> "error"]}
    BY <2>1, JoinBatchOwes DEF Finished
  <2>3. QED
    BY <2>1, <2>2, RowsFrame DEF Succeeds
<1>9. QED
  BY <1>2, <1>3, <1>4, <1>5, <1>6, <1>7, <1>8

LEMMA WorkerRows == TypeInv /\ ControlInv /\ RowsInv /\ Worker => RowsInv'
<1> SUFFICES ASSUME TypeInv, ControlInv, RowsInv, Worker  PROVE RowsInv'
  OBVIOUS
<1> USE DEF journal, stores, worker, callers, threads
<1>1. CASE LoopTop
  BY <1>1, RowsFrame DEF LoopTop, Due
<1>2. CASE ClaimJob
  <2>1. PICK j \in JobIds : /\ IsClaimed(j) /\ pc' = ClaimedPc(j)
                            /\ jobs' = [jobs EXCEPT ![j] = "processing"]
    BY <1>2 DEF ClaimJob
  <2>2. \A r \in records : jobs'[r.job] \in {jobs[r.job], "processing"}
    BY <2>1 DEF TypeInv, TypeOK, Rows
  <2>3. pc' \in {"prep", "rebuild", "flush"}
    BY <2>1 DEF ClaimedPc
  <2>4. Due' = Due /\ UNCHANGED <<ask, stores, batch, phase>>
    BY <1>2, <2>3 DEF ClaimJob, Due
  <2>5. QED  BY <2>2, <2>3, <2>4, RowsFrame
<1>3. CASE ClaimNone \/ NoneClaimed \/ ClaimRaises \/ WakeUp
  <2>1. /\ Due' = Due /\ pc' \in {"none", "wait", "flush", "dead", "top"}
        /\ UNCHANGED <<journal, stores, batch, phase>>
    BY <1>3 DEF ClaimNone, NoneClaimed, ClaimRaises, WakeUp, Due
  <2>2. QED  BY <2>1, RowsFrame
<1>4. CASE \/ ProcessEmpty \/ ProcessFails \/ UpsertRows \/ PreSync
           \/ UnindexReplaced \/ AddWithIds \/ AddRaises
  BY <1>4, ProcessRows
<1>5. CASE FlushSync
  BY <1>5, SyncFrame DEF FlushSync, WriteLocked
<1>6. CASE FlushSyncFails \/ FlushRetry
  <2>1. /\ Due' = Due /\ pc' \in {"backoff", "flush"}
        /\ UNCHANGED <<journal, stores, batch, phase>>
    BY <1>6 DEF FlushSyncFails, FlushRetry, Due
  <2>2. QED  BY <2>1, RowsFrame
<1>7. CASE PopJob
  <2>1. Range(batch') \subseteq Range(batch) /\ Head(batch) \in Range(batch)
    BY <1>7, RangeOfParts DEF PopJob, TypeInv, TypeOK
  <2>2. Range(fin') = {Head(batch)}
    BY <1>7 DEF PopJob, Range
  <2>3. Due' \subseteq Due /\ Range(batch') \cup Due' \subseteq Range(batch) \cup Due
    BY <1>7, <2>1, <2>2 DEF PopJob, Due
  <2>4. pc' = "finishing" /\ UNCHANGED <<journal, stores, phase>>
    BY <1>7 DEF PopJob
  <2>5. QED  BY <2>3, <2>4, RowsFrame DEF Succeeds
<1>8. CASE FlushDone
  <2>1. /\ Due' \subseteq Due /\ pc' \in {"top", "rebuild"}
        /\ UNCHANGED <<journal, stores, batch, phase>>
    BY <1>8 DEF FlushDone, Due
  <2>2. QED  BY <2>1, RowsFrame DEF Succeeds
<1>9. CASE FinishJob
  <2>1. fin[1] \in Range(fin) /\ fin[1] \in Outcomes /\ Range(fin') = {}
    BY <1>9, RangeOfParts DEF FinishJob, ControlInv, TypeInv, TypeOK, Range
  <2>2. fin[1] \in Due /\ Due' \subseteq Due /\ batch' = batch
    BY <1>9, <2>1 DEF FinishJob, Due
  <2>3. \A r \in records :
          /\ jobs'[r.job] = "done" => jobs[r.job] = "done" \/ Succeeds(r, Due)
          /\ jobs[r.job] # "none" => jobs'[r.job] # "none"
    BY <1>9, <2>1, <2>2
    DEF FinishJob, SetStatus, Succeeds, Outcomes, Finished, TypeInv, TypeOK, Rows
  <2>4. pc' = "finish" /\ UNCHANGED <<ask, stores, phase>>
    BY <1>9 DEF FinishJob
  <2>5. QED  BY <2>2, <2>3, <2>4, RowsFrame DEF Succeeds
<1>10. CASE FinishRaises
  <2>1. Range(fin') = {} /\ pc' = "dead" /\ UNCHANGED <<journal, stores, batch, phase>>
    BY <1>10 DEF FinishRaises, Range
  <2>2. Due' \subseteq Due
    BY <1>10, <2>1 DEF FinishRaises, Due
  <2>3. QED  BY <2>1, <2>2, RowsFrame DEF Succeeds
<1>11. CASE IndexJob
  <2>1. ask[cur].op = "index" /\ cur \in JobIds /\ batch = <<>>
    BY <1>11 DEF IndexJob, ControlInv, TypeInv, TypeOK, JobIds
  <2>2. \A r \in records : r.job # cur
    BY <2>1 DEF Payloads, TypeInv, TypeOK, RowsInv, RowInv
  <2>3. PICK status \in Finished : fin' = <<[job |-> cur, status |-> status]>>
    BY <1>11 DEF IndexJob, Finished
  <2>4. Range(fin') = {[job |-> cur, status |-> status]}
    BY <2>3 DEF Range
  <2>5. /\ pc' = "finishing"
        /\ UNCHANGED <<journal, records, batch, oFinish, phase>>
        /\ \A r \in records : (r \in file => r \in file') /\ (r \in mem => r \in mem')
    BY <1>11 DEF IndexJob
  <2>6. Due' \subseteq Due \cup {[job |-> cur, status |-> status]}
    BY <2>1, <2>4, <2>5, RangeOfParts DEF Due, TypeInv, TypeOK
  <2>7. QED  BY <2>2, <2>5, <2>6, RowsFrame DEF Succeeds
<1>12. QED
  BY <1>1, <1>2, <1>3, <1>4, <1>5, <1>6, <1>7, <1>8, <1>9, <1>10, <1>11 DEF Worker

-----------------------------------------------------------------------------
LEMMA InitHolds == Init => TypeInv /\ DurabilityInv
<1> SUFFICES ASSUME Init  PROVE TypeInv /\ DurabilityInv
  OBVIOUS
<1> USE DEF Init
<1>1. TypeInv
  <2>1. ask \in [JobIds -> Payloads] /\ jobs \in [JobIds -> Statuses]
    BY DEF Payloads, Statuses
  <2>2. batch \in Seq(Outcomes) /\ fin \in Seq(Outcomes)
    BY EmptySeq
  <2>3. used \in [Events -> Nat] /\ after \in 0..MaxJobs /\ cur \in 0..MaxJobs
    BY BoundsAssumption
  <2>4. QED
    BY <2>1, <2>2, <2>3, FS_EmptySet DEF TypeInv, TypeOK, PCs, Phases
<1>2. ControlInv
  <2>1. Range(batch) = {} /\ Range(fin) = {} /\ Len(fin) = 0
    BY DEF Range
  <2>2. QED  BY <2>1 DEF ControlInv
<1>3. QED
  BY <1>1, <1>2 DEF DurabilityInv, RowsInv

LEMMA NextHolds == TypeInv /\ DurabilityInv /\ [Next]_vars => TypeInv' /\ DurabilityInv'
<1> SUFFICES ASSUME TypeInv, ControlInv, RowsInv, [Next]_vars
             PROVE  TypeInv' /\ ControlInv' /\ RowsInv'
  BY DEF DurabilityInv
<1>1. CASE Client
  BY <1>1, ClientTypes, ClientControl, ClientRows
<1>2. CASE Worker
  BY <1>2, WorkerTypes, WorkerControl, WorkerRows
<1>3. CASE Orphan \/ Stop \/ Crash \/ OpenCollection
  BY <1>3, OtherTypes, OtherControl, OtherRows
<1>4. CASE UNCHANGED vars
  <2> USE DEF vars, journal, stores, worker, callers, threads
  <2>1. TypeInv'
    BY <1>4 DEF TypeInv, TypeOK
  <2>2. ControlInv'
    BY <1>4 DEF ControlInv
  <2>3. Due' = Due
    BY <1>4 DEF Due
  <2>4. RowsInv'
    BY <1>4, <2>3, RowsFrame
  <2>5. QED  BY <2>1, <2>2, <2>4
<1>5. QED
  BY <1>1, <1>2, <1>3, <1>4 DEF Next, Idle

\* The inductive invariant holds in every reachable state.
THEOREM Durability == Spec => [](TypeInv /\ DurabilityInv)
<1>1. QED  BY InitHolds, NextHolds, PTL DEF Spec

\* Every variable of the journal keeps its type.
THEOREM TypeCorrect == Spec => []TypeOK
<1>1. TypeInv => TypeOK
  BY DEF TypeInv
<1>2. QED  BY <1>1, Durability, PTL

\* A job that is 'done' has the vector of every row it wrote in the synced index
\* file: whatever crashes, stops, failed syncs, cut off finishes and cancelled
\* deletes come in between, a crash cannot lose it any more.
THEOREM DoneRowsAreDurable == Spec => []DoneRowsDurable
<1>1. DurabilityInv => DoneRowsDurable
  BY DEF DurabilityInv, RowsInv, RowInv, DoneRowsDurable
<1>2. QED  BY <1>1, Durability, PTL

-----------------------------------------------------------------------------
\* Ids and removals, where no delete's caller is cancelled.

\* What the write section works on.
Section == {"presync", "unindex", "add"}
Unique(rows) == \A p, q \in rows : p.id = q.id => p = q

\* An id in the index is a record's, or that of a replaced row which is about to go;
\* no row is deleted, and none of the new ones is in the index, until the section ends.
IdInv ==
  /\ oDelete = {}
  /\ phase = "down" => mem = {}
  /\ deleting => pc \notin Section
  /\ Unique(mem) /\ Unique(file)
  /\ \A e \in mem : \/ e.id \in Ids(records)
                    \/ pc \in {"presync", "unindex"} /\ e.id \in Ids(replaced)
  /\ pc \in Section =>
       Unique(added) /\ added \subseteq records /\ Ids(added) \cap Ids(mem) = {}
\* What is to be removed fits under the cap, or is all there is.
CapInv ==
  pc = "unindex" /\ used["fault"] = 0 => ~OverCap(Cardinality(replaced))

\* IdInv speaks of rows; the files and the index may only change for one another.
LEMMA IdFrame ==
  ASSUME IdInv, pc \notin Section, pc' \notin Section, oDelete' = {},
         phase' = "down" => phase = "down",
         mem' \in {mem, {}}, file' \in {file, mem}, records' = records
  PROVE  IdInv'
BY DEF IdInv, Unique, Section

\* A delete takes rows and ids together.
LEMMA DeleteIds ==
  ASSUME IdInv, NEW k \in Keys, DeleteRows(k), UNCHANGED <<file, pc, oDelete, phase>>,
         pc \notin Section
  PROVE  IdInv'
<1>1. mem' \subseteq mem
  BY DEF DeleteRows, RemoveIds
<1>2. ASSUME NEW e \in mem'  PROVE e.id \in Ids(records')
  <2>1. PICK r \in records : r.id = e.id
    BY <1>1 DEF IdInv, Section, Ids
  <2>2. r.key # k
    BY <2>1 DEF DeleteRows, RemoveIds, Ids
  <2>3. QED  BY <2>1, <2>2 DEF DeleteRows, Ids
<1>3. QED  BY <1>1, <1>2 DEF IdInv, Unique, Section

\* Clients delete outside the write section only.
LEMMA ClientIds ==
  ASSUME ~CancelDelete, TypeInv, ControlInv, IdInv, Client  PROVE IdInv'
<1> USE DEF journal, stores, worker, callers, threads
<1>1. ASSUME NEW k \in Keys, DeleteDocument(k)  PROVE IdInv'
  BY <1>1, DeleteIds DEF DeleteDocument, WriteLocked, Section
<1>2. ASSUME DeleteSync  PROVE IdInv'
  BY <1>2 DEF DeleteSync, SyncFile, IdInv, Unique, Section
<1>3. ASSUME UNCHANGED <<stores, worker, deleting, oDelete, phase>>  PROVE IdInv'
  BY <1>3 DEF IdInv, Unique, Section
<1>4. QED
  BY <1>1, <1>2, <1>3 DEF Client, Enqueue, EnqueueReturns, EnqueueCancelled,
     DeleteCancelled, DeleteSyncCancelled

\* The new rows' ids are above every id there was, the replaced rows' included.
LEMMA UpsertIds ==
  ASSUME TypeInv, ControlInv, IdInv, UpsertRows  PROVE IdInv'
<1>1. PICK n \in NextIds : \E ids \in Numberings(ask[cur].keys, n) :
        /\ replaced' = {r \in records : r.key \in ask[cur].keys}
        /\ added' = NewRows(ids, cur)
        /\ records' = (records \ replaced') \cup added'
  BY DEF UpsertRows
<1>2. PICK ids \in Numberings(ask[cur].keys, n) :
        /\ replaced' = {r \in records : r.key \in ask[cur].keys}
        /\ added' = NewRows(ids, cur)
        /\ records' = (records \ replaced') \cup added'
  BY <1>1
<1>3. /\ pc = "prep" /\ pc' \in Section /\ ~deleting
      /\ phase' # "down" /\ UNCHANGED <<mem, file, deleting, oDelete>>
  BY DEF UpsertRows, WriteLocked, ControlInv, threads, Section
<1>4. /\ ask[cur].keys \in SUBSET Keys /\ n \in Nat
      /\ \A r \in records : r.id \in Nat /\ r.id < n
  BY <1>3 DEF ControlInv, TypeInv, TypeOK, Payloads, JobIds, NextIds, IsNextId, Rows
<1>5. /\ DOMAIN ids = ask[cur].keys
      /\ \A k \in ask[cur].keys : ids[k] \in Nat /\ ids[k] >= n
      /\ \A k, l \in ask[cur].keys : ids[k] = ids[l] => k = l
  BY <1>4, NumberingsType, SMTT(30)
<1>6. Unique(added') /\ \A r \in added' : r.id \in Nat /\ r.id >= n
  BY <1>2, <1>5 DEF NewRows, Unique
<1>7. \A e \in mem : e.id \in Ids(records) /\ e.id \in Nat /\ e.id < n
  BY <1>3, <1>4 DEF IdInv, Ids
<1>8. \A e \in mem : e.id \in Ids(records') \/ e.id \in Ids(replaced')
  BY <1>2, <1>7 DEF Ids
<1>9. Ids(added') \cap Ids(mem) = {}
  BY <1>4, <1>6, <1>7 DEF Ids
<1>10. pc' = "add" => replaced' = {}
  BY DEF UpsertRows
<1>11. QED
  BY <1>2, <1>3, <1>6, <1>8, <1>9, <1>10 DEF IdInv, Unique, Section, Ids

\* What is added has new ids.
LEMMA AddIds ==
  ASSUME IdInv, pc = "add", pc' \notin Section, NEW part \in SUBSET added,
         mem' = mem \cup part, UNCHANGED <<file, records, oDelete>>, phase' # "down"
  PROVE  IdInv'
<1>1. Unique(mem')
  <2> SUFFICES ASSUME NEW p \in mem', NEW q \in mem', p.id = q.id  PROVE p = q
    BY DEF Unique
  <2>1. Ids(added) \cap Ids(mem) = {} /\ Unique(added) /\ Unique(mem)
    BY DEF IdInv, Section
  <2>2. (p \in mem /\ q \in mem) \/ (p \in added /\ q \in added)
    BY <2>1 DEF Ids
  <2>3. QED  BY <2>1, <2>2 DEF Unique
<1>2. \A e \in mem' : e.id \in Ids(records)
  BY DEF IdInv, Section, Ids
<1>3. QED  BY <1>1, <1>2 DEF IdInv, Unique

\* The worker: only its write section changes rows and ids.
LEMMA WorkerIds ==
  ASSUME TypeInv, ControlInv, RowsInv, IdInv, Worker  PROVE IdInv'
<1> USE DEF journal, stores, worker, callers, threads
<1>1. CASE UpsertRows
  BY <1>1, UpsertIds
<1>2. CASE PreSync
  BY <1>2 DEF PreSync, SyncFile, IdInv, Unique, Section
<1>3. CASE UnindexReplaced
  BY <1>3 DEF UnindexReplaced, RemoveIds, IdInv, Unique, Section, Ids
<1>4. CASE AddWithIds \/ AddRaises
  <2>1. /\ pc = "add" /\ pc' \in {"flush", "top"} /\ UNCHANGED <<file, records, oDelete>>
        /\ phase' # "down" /\ \E part \in SUBSET added : mem' = mem \cup part
    BY <1>4 DEF AddWithIds, AddRaises, JoinBatch, ControlInv
  <2>2. QED  BY <2>1, AddIds DEF Section
<1>5. CASE IndexJob
  <2>1. /\ pc = "rebuild" /\ pc' = "finishing" /\ UNCHANGED <<records, oDelete>>
        /\ phase' # "down"
        /\ \/ mem' = records /\ file' = records
           \/ UNCHANGED <<mem, file>>
    BY <1>5 DEF IndexJob, ControlInv
  <2>2. Unique(records) /\ \A e \in records : e.id \in Ids(records)
    BY DEF RowsInv, RowInv, Unique, Ids
  <2>3. QED  BY <2>1, <2>2 DEF IdInv, Unique, Section
<1>6. CASE FlushSync
  BY <1>6, IdFrame DEF FlushSync, SyncFile, Section, IdInv
<1>7. CASE \/ LoopTop \/ ClaimJob \/ ClaimNone \/ NoneClaimed \/ ClaimRaises \/ WakeUp
           \/ ProcessEmpty \/ ProcessFails \/ FlushSyncFails \/ FlushRetry \/ PopJob
           \/ FlushDone \/ FinishJob \/ FinishRaises
  <2>1. pc \notin Section /\ pc' \notin Section /\ UNCHANGED <<stores, oDelete, phase>>
    BY <1>7 DEF LoopTop, ClaimJob, ClaimedPc, ClaimNone, NoneClaimed, ClaimRaises, WakeUp,
       ProcessEmpty, ProcessFails, JoinBatch, FlushSyncFails, FlushRetry, PopJob,
       FlushDone, FinishJob, FinishRaises, Section
  <2>2. QED  BY <2>1, IdFrame DEF IdInv
<1>8. QED
  BY <1>1, <1>2, <1>3, <1>4, <1>5, <1>6, <1>7 DEF Worker

\* A reopened collection evicts what has no record.
LEMMA OtherIds ==
  ASSUME TypeInv, ControlInv, IdInv, Orphan \/ Stop \/ Crash \/ OpenCollection
  PROVE  IdInv'
<1> USE DEF journal, stores, worker, callers, threads
<1>1. CASE OrphanSync
  BY <1>1 DEF OrphanSync, SyncFile, IdInv, Unique, Section
<1>2. CASE OpenCollection
  BY <1>2 DEF OpenCollection, ControlInv, IdInv, Unique, Section
<1>3. CASE CloseConns \/ Crash
  BY <1>3 DEF CloseConns, Crash, Discard, IdInv, Unique, Section
<1>4. CASE StopBegin
  BY <1>4, IdFrame DEF StopBegin, WriteLocked, Section, IdInv
<1>5. CASE StopSync
  BY <1>5, IdFrame DEF StopSync, SyncFile, ControlInv, Section, IdInv
<1>6. CASE \/ \E k \in Keys : OrphanDeleteRows(k)
           \/ \E o \in oFinish : OrphanFinish(o)
           \/ OrphanClaim \/ StopFinish \/ StopFinished
  <2>1. /\ UNCHANGED <<stores, pc, replaced, added, deleting, oDelete>>
        /\ phase' = "down" => phase = "down"
    BY <1>6 DEF OrphanDeleteRows, OrphanFinish, OrphanClaim, StopFinish, StopFinished, IdInv
  <2>2. QED  BY <2>1 DEF IdInv, Unique
<1>7. QED
  BY <1>1, <1>2, <1>3, <1>4, <1>5, <1>6 DEF Orphan, Stop

\* An upsert checks the cap, and nothing is removed before its ids are.
LEMMA CapStep ==
  ASSUME ~CancelDelete, TypeInv, ControlInv, IdInv, CapInv, [Next]_vars  PROVE CapInv'
<1> USE DEF journal, stores, worker, callers, threads
<1>1. SUFFICES ASSUME pc' = "unindex", used'["fault"] = 0
               PROVE  ~OverCap(Cardinality(replaced))'
  BY DEF CapInv
<1>2. ASSUME pc = "unindex", UNCHANGED <<pc, replaced>>, removed' \in {removed, 0},
             used["fault"] = 0
      PROVE  ~OverCap(Cardinality(replaced))'
  BY <1>2 DEF CapInv, OverCap
<1>3. \A e \in Events : Spend(e) =>
        used'[e] # 0 /\ (e # "fault" => used'["fault"] = used["fault"])
  BY DEF Spend, TypeInv, TypeOK, Events
<1>4. CASE UpsertRows
  BY <1>1, <1>4 DEF UpsertRows, OverCap
<1>5. CASE PreSync
  BY <1>1, <1>3, <1>5 DEF PreSync, SyncFile, OverCap, Events
<1>6. CASE Client
  <2>1. pc = "unindex" /\ UNCHANGED <<pc, replaced>> /\ ~DeleteSyncCancelled
    BY <1>1, <1>6 DEF Client, Enqueue, EnqueueReturns, EnqueueCancelled, DeleteDocument,
       DeleteCancelled, DeleteSync, DeleteSyncCancelled
  <2>2. removed' = removed /\ used["fault"] = 0
    BY <1>1, <1>3, <1>6, <2>1 DEF Client, Enqueue, EnqueueReturns, EnqueueCancelled,
       DeleteDocument, DeleteCancelled, DeleteSync, WriteLocked, IdInv, Section, Events
  <2>3. QED  BY <1>2, <2>1, <2>2
<1>7. CASE Worker /\ ~UpsertRows /\ ~PreSync
  BY <1>1, <1>7 DEF Worker, LoopTop, ClaimJob, ClaimedPc, ClaimNone, NoneClaimed,
     ClaimRaises, WakeUp, ProcessEmpty, ProcessFails, UnindexReplaced, AddWithIds,
     AddRaises, JoinBatch, FlushSync, FlushSyncFails, FlushRetry, PopJob, FlushDone,
     FinishJob, FinishRaises, IndexJob
<1>8. CASE Orphan
  BY <1>1, <1>2, <1>8 DEF Orphan, OrphanDeleteRows, OrphanSync, OrphanFinish, OrphanClaim,
     SyncFile, IdInv
<1>9. CASE Stop \/ Crash \/ OpenCollection
  BY <1>1, <1>9 DEF Stop, StopBegin, StopSync, StopFinish, StopFinished, CloseConns, Crash,
     Discard, OpenCollection, ControlInv
<1>10. CASE UNCHANGED vars
  BY <1>1, <1>2, <1>10 DEF vars
<1>11. QED
  BY <1>4, <1>5, <1>6, <1>7, <1>8, <1>9, <1>10 DEF Next, Idle

\* Both hold in every reachable state.
THEOREM IdInvariant ==
  ASSUME ~CancelDelete  PROVE Spec => [](IdInv /\ CapInv)
<1>1. Init => IdInv /\ CapInv
  BY DEF Init, IdInv, CapInv, Unique, Section
<1>2. ASSUME TypeInv, DurabilityInv, IdInv, CapInv, [Next]_vars  PROVE IdInv' /\ CapInv'
  <2>1. ControlInv /\ RowsInv
    BY <1>2 DEF DurabilityInv
  <2>2. CapInv'
    BY <1>2, <2>1, CapStep
  <2>3. ASSUME UNCHANGED vars  PROVE IdInv'
    BY <1>2, <2>3 DEF vars, stores, worker, threads, IdInv, Unique
  <2>4. IdInv'
    BY <1>2, <2>1, <2>3, ClientIds, WorkerIds, OtherIds DEF Next, Idle
  <2>5. QED  BY <2>2, <2>4
<1>3. QED  BY <1>1, <1>2, Durability, PTL DEF Spec

\* MAX(id)+1 gives an id out again, but never while an index still answers for the
\* row that had it; no index answers for a row that is gone.
THEOREM IdsStaySound ==
  ASSUME ~CancelDelete  PROVE Spec => []IdsAreSound
<1>1. ASSUME DurabilityInv, IdInv  PROVE IdsAreSound
  <2>1. DoneRowsUnambiguous
    <3> SUFFICES ASSUME NEW r \in records, jobs[r.job] = "done",
                        NEW e \in mem \cup file, e.id = r.id
                 PROVE  e = r
      BY DEF DoneRowsUnambiguous
    <3>1. RowInv(r)
      BY <1>1 DEF DurabilityInv, RowsInv
    <3>2. r \in file /\ (phase # "down" => r \in mem)
      BY <3>1 DEF RowInv
    <3>3. QED  BY <1>1, <3>2 DEF IdInv, Unique
  <2>2. NoGhosts
    BY <1>1 DEF IdInv, NoGhosts, WriteLocked, Ids
  <2>3. FreshIds
    BY <1>1 DEF IdInv, FreshIds, Section
  <2>4. QED  BY <2>1, <2>2, <2>3 DEF IdsAreSound
<1>2. QED  BY <1>1, Durability, IdInvariant, PTL

\* As long as no sync fails, removals that wait for the next sync are within the cap,
\* or of one job that is over it alone, or of a delete about to sync.
THEOREM RemovalsStayCapped ==
  ASSUME ~CancelDelete  PROVE Spec => RemovalsCapped
<1>1. ASSUME TypeInv, DurabilityInv, IdInv, CapInv, [Next]_vars
      PROVE  [~deleting' /\ used["fault"] = 0 /\ removed' > removed =>
                removed = 0 \/ removed' <= MaxRemovals]_vars
  <2> USE DEF journal, stores, worker, callers, threads
  <2>1. SUFFICES ASSUME ~deleting', used["fault"] = 0, removed' > removed
                 PROVE  removed = 0 \/ removed' <= MaxRemovals
    OBVIOUS
  <2>2. removed \in Nat /\ oDelete = {}
    BY <1>1 DEF TypeInv, TypeOK, IdInv
  <2>3. UnindexReplaced
    BY <1>1, <2>1, <2>2 DEF Next, Idle, vars,
       Client, Enqueue, EnqueueReturns, EnqueueCancelled, DeleteDocument, DeleteCancelled,
       DeleteSync, DeleteSyncCancelled, SyncFile,
       Worker, LoopTop, ClaimJob, ClaimNone, NoneClaimed, ClaimRaises, WakeUp,
       ProcessEmpty, ProcessFails, UpsertRows, PreSync, AddWithIds, AddRaises, FlushSync,
       FlushSyncFails, FlushRetry, PopJob, FlushDone, FinishJob, FinishRaises, IndexJob,
       Orphan, OrphanDeleteRows, OrphanSync, OrphanFinish, OrphanClaim,
       Stop, StopBegin, StopSync, StopFinish, StopFinished, CloseConns, Crash, Discard,
       OpenCollection
  <2>4. ~OverCap(Cardinality(replaced)) /\ removed' = removed + Cardinality(replaced)
    BY <1>1, <2>1, <2>3 DEF UnindexReplaced, CapInv
  <2>5. Cardinality(replaced) \in Nat
    BY <1>1, FS_CardinalityType DEF TypeInv
  <2>6. QED  BY <2>2, <2>4, <2>5, BoundsAssumption DEF OverCap
<1>2. QED  BY <1>1, Durability, IdInvariant, PTL DEF Spec, RemovalsCapped

-----------------------------------------------------------------------------
\* The order of the journal.

\* What has been processed and is to be finished: by the worker, by stop() or by a
\* finish thread whose worker is gone.
Line == Range(fin) \cup Range(batch) \cup oFinish
InLine(i) == \E o \in Line : o.job = i

\* The line is in the order of the journal, each job of it once, and none of it is
\* finished yet.
LineInv ==
  /\ \A o \in Line : jobs[o.job] = "processing"
  /\ \A i, j \in DOMAIN batch : i < j => batch[i].job < batch[j].job
  /\ \A o \in Range(fin) \cup oFinish, p \in Range(batch) : o.job < p.job
  /\ \A o, p \in oFinish : o = p

\* The journal has no gaps, and where the worker looks for no job it has none.
GapInv ==
  /\ \A i, j \in JobIds : i < j /\ jobs[j] # "none" => jobs[i] # "none"
  /\ pc \in {"top", "claim", "none", "wait"} => cur = 0
  /\ phase = "down" => after = 0

\* Nothing is passed over: below a job in the line, or claimed, everything is finished
\* or in the line; so it is below the cursor while there is a worker.
Settled(i) == jobs[i] \in Finished \/ InLine(i)
OrderInv ==
  /\ FinishOrder
  /\ oFinish = {}
  /\ \A o \in Line : \A i \in JobIds : i < o.job => Settled(i)
  /\ cur # 0 => \A i \in JobIds : i < cur => Settled(i)
  /\ pc \notin {"off", "dead"} =>
       \A i \in JobIds : i <= after => Settled(i) \/ i = cur

\* What a job has written is replaced by later jobs only, from its upsert on.
Latest(j) ==
  ask[j].op = "ingest" => \A r \in records : r.key \in ask[j].keys => r.job >= j
LatestInv ==
  /\ \A j \in JobIds : jobs[j] = "done" => Latest(j)
  /\ \A o \in Line : o.status = "done" => Latest(o.job)
  /\ pc \in {"presync", "unindex", "add"} => Latest(cur)

-----------------------------------------------------------------------------
\* The line's two sequences.
Increasing(b) == \A i, j \in DOMAIN b : i < j => b[i].job < b[j].job

\* What the line is made of, and which outcome a finish is about.
LEMMA LineFacts ==
  ASSUME TypeInv, ControlInv
  PROVE  /\ batch \in Seq(Outcomes) /\ fin \in Seq(Outcomes) /\ oFinish \subseteq Outcomes
         /\ Line \subseteq Outcomes
         /\ \A o \in Outcomes : o.job \in JobIds /\ o.status \in Finished
         /\ JobIds \subseteq Nat \ {0} /\ jobs \in [JobIds -> Statuses]
         /\ Range(<<>>) = {}
         /\ pc # "finishing" => fin = <<>> /\ Range(fin) = {}
         /\ pc = "finishing" => /\ fin[1] \in Outcomes /\ Range(fin) = {fin[1]}
                                /\ phase = "running" /\ oFinish = {}
<1>1. /\ batch \in Seq(Outcomes) /\ fin \in Seq(Outcomes) /\ oFinish \subseteq Outcomes
      /\ jobs \in [JobIds -> Statuses]
  BY DEF TypeInv, TypeOK
<1>2. Range(batch) \subseteq Outcomes /\ Range(fin) \subseteq Outcomes
  BY <1>1, RangeOfParts
<1>3. \A o \in Outcomes : o.job \in JobIds /\ o.status \in Finished
  BY DEF Outcomes
<1>4. JobIds \subseteq Nat \ {0}
  BY BoundsAssumption DEF JobIds
<1>5. Range(<<>>) = {}
  BY DEF Range
<1>6. pc # "finishing" => fin = <<>>
  BY DEF ControlInv
<1>7. ASSUME pc = "finishing"
      PROVE  /\ fin[1] \in Outcomes /\ Range(fin) = {fin[1]}
             /\ phase = "running" /\ oFinish = {}
  <2>1. Len(fin) = 1
    <3>1. fin # <<>> /\ Len(fin) <= 1
      BY <1>7 DEF ControlInv
    <3>2. Len(fin) \in Nat \ {0}
      BY <1>1, <3>1, HeadTailProperties, EmptySeq
    <3> DEFINE n == Len(fin)
    <3>3. n \in Nat \ {0} /\ n <= 1
      BY <3>1, <3>2
    <3> HIDE DEF n
    <3>4. n = 1
      BY <3>3
    <3>5. QED  BY <3>4 DEF n
  <2>2. DOMAIN fin = {1}
    BY <1>1, <2>1
  <2>3. QED  BY <1>1, <1>7, <2>1, <2>2 DEF ControlInv, Range
<1>8. QED  BY <1>1, <1>2, <1>3, <1>4, <1>5, <1>6, <1>7 DEF Line

\* The first of the batch leaves it.
LEMMA PoppedFacts ==
  ASSUME NEW b \in Seq(Outcomes), b # <<>>, Increasing(b)
  PROVE  /\ Head(b) \in Outcomes /\ b[1] = Head(b)
         /\ Tail(b) \in Seq(Outcomes) /\ Increasing(Tail(b))
         /\ Range(b) = {Head(b)} \cup Range(Tail(b))
         /\ \A o \in Range(Tail(b)) : Head(b).job < o.job
<1>1. /\ Head(b) \in Outcomes /\ b[1] = Head(b) /\ Tail(b) \in Seq(Outcomes)
      /\ Len(b) \in Nat \ {0} /\ DOMAIN b = 1..Len(b)
      /\ DOMAIN Tail(b) = 1..(Len(b) - 1)
      /\ \A i \in 1..(Len(b) - 1) : Tail(b)[i] = b[i + 1]
  BY HeadTailProperties, EmptySeq
<1> DEFINE t == Tail(b)
<1>2. Increasing(t)
  BY <1>1 DEF Increasing
<1>3. Range(b) = {Head(b)} \cup Range(t)
  <2>1. \A i \in DOMAIN b : i = 1 \/ (i - 1 \in DOMAIN t /\ t[i - 1] = b[i])
    BY <1>1
  <2>2. \A i \in DOMAIN t : i + 1 \in DOMAIN b /\ t[i] = b[i + 1]
    BY <1>1
  <2>3. 1 \in DOMAIN b
    BY <1>1
  <2> HIDE DEF t
  <2>4. QED  BY <1>1, <2>1, <2>2, <2>3 DEF Range
<1>4. \A o \in Range(t) : Head(b).job < o.job
  BY <1>1 DEF Range, Increasing
<1>5. QED  BY <1>1, <1>2, <1>3, <1>4

\* A job joins it that is later than all of it.
LEMMA JoinedFacts ==
  ASSUME NEW b \in Seq(Outcomes), NEW o \in Outcomes, Increasing(b),
         \A p \in Range(b) : p.job < o.job
  PROVE  /\ Append(b, o) \in Seq(Outcomes) /\ Increasing(Append(b, o))
         /\ Range(Append(b, o)) = Range(b) \cup {o}
<1> DEFINE t == Append(b, o)
<1>1. /\ t \in Seq(Outcomes) /\ Len(t) = Len(b) + 1 /\ Len(b) \in Nat
      /\ \A i \in 1..Len(b) : t[i] = b[i]
      /\ t[Len(b) + 1] = o
      /\ DOMAIN t = 1..Len(t) /\ DOMAIN b = 1..Len(b)
  BY AppendProperties
<1>2. Range(t) = Range(b) \cup {o}
  BY RangeOfParts
<1>3. Increasing(t)
  <2> SUFFICES ASSUME NEW i \in DOMAIN t, NEW j \in DOMAIN t, i < j
               PROVE  t[i].job < t[j].job
    BY DEF Increasing
  <2>1. i \in DOMAIN b /\ t[i] = b[i]
    BY <1>1
  <2>2. CASE j \in DOMAIN b
    BY <1>1, <2>1, <2>2 DEF Increasing
  <2>3. CASE j = Len(b) + 1
    BY <1>1, <2>1, <2>3 DEF Range
  <2>4. QED  BY <1>1, <2>2, <2>3
<1>4. QED  BY <1>1, <1>2, <1>3

-----------------------------------------------------------------------------
\* What a step does to the journal, the line and the worker's cursor, by kind.

\* The worker's cursor and its claimed job stay; a worker that starts has seen nothing.
Steady ==
  /\ cur' = cur /\ after' = after
  /\ pc' \notin {"off", "dead"} => pc \notin {"off", "dead"} \/ after = 0
\* No job is finished and none reopened.
Keeps ==
  /\ \A j \in JobIds : \/ jobs'[j] = jobs[j]
                       \/ jobs[j] \in Open /\ jobs'[j] = "processing"
  /\ Line' = Line /\ Steady
\* The lowest open job above the cursor is claimed.
Claims(j) ==
  /\ IsClaimed(j) /\ pc = "claim" /\ cur = 0
  /\ jobs' = [jobs EXCEPT ![j] = "processing"] /\ Line' = Line
  /\ cur' = j /\ after' = j
\* A job is journaled, at the end.
Journals(j) ==
  /\ IsNextJob(j) /\ jobs' = [jobs EXCEPT ![j] = "pending"]
  /\ Line' = Line /\ Steady
\* The claimed job joins the line.
Joins(o) ==
  /\ o \in Outcomes /\ o.job = cur /\ cur # 0 /\ phase = "running"
  /\ Line' = Line \cup {o} /\ UNCHANGED jobs
  /\ cur' = 0 /\ after' = after /\ pc \notin {"off", "dead"}
  /\ o.status = "done" => ask[cur].keys = {} \/ pc = "add" \/ ask[cur].op = "index"
\* A job of the line, the first if no finish was cut off, is finished and leaves it.
Finishes(o) ==
  /\ oFinish = {} => \A p \in Line : p # o => o.job < p.job
  /\ jobs' = [jobs EXCEPT ![o.job] = o.status]
  /\ Line' = Line \ {o} /\ Steady
\* The worker is gone, or the whole line with it.
Drops == UNCHANGED jobs /\ Line' \in {{}, Line} /\ cur' = 0 /\ pc' = "off"
\* A finish is cut off.
Cuts == InterruptFinish /\ UNCHANGED jobs

Kind ==
  \/ Keeps
  \/ \E j \in JobIds : Claims(j) \/ Journals(j)
  \/ \E o \in Outcomes : Joins(o)
  \/ \E o \in Line : Finishes(o)
  \/ Drops
  \/ Cuts

Holds == TypeInv /\ ControlInv /\ LineInv /\ GapInv
Steps == LineInv' /\ GapInv' /\ Kind /\ (InterruptFinish \/ oFinish' \subseteq oFinish)
quiet == <<jobs, batch, fin, oFinish>>

\* A step that leaves jobs and line alone.
LEMMA QuietSteps ==
  ASSUME Holds, UNCHANGED quiet, GapInv', Steady  PROVE Steps
BY DEF Holds, Steps, Kind, Keeps, LineInv, Line, quiet

\* Clients journal jobs, and otherwise leave them alone.
LEMMA ClientSteps ==
  ASSUME Holds, Client  PROVE Steps
<1> USE DEF Holds, journal, stores, worker, callers, threads
<1>1. ASSUME NEW a \in Asks, Enqueue(a)  PROVE Steps
  <2>1. PICK j \in JobIds : IsNextJob(j) /\ jobs' = [jobs EXCEPT ![j] = "pending"]
    BY <1>1 DEF Enqueue
  <2>2. /\ UNCHANGED <<batch, fin, oFinish, pc, cur, after, phase>> /\ Line' = Line
    BY <1>1 DEF Enqueue, Line
  <2>3. jobs \in [JobIds -> Statuses] /\ Line \subseteq Outcomes /\ JobIds \subseteq Nat
    BY LineFacts
  <2>4. LineInv'
    BY <2>1, <2>2, <2>3 DEF LineInv, IsNextJob
  <2>5. GapInv'
    BY <2>1, <2>2, <2>3, LineFacts DEF GapInv, IsNextJob
  <2>6. Journals(j)
    BY <2>1, <2>2 DEF Journals, Steady
  <2>7. QED  BY <2>2, <2>4, <2>5, <2>6 DEF Steps, Kind
<1>2. ASSUME UNCHANGED <<jobs, worker, oFinish, phase>>  PROVE Steps
  <2>1. GapInv' /\ Steady /\ UNCHANGED quiet
    BY <1>2 DEF GapInv, Steady, quiet
  <2>2. QED  BY <2>1, QuietSteps
<1>3. QED
  BY <1>1, <1>2 DEF Client, EnqueueReturns, EnqueueCancelled, DeleteDocument,
     DeleteCancelled, DeleteSync, DeleteSyncCancelled

\* The steps of the worker that neither claim, batch nor finish.
LEMMA QuietWorkerSteps ==
  ASSUME Holds,
         \/ LoopTop \/ ClaimNone \/ NoneClaimed \/ ClaimRaises \/ WakeUp \/ UpsertRows
         \/ PreSync \/ UnindexReplaced \/ FlushSync \/ FlushSyncFails \/ FlushRetry
         \/ FlushDone
  PROVE  Steps
<1>1. UNCHANGED quiet
  BY DEF quiet, journal, stores, worker, callers, threads, LoopTop, ClaimNone,
     NoneClaimed, ClaimRaises, WakeUp, UpsertRows, PreSync, UnindexReplaced, FlushSync,
     FlushSyncFails, FlushRetry, FlushDone
<1>2. Steady /\ UNCHANGED <<cur, after, phase, jobs>> /\ phase = "running"
  BY DEF Holds, ControlInv, Steady, journal, stores, worker, callers, threads, LoopTop,
     ClaimNone, NoneClaimed, ClaimRaises, WakeUp, UpsertRows, PreSync, UnindexReplaced,
     FlushSync, FlushSyncFails, FlushRetry, FlushDone
<1>3. pc' \in {"top", "claim", "none", "wait"} => cur = 0
  BY DEF Holds, GapInv, LoopTop, ClaimNone, NoneClaimed, ClaimRaises, WakeUp, UpsertRows,
     PreSync, UnindexReplaced, FlushSync, FlushSyncFails, FlushRetry, FlushDone
<1>4. GapInv'
  BY <1>2, <1>3 DEF GapInv, Holds
<1>5. QED  BY <1>1, <1>2, <1>4, QuietSteps

\* The claim.
LEMMA ClaimSteps ==
  ASSUME Holds, ClaimJob  PROVE Steps
<1> USE DEF Holds
<1>1. PICK j \in JobIds : /\ IsClaimed(j) /\ jobs' = [jobs EXCEPT ![j] = "processing"]
                          /\ after' = j /\ cur' = j /\ pc' = ClaimedPc(j)
  BY DEF ClaimJob
<1>2. UNCHANGED <<batch, fin, oFinish, phase>> /\ Line' = Line
  BY DEF ClaimJob, threads, Line
<1>3. /\ jobs \in [JobIds -> Statuses] /\ Line \subseteq Outcomes /\ JobIds \subseteq Nat
      /\ jobs[j] \in Open /\ pc = "claim" /\ cur = 0 /\ phase = "running"
  BY <1>1, LineFacts DEF IsClaimed, Claimable, ClaimJob, GapInv, ControlInv
<1>4. LineInv'
  BY <1>1, <1>2, <1>3 DEF LineInv
<1>5. GapInv'
  BY <1>1, <1>2, <1>3 DEF GapInv, ClaimedPc, Open
<1>6. Claims(j)
  BY <1>1, <1>2, <1>3 DEF Claims
<1>7. QED  BY <1>2, <1>4, <1>5, <1>6 DEF Steps, Kind

\* A processed job joins the batch.
LEMMA JoinSteps ==
  ASSUME Holds, NEW status \in Finished, JoinBatch(status), pc \in {"prep", "add"},
         UNCHANGED <<jobs, fin, oFinish, after, phase>>,
         status = "done" => ask[cur].keys = {} \/ pc = "add"
  PROVE  Steps
<1> USE DEF Holds
<1> DEFINE o == [job |-> cur, status |-> status]
<1>1. /\ cur # 0 /\ phase = "running" /\ oFinish = {} /\ jobs[cur] = "processing"
      /\ cur \in JobIds /\ fin = <<>>
  BY DEF ControlInv, TypeInv, TypeOK, JobIds
<1>2. o \in Outcomes /\ o.job = cur
  BY <1>1 DEF Outcomes
<1>3. \A p \in Range(batch) : p.job < o.job
  BY <1>1 DEF ControlInv
<1>4. batch' = Append(batch, o) /\ cur' = 0 /\ pc' \in {"flush", "top"}
  BY DEF JoinBatch
<1>5. Increasing(batch') /\ Range(batch') = Range(batch) \cup {o}
  BY <1>2, <1>3, <1>4, LineFacts, JoinedFacts DEF LineInv, Increasing
<1>6. Line' = Line \cup {o} /\ Range(fin) = {}
  BY <1>1, <1>5, LineFacts DEF Line
<1>7. LineInv'
  BY <1>1, <1>2, <1>5, <1>6 DEF LineInv, Increasing
<1>8. GapInv'
  BY <1>1, <1>4 DEF GapInv
<1>9. Joins(o)
  BY <1>1, <1>2, <1>4, <1>6 DEF Joins
<1>10. QED  BY <1>2, <1>7, <1>8, <1>9 DEF Steps, Kind

\* However a job ends that has rows, or should have.
LEMMA ProcessSteps ==
  ASSUME Holds, ProcessEmpty \/ ProcessFails \/ AddWithIds \/ AddRaises  PROVE Steps
<1>1. \E status \in Finished :
        /\ JoinBatch(status)
        /\ status = "done" => ask[cur].keys = {} \/ pc = "add"
  BY DEF ProcessEmpty, ProcessFails, AddWithIds, AddRaises, Finished
<1>2. pc \in {"prep", "add"} /\ UNCHANGED <<jobs, fin, oFinish, after, phase>>
  BY DEF ProcessEmpty, ProcessFails, AddWithIds, AddRaises, journal, threads
<1>3. QED  BY <1>1, <1>2, JoinSteps

\* An index job goes straight to its finish; the batch is empty.
LEMMA IndexSteps ==
  ASSUME Holds, IndexJob  PROVE Steps
<1> USE DEF Holds
<1>1. PICK status \in Finished : fin' = <<[job |-> cur, status |-> status]>>
  BY DEF IndexJob, Finished
<1> DEFINE o == [job |-> cur, status |-> status]
<1>2. /\ cur # 0 /\ phase = "running" /\ oFinish = {} /\ jobs[cur] = "processing"
      /\ cur \in JobIds /\ fin = <<>> /\ batch = <<>> /\ ask[cur].op = "index"
      /\ pc = "rebuild"
  BY DEF ControlInv, TypeInv, TypeOK, JobIds, IndexJob
<1>3. o \in Outcomes /\ o.job = cur
  BY <1>2 DEF Outcomes
<1>4. /\ cur' = 0 /\ pc' = "finishing"
      /\ UNCHANGED <<jobs, batch, oFinish, after, phase>>
  BY DEF IndexJob, journal, threads
<1>5. Range(fin') = {o}
  BY <1>1 DEF Range
<1>6. Line = {} /\ Line' = {o} /\ Range(batch) = {}
  BY <1>2, <1>4, <1>5, LineFacts DEF Line
<1>7. LineInv'
  BY <1>2, <1>3, <1>4, <1>5, <1>6 DEF LineInv
<1>8. GapInv'
  BY <1>2, <1>4 DEF GapInv
<1>9. Joins(o)
  BY <1>2, <1>3, <1>4, <1>6 DEF Joins
<1>10. QED  BY <1>2, <1>3, <1>4, <1>7, <1>8, <1>9 DEF Steps, Kind

\* The batch gives its first to a finish thread, and then is done.
LEMMA PopSteps ==
  ASSUME Holds, PopJob  PROVE Steps
<1> USE DEF Holds
<1>1. /\ batch # <<>> /\ pc = "finish" /\ fin' = <<Head(batch)>> /\ batch' = Tail(batch)
      /\ pc' = "finishing" /\ UNCHANGED <<jobs, after, cur, oFinish, phase>>
  BY DEF PopJob, journal, threads
<1>2. /\ Range(batch) = {Head(batch)} \cup Range(batch') /\ Increasing(batch')
      /\ \A o \in Range(batch') : Head(batch).job < o.job
  BY <1>1, LineFacts, PoppedFacts DEF LineInv, Increasing
<1>3. Range(fin') = {Head(batch)} /\ Range(fin) = {}
  BY <1>1, LineFacts DEF Range
<1>4. Line' = Line
  BY <1>1, <1>2, <1>3 DEF Line
<1>5. oFinish = {}
  BY <1>1 DEF ControlInv
<1>6. LineInv'
  BY <1>1, <1>2, <1>3, <1>4, <1>5 DEF LineInv, Increasing
<1>7. GapInv' /\ Keeps
  BY <1>1, <1>4 DEF GapInv, Keeps, Steady
<1>8. QED  BY <1>1, <1>6, <1>7 DEF Steps, Kind

\* A finish of the worker is of the first in line.
LEMMA FinishSteps ==
  ASSUME Holds, FinishJob \/ FinishRaises  PROVE Steps
<1> USE DEF Holds
<1> DEFINE o == fin[1]
<1>1. /\ pc = "finishing" /\ fin' = <<>>
      /\ UNCHANGED <<after, cur, batch, oFinish, phase>>
  BY DEF FinishJob, FinishRaises, threads
<1>2. /\ o \in Outcomes /\ Range(fin) = {o} /\ Range(fin') = {} /\ oFinish = {}
      /\ phase = "running"
  BY <1>1, LineFacts
<1>3. /\ Line = {o} \cup Range(batch) /\ Line' = Range(batch)
      /\ \A p \in Range(batch) : o.job < p.job
  BY <1>1, <1>2 DEF Line, LineInv
<1>4. o \notin Range(batch) /\ o \in Line
  BY <1>2, <1>3, LineFacts
<1>5. CASE FinishJob
  <2>1. jobs' = [jobs EXCEPT ![o.job] = o.status] /\ pc' = "finish"
    BY <1>5 DEF FinishJob, SetStatus
  <2>2. LineInv'
    BY <1>1, <1>2, <1>3, <2>1, LineFacts DEF LineInv
  <2>3. GapInv'
    BY <1>1, <1>2, <1>3, <2>1, LineFacts DEF GapInv, LineInv, Finished
  <2>4. Finishes(o)
    BY <1>1, <1>3, <1>4, <2>1 DEF Finishes, Steady
  <2>5. QED  BY <1>1, <1>4, <2>2, <2>3, <2>4 DEF Steps, Kind
<1>6. CASE FinishRaises
  <2>1. UNCHANGED jobs /\ pc' = "dead" /\ InterruptFinish
    BY <1>6 DEF FinishRaises, journal
  <2>2. LineInv'
    BY <1>1, <1>2, <1>3, <2>1 DEF LineInv
  <2>3. GapInv'
    BY <1>1, <1>2, <2>1 DEF GapInv
  <2>4. QED  BY <2>1, <2>2, <2>3 DEF Steps, Kind, Cuts
<1>7. QED  BY <1>5, <1>6

\* All of the worker.
LEMMA WorkerSteps ==
  ASSUME Holds, Worker  PROVE Steps
BY QuietWorkerSteps, ClaimSteps, ProcessSteps, IndexSteps, PopSteps, FinishSteps
   DEF Worker

-----------------------------------------------------------------------------
\* stop() takes the worker away.
LEMMA StopBeginSteps ==
  ASSUME Holds, StopBegin  PROVE Steps
<1> USE DEF Holds
<1>1. /\ phase = "running" /\ phase' = "stopsync" /\ pc' = "off" /\ cur' = 0
      /\ fin' = <<>> /\ oFinish' = oFinish \cup {fin[i] : i \in DOMAIN fin}
      /\ UNCHANGED <<jobs, after, batch>> /\ (pc = "finishing" => InterruptFinish)
  BY DEF StopBegin, journal, WriteLocked
<1>2. oFinish = {} /\ oFinish' = Range(fin) /\ Range(fin') = {}
  BY <1>1, LineFacts DEF ControlInv, Range
<1>3. Line' = Line
  BY <1>1, <1>2 DEF Line
<1>4. \A o, p \in Range(fin) : o = p
  BY LineFacts
<1>5. LineInv'
  BY <1>1, <1>2, <1>3, <1>4 DEF LineInv
<1>6. GapInv'
  BY <1>1 DEF GapInv
<1>7. Drops
  BY <1>1, <1>3 DEF Drops
<1>8. InterruptFinish \/ oFinish' \subseteq oFinish
  BY <1>1, <1>2, LineFacts
<1>9. QED  BY <1>5, <1>6, <1>7, <1>8 DEF Steps, Kind

\* stop() finishes the first of the batch.
LEMMA StopFinishSteps ==
  ASSUME Holds, StopFinish  PROVE Steps
<1> USE DEF Holds
<1> DEFINE o == batch[1]
<1>1. /\ phase = "stopfinish" /\ batch # <<>> /\ batch' = Tail(batch)
      /\ jobs' = [jobs EXCEPT ![o.job] = o.status]
      /\ UNCHANGED <<pc, after, cur, fin, oFinish, phase>>
  BY DEF StopFinish, SetStatus, threads
<1>2. /\ o \in Outcomes /\ Range(batch) = {o} \cup Range(batch') /\ Increasing(batch')
      /\ \A p \in Range(batch') : o.job < p.job
  BY <1>1, LineFacts, PoppedFacts DEF LineInv, Increasing
<1>3. pc = "off" /\ Range(fin) = {} /\ Range(fin') = {}
  BY <1>1, LineFacts DEF ControlInv
<1>4. \A p \in oFinish : p.job < o.job /\ \A q \in Range(batch') : p.job < q.job
  BY <1>2 DEF LineInv
<1>5. /\ Line = {o} \cup Range(batch') \cup oFinish
      /\ Line' = Range(batch') \cup oFinish
  BY <1>1, <1>2, <1>3 DEF Line
<1>6. o \notin Range(batch') /\ o \notin oFinish
  BY <1>2, <1>4, LineFacts
<1>7. LineInv'
  <2>1. \A p \in Line' : jobs'[p.job] = "processing"
    BY <1>1, <1>2, <1>4, <1>5, LineFacts DEF LineInv
  <2>2. QED  BY <1>1, <1>2, <1>3, <1>4, <2>1 DEF LineInv, Increasing
<1>8. GapInv'
  BY <1>1, <1>2, <1>3, <1>5, LineFacts DEF GapInv, LineInv, Finished
<1>9. Finishes(o) /\ o \in Line
  BY <1>1, <1>2, <1>5, <1>6 DEF Finishes, Steady
<1>10. QED  BY <1>1, <1>7, <1>8, <1>9 DEF Steps, Kind

\* A finish thread that was left behind is the only one, and ahead of the batch.
LEMMA OrphanFinishSteps ==
  ASSUME Holds, NEW o \in oFinish, OrphanFinish(o)  PROVE Steps
<1> USE DEF Holds
<1>1. /\ jobs' = [jobs EXCEPT ![o.job] = o.status] /\ oFinish' = oFinish \ {o}
      /\ UNCHANGED <<pc, after, cur, batch, fin, phase>>
  BY DEF OrphanFinish, SetStatus, worker
<1>2. phase # "running" /\ pc = "off" /\ Range(fin) = {} /\ o \in Outcomes
  BY LineFacts DEF ControlInv
<1>3. oFinish = {o} /\ oFinish' = {} /\ \A p \in Range(batch) : o.job < p.job
  BY <1>1 DEF LineInv
<1>4. Line = {o} \cup Range(batch) /\ Line' = Range(batch) /\ o \notin Range(batch)
  BY <1>1, <1>2, <1>3, LineFacts DEF Line
<1>5. LineInv'
  BY <1>1, <1>2, <1>3, <1>4, LineFacts DEF LineInv
<1>6. GapInv'
  BY <1>1, <1>2, <1>4, LineFacts DEF GapInv, LineInv, Finished
<1>7. Finishes(o) /\ o \in Line
  BY <1>1, <1>3, <1>4 DEF Finishes, Steady
<1>8. QED  BY <1>3, <1>5, <1>6, <1>7 DEF Steps, Kind

\* The line is lost with the Collection object.
LEMMA DiscardSteps ==
  ASSUME Holds, CloseConns \/ Crash  PROVE Steps
<1> USE DEF Holds
<1>1. /\ phase' = "down" /\ pc' = "off" /\ after' = 0 /\ cur' = 0
      /\ batch' = <<>> /\ fin' = <<>> /\ oFinish' = {} /\ UNCHANGED jobs
  BY DEF CloseConns, Crash, Discard, journal
<1>2. Line' = {} /\ Range(batch') = {} /\ Range(fin') = {} /\ DOMAIN batch' = {}
  BY <1>1, LineFacts DEF Line
<1>3. LineInv'
  BY <1>1, <1>2 DEF LineInv
<1>4. GapInv'
  BY <1>1 DEF GapInv
<1>5. QED  BY <1>1, <1>2, <1>3, <1>4 DEF Steps, Kind, Drops

\* A claim that outlives its worker puts nothing in line.
LEMMA OrphanClaimSteps ==
  ASSUME Holds, OrphanClaim  PROVE Steps
<1> USE DEF Holds
<1>1. /\ \A j \in JobIds : jobs'[j] = IF IsClaimed(j) THEN "processing" ELSE jobs[j]
      /\ UNCHANGED <<worker, oFinish, phase>> /\ pc = "off"
  BY DEF OrphanClaim, ControlInv
<1>2. \A j \in JobIds : \/ jobs'[j] = jobs[j]
                        \/ jobs[j] \in Open /\ jobs'[j] = "processing"
  BY <1>1 DEF IsClaimed, Claimable
<1>3. Line' = Line
  BY <1>1 DEF Line, worker
<1>4. LineInv'
  BY <1>1, <1>2, <1>3, LineFacts DEF LineInv, worker
<1>5. GapInv' /\ Keeps
  BY <1>1, <1>2, <1>3 DEF GapInv, Keeps, Steady, Open, worker
<1>6. QED  BY <1>1, <1>4, <1>5 DEF Steps, Kind

\* The rest leaves jobs and line alone.
LEMMA QuietOtherSteps ==
  ASSUME Holds,
         \/ \E k \in Keys : OrphanDeleteRows(k)
         \/ OrphanSync \/ StopSync \/ StopFinished \/ OpenCollection \/ UNCHANGED vars
  PROVE  Steps
<1> USE DEF Holds, journal, stores, worker, callers, threads
<1>1. UNCHANGED quiet /\ UNCHANGED <<cur, after>>
  BY DEF quiet, vars, OrphanDeleteRows, OrphanSync, StopSync, StopFinished,
     OpenCollection
<1>2. \/ UNCHANGED <<pc, phase>>
      \/ UNCHANGED pc /\ phase' # "down"
      \/ phase = "down" /\ phase' = "running" /\ pc = "off" /\ cur = 0 /\ after = 0
  BY DEF vars, OrphanDeleteRows, OrphanSync, StopSync, StopFinished, OpenCollection,
     ControlInv, GapInv
<1>3. GapInv' /\ Steady
  BY <1>1, <1>2 DEF GapInv, Steady, quiet
<1>4. QED  BY <1>1, <1>3, QuietSteps

\* Every step is of one of the kinds, and keeps the line in order.
LEMMA NextSteps ==
  ASSUME Holds, [Next]_vars  PROVE Steps
<1>1. CASE Client
  BY <1>1, ClientSteps
<1>2. CASE Worker
  BY <1>2, WorkerSteps
<1>3. CASE Orphan \/ Stop \/ Crash \/ OpenCollection
  BY <1>3, StopBeginSteps, StopFinishSteps, OrphanFinishSteps, DiscardSteps,
     OrphanClaimSteps, QuietOtherSteps DEF Orphan, Stop
<1>4. CASE UNCHANGED vars
  BY <1>4, QuietOtherSteps
<1>5. QED  BY <1>1, <1>2, <1>3, <1>4 DEF Next, Idle

-----------------------------------------------------------------------------
\* What is finished stays as it is, whatever the kind of step.
Final == \A j \in JobIds : jobs[j] \in Finished => jobs'[j] = jobs[j]
LEMMA StepsAreFinal ==
  ASSUME Holds, Kind  PROVE Final
<1> SUFFICES ASSUME NEW j \in JobIds, jobs[j] \in Finished  PROVE jobs'[j] = jobs[j]
  BY DEF Final
<1>1. /\ jobs \in [JobIds -> Statuses] /\ Line \subseteq Outcomes
      /\ \A o \in Line : o.job # j
  BY LineFacts DEF Holds, LineInv, Finished
<1>2. QED
  BY <1>1 DEF Kind, Keeps, Claims, Journals, Joins, Finishes, Drops, Cuts, Open, Finished,
     IsClaimed, Claimable, IsNextJob

\* While no finish is cut off, jobs are finished in their order: each kind of step
\* leaves nothing behind.
LEMMA OrderStep ==
  ASSUME Holds, OrderInv, ~InterruptFinish, Steps  PROVE OrderInv'
<1> USE DEF Holds
<1>1. /\ jobs \in [JobIds -> Statuses] /\ Line \subseteq Outcomes /\ JobIds \subseteq Nat
      /\ \A o \in Outcomes : o.job \in JobIds /\ o.status \in Finished
      /\ oFinish' = {}
  BY LineFacts DEF Steps, OrderInv
<1>2. CASE Keeps
  <2>1. \A i \in JobIds : Settled(i) => Settled(i)'
    BY <1>2 DEF Keeps, Settled, InLine, Open, Finished
  <2>2. FinishOrder'
    BY <1>2 DEF Keeps, OrderInv, FinishOrder, Open, Finished
  <2>3. pc' \notin {"off", "dead"} =>
          \A i \in JobIds : i <= after' => Settled(i)' \/ i = cur'
    BY <1>2, <2>1, BoundsAssumption DEF Keeps, Steady, OrderInv, JobIds
  <2>4. QED  BY <1>1, <1>2, <2>1, <2>2, <2>3 DEF OrderInv, Keeps, Steady
<1>3. ASSUME NEW j \in JobIds, Claims(j)  PROVE OrderInv'
  <2>1. \A i \in JobIds : Settled(i) => Settled(i)'
    BY <1>1, <1>3 DEF Claims, IsClaimed, Claimable, Settled, InLine, Open, Finished
  <2>2. FinishOrder'
    BY <1>1, <1>3 DEF Claims, IsClaimed, Claimable, OrderInv, FinishOrder, Open, Finished
  <2>3. ASSUME NEW i \in JobIds, i < j  PROVE Settled(i)
    <3>1. CASE i <= after
      BY <1>1, <1>3, <3>1, BoundsAssumption DEF Claims, OrderInv, JobIds
    <3>2. CASE i > after
      <4>1. jobs[i] \notin Open
        BY <1>1, <1>3, <2>3, <3>2 DEF Claims, IsClaimed, Claimable
      <4>2. jobs[i] # "none"
        BY <1>1, <1>3, <2>3 DEF Claims, IsClaimed, Claimable, GapInv, Open
      <4>3. QED  BY <1>1, <4>1, <4>2 DEF Settled, Statuses, Open, Finished
    <3>3. after \in Int
      BY BoundsAssumption DEF TypeInv, TypeOK
    <3>4. QED  BY <1>1, <3>1, <3>2, <3>3
  <2>4. QED  BY <1>1, <1>3, <2>1, <2>2, <2>3 DEF OrderInv, Claims
<1>4. ASSUME NEW j \in JobIds, Journals(j)  PROVE OrderInv'
  <2>1. \A i \in JobIds : Settled(i) => Settled(i)'
    BY <1>1, <1>4 DEF Journals, IsNextJob, Settled, InLine, LineInv, Finished
  <2>2. FinishOrder'
    BY <1>1, <1>4 DEF Journals, IsNextJob, OrderInv, FinishOrder, Finished
  <2>3. pc' \notin {"off", "dead"} =>
          \A i \in JobIds : i <= after' => Settled(i)' \/ i = cur'
    BY <1>4, <2>1, BoundsAssumption DEF Journals, Steady, OrderInv, JobIds
  <2>4. QED  BY <1>1, <1>4, <2>1, <2>2, <2>3 DEF OrderInv, Journals, Steady
<1>5. ASSUME NEW o \in Outcomes, Joins(o)  PROVE OrderInv'
  <2>1. \A i \in JobIds : (Settled(i) => Settled(i)') /\ (i = cur => Settled(i)')
    BY <1>1, <1>5 DEF Joins, Settled, InLine
  <2>2. QED  BY <1>1, <1>5, <2>1 DEF OrderInv, FinishOrder, Joins
<1>6. ASSUME NEW o \in Line, Finishes(o)  PROVE OrderInv'
  <2>1. \A i \in JobIds : Settled(i) => Settled(i)'
    BY <1>1, <1>6 DEF Finishes, Settled, InLine
  <2>2. \A i \in JobIds : i < o.job => jobs[i] \in Finished
    <3>1. \A p \in Line : p # o => o.job < p.job
      BY <1>6 DEF Finishes, OrderInv
    <3>2. ASSUME NEW p \in Line  PROVE ~(p.job < o.job)
      <4>1. p.job \in Nat /\ o.job \in Nat
        BY <1>1, <1>6
      <4>2. CASE p = o
        BY <4>1, <4>2
      <4>3. CASE p # o
        BY <3>1, <4>1, <4>3
      <4>4. QED  BY <4>2, <4>3
    <3>3. \A i \in JobIds : i < o.job => Settled(i)
      BY DEF OrderInv
    <3>4. QED  BY <3>2, <3>3 DEF Settled, InLine
  <2>3. FinishOrder'
    BY <1>1, <1>6, <2>2 DEF Finishes, OrderInv, FinishOrder
  <2>4. pc' \notin {"off", "dead"} =>
          \A i \in JobIds : i <= after' => Settled(i)' \/ i = cur'
    BY <1>6, <2>1, BoundsAssumption DEF Finishes, Steady, OrderInv, JobIds
  <2>5. QED  BY <1>1, <1>6, <2>1, <2>3, <2>4 DEF OrderInv, Finishes, Steady
<1>7. CASE Drops
  BY <1>1, <1>7 DEF Drops, OrderInv, FinishOrder, Settled, InLine
<1>8. QED
  BY <1>2, <1>3, <1>4, <1>5, <1>6, <1>7 DEF Steps, Kind, Cuts

\* What the steps do to rows: the upsert replaces, all others only remove.
LEMMA RowSteps ==
  ASSUME Holds, [Next]_vars
  PROVE  /\ \A j \in JobIds : jobs[j] # "none" => ask'[j] = ask[j]
         /\ \/ UpsertRows
            \/ /\ records' \subseteq records
               /\ pc' \in {"presync", "unindex", "add"} =>
                    pc \in {"presync", "unindex", "add"} /\ cur' = cur
<1> USE DEF Holds, TypeInv, TypeOK, journal, stores, worker, callers, threads
<1>1. CASE Client
  <2>1. ASSUME NEW a \in Asks, Enqueue(a)
        PROVE  \A j \in JobIds : jobs[j] # "none" => ask'[j] = ask[j]
    BY <2>1 DEF Enqueue, IsNextJob
  <2>2. records' \subseteq records /\ UNCHANGED <<pc, cur>>
    BY <1>1 DEF Client, Enqueue, EnqueueReturns, EnqueueCancelled, DeleteDocument,
       DeleteRows, DeleteCancelled, DeleteSync, DeleteSyncCancelled
  <2>3. QED
    BY <1>1, <2>1, <2>2 DEF Client, EnqueueReturns, EnqueueCancelled, DeleteDocument,
       DeleteCancelled, DeleteSync, DeleteSyncCancelled
<1>2. CASE Worker
  <2>1. ask' = ask /\ (records' = records \/ UpsertRows)
    BY <1>2 DEF Worker, LoopTop, ClaimJob, ClaimNone, NoneClaimed, ClaimRaises, WakeUp,
       ProcessEmpty, ProcessFails, UpsertRows, PreSync, UnindexReplaced, AddWithIds,
       AddRaises, FlushSync, FlushSyncFails, FlushRetry, PopJob, FlushDone, FinishJob,
       FinishRaises, IndexJob
  <2>2. \/ UpsertRows
        \/ pc' \notin {"presync", "unindex", "add"}
        \/ pc \in {"presync", "unindex", "add"} /\ cur' = cur
    BY <1>2 DEF Worker, LoopTop, ClaimJob, ClaimedPc, ClaimNone, NoneClaimed, ClaimRaises,
       WakeUp, ProcessEmpty, ProcessFails, PreSync, UnindexReplaced, AddWithIds,
       AddRaises, JoinBatch, FlushSync, FlushSyncFails, FlushRetry, PopJob, FlushDone,
       FinishJob, FinishRaises, IndexJob
  <2>3. QED  BY <2>1, <2>2
<1>3. CASE Orphan \/ Stop \/ Crash \/ OpenCollection
  BY <1>3 DEF Orphan, OrphanDeleteRows, DeleteRows, OrphanSync, OrphanFinish, OrphanClaim,
     Stop, StopBegin, StopSync, StopFinish, StopFinished, CloseConns, Crash, Discard,
     OpenCollection
<1>4. CASE UNCHANGED vars
  BY <1>4 DEF vars
<1>5. QED  BY <1>1, <1>2, <1>3, <1>4 DEF Next, Idle

\* An upsert's rows are the latest of their documents, since the jobs that are done
\* or in the line are earlier ones.
LEMMA UpsertLatest ==
  ASSUME Holds, OrderInv, LatestInv, UpsertRows  PROVE LatestInv'
<1> USE DEF Holds
<1>1. /\ cur # 0 /\ phase = "running" /\ jobs[cur] = "processing" /\ cur \in JobIds
      /\ JobIds \subseteq Nat /\ Line \subseteq Outcomes
      /\ \A o \in Outcomes : o.job \in JobIds
  BY LineFacts DEF UpsertRows, ControlInv, TypeInv, TypeOK, JobIds
<1>2. /\ records' = {r \in records : r.key \notin ask[cur].keys} \cup added'
      /\ \A r \in added' : r.job = cur
      /\ UNCHANGED <<jobs, ask, batch, fin, oFinish, cur>>
  BY DEF UpsertRows, NewRows, journal, threads
<1>3. Line' = Line
  BY <1>2 DEF Line
<1>4. \A j \in JobIds : j <= cur /\ Latest(j) => Latest(j)'
  BY <1>1, <1>2 DEF Latest
<1>5. \A j \in JobIds : jobs[j] = "done" => j <= cur
  BY <1>1 DEF OrderInv, FinishOrder, Finished
<1>6. \A o \in Line : o.job <= cur
  <2>1. Line = Range(batch) \cup Range(fin)
    BY DEF OrderInv, Line
  <2>2. \A o \in Line : o.job < cur
    BY <1>1, <2>1 DEF ControlInv
  <2>3. \A o \in Line : o.job \in Nat /\ cur \in Nat
    BY <1>1
  <2>4. QED  BY <2>2, <2>3
<1>7. Latest(cur)'
  <2>1. \A r \in records' : r.key \in ask[cur].keys => r.job = cur
    BY <1>2
  <2>2. QED  BY <1>1, <1>2, <2>1 DEF Latest
<1>8. QED
  BY <1>1, <1>2, <1>3, <1>4, <1>5, <1>6, <1>7 DEF LatestInv

\* Every step keeps the rows the latest: what joins the line wrote last.
LEMMA LatestStep ==
  ASSUME Holds, OrderInv, LatestInv, ~InterruptFinish, Steps, [Next]_vars
  PROVE  LatestInv'
<1> USE DEF Holds
<1>1. CASE UpsertRows
  BY <1>1, UpsertLatest
<1>2. CASE ~UpsertRows
  <2>1. /\ records' \subseteq records
        /\ pc' \in {"presync", "unindex", "add"} =>
             pc \in {"presync", "unindex", "add"} /\ cur' = cur
        /\ \A j \in JobIds : jobs[j] # "none" => ask'[j] = ask[j]
    BY <1>2, RowSteps
  <2>2. \A j \in JobIds : jobs[j] # "none" /\ Latest(j) => Latest(j)'
    BY <2>1 DEF Latest
  <2>3. /\ jobs \in [JobIds -> Statuses] /\ Line \subseteq Outcomes
        /\ \A o \in Outcomes : o.job \in JobIds
        /\ \A o \in Line : jobs[o.job] = "processing"
        /\ cur # 0 => cur \in JobIds /\ jobs[cur] = "processing"
        /\ pc \in {"presync", "unindex", "add"} => cur # 0
    BY LineFacts DEF LineInv, ControlInv, TypeInv, TypeOK, JobIds
  <2> DEFINE W == {"presync", "unindex", "add"}
  <2>8. /\ \A j \in JobIds : jobs[j] = "done" => Latest(j)
        /\ \A o \in Line : o.status = "done" => Latest(o.job)
        /\ pc \in W => Latest(cur)
    BY DEF LatestInv
  <2>4. pc' \in {"presync", "unindex", "add"} => Latest(cur)'
    <3> SUFFICES ASSUME pc' \in {"presync", "unindex", "add"}  PROVE Latest(cur)'
      OBVIOUS
    <3>1. cur' = cur /\ cur \in JobIds /\ jobs[cur] # "none" /\ Latest(cur)
      BY <2>1, <2>3, <2>8
    <3>2. QED  BY <2>1, <3>1 DEF Latest
  <2>5. \A o \in Line' : o.status = "done" => Latest(o.job) /\ jobs[o.job] # "none"
                                             /\ o.job \in JobIds
    <3>1. ASSUME NEW o \in Outcomes, Joins(o), o.status = "done"
          PROVE  Latest(o.job) /\ jobs[o.job] # "none" /\ o.job \in JobIds
      BY <2>3, <2>8, <3>1 DEF Joins, Latest
    <3>2. Line' \subseteq Line \/ \E o \in Outcomes : Joins(o) /\ Line' = Line \cup {o}
      BY DEF Steps, Kind, Keeps, Claims, Journals, Joins, Finishes, Drops, Cuts
    <3>3. \A o \in Line : o.status = "done" => Latest(o.job) /\ jobs[o.job] # "none"
                                               /\ o.job \in JobIds
      BY <2>3, <2>8
    <3>4. QED  BY <3>1, <3>2, <3>3
  <2>6. \A j \in JobIds : jobs'[j] = "done" => Latest(j) /\ jobs[j] # "none"
    <3> SUFFICES ASSUME NEW j \in JobIds, jobs'[j] = "done"
                 PROVE  Latest(j) /\ jobs[j] # "none"
      OBVIOUS
    <3>1. jobs[j] = "done" \/ \E o \in Line : o.job = j /\ o.status = "done"
      BY <2>3 DEF Steps, Kind, Keeps, Claims, Journals, Joins, Finishes, Drops, Cuts
    <3>2. QED  BY <2>3, <2>8, <3>1
  <2>7. QED  BY <2>2, <2>4, <2>5, <2>6 DEF LatestInv
<1>3. QED  BY <1>1, <1>2

-----------------------------------------------------------------------------
\* An empty journal is in order.
LEMMA OrderInit == Init => LineInv /\ GapInv /\ OrderInv /\ LatestInv
<1> SUFFICES ASSUME Init  PROVE LineInv /\ GapInv /\ OrderInv /\ LatestInv
  OBVIOUS
<1>1. Line = {} /\ Range(batch) = {} /\ Range(fin) = {} /\ DOMAIN batch = {}
  BY DEF Init, Line, Range
<1>2. JobIds \subseteq Nat \ {0} /\ \A j \in JobIds : jobs[j] = "none"
  BY BoundsAssumption DEF JobIds, Init
<1>3. QED
  BY <1>1, <1>2 DEF Init, LineInv, GapInv, OrderInv, LatestInv, FinishOrder, Finished

\* The line is in order, whether finishes are cut off or not.
THEOREM LineInOrder == Spec => [](LineInv /\ GapInv)
<1>1. Init => LineInv /\ GapInv
  BY OrderInit
<1>2. TypeInv /\ DurabilityInv /\ LineInv /\ GapInv /\ [Next]_vars => (LineInv /\ GapInv)'
  BY NextSteps DEF DurabilityInv, Holds, Steps
<1>3. QED  BY <1>1, <1>2, Durability, PTL DEF Spec

\* No claim, replay, cut off finish or late thread of a cancelled worker reopens a
\* finished job or changes its outcome.
THEOREM FinishedStaysFinished == Spec => FinishedIsFinal
<1>1. TypeInv /\ DurabilityInv /\ LineInv /\ GapInv /\ [Next]_vars =>
        [\A j \in JobIds : jobs[j] \in Finished => jobs'[j] = jobs[j]]_vars
  BY NextSteps, StepsAreFinal DEF DurabilityInv, Holds, Steps, Final
<1>2. QED  BY <1>1, Durability, LineInOrder, PTL DEF Spec, FinishedIsFinal

\* Where no finish is cut off: nothing is passed over, and rows are the latest.
THEOREM OrderInvariant ==
  ASSUME ~InterruptFinish  PROVE Spec => [](OrderInv /\ LatestInv)
<1>1. Init => OrderInv /\ LatestInv
  BY OrderInit
<1>2. ASSUME TypeInv, DurabilityInv, LineInv, GapInv, OrderInv, LatestInv, [Next]_vars
      PROVE  (OrderInv /\ LatestInv)'
  <2>1. Holds
    BY <1>2 DEF DurabilityInv, Holds
  <2>2. Steps
    BY <1>2, <2>1, NextSteps
  <2>3. QED  BY <1>2, <2>1, <2>2, OrderStep, LatestStep
<1>3. QED  BY <1>1, <1>2, Durability, LineInOrder, PTL DEF Spec

\* Jobs finish in the order they were journaled, and no replay puts an older version
\* of a document back over what a done job wrote: through crashes, failed syncs,
\* barriers, stops and deletes, provided that no finish is cut off.
THEOREM JobsAreInOrder ==
  ASSUME ~InterruptFinish  PROVE Spec => []JobsKeepOrder
<1>1. OrderInv /\ LatestInv => JobsKeepOrder
  BY DEF OrderInv, LatestInv, Latest, JobsKeepOrder, DoneNotReverted
<1>2. QED  BY <1>1, OrderInvariant, PTL

\* Under the same proviso clients see a first-in, first-out ledger of jobs, each
\* finished once.
THEOREM JournalIsALedger ==
  ASSUME ~InterruptFinish  PROVE Spec => ImplementsLedger
<1>1. Init => Ledger!Init
  BY DEF Init, Ledger!Init, ledgerBar, JobIds, Open
<1>2. ASSUME Holds, OrderInv, Kind
      PROVE  [Ledger!Next]_ledgerBar
  <2>1. /\ jobs \in [JobIds -> Statuses] /\ JobIds \subseteq Nat /\ JobIds = 1..MaxJobs
        /\ \A o \in Outcomes : o.job \in JobIds /\ o.status \in Finished
        /\ Line \subseteq Outcomes /\ \A o \in Line : jobs[o.job] = "processing"
    BY <1>2, LineFacts DEF Holds, LineInv, JobIds
  <2>2. ASSUME \A j \in JobIds : \/ jobs'[j] = jobs[j]
                                 \/ jobs[j] \in Open /\ jobs'[j] \in Open
        PROVE  UNCHANGED ledgerBar
    BY <2>2 DEF ledgerBar
  <2>3. ASSUME NEW j \in JobIds, Journals(j)  PROVE Ledger!Submit(j)
    <3>1. jobs[j] = "none" /\ \A i \in 1..(j - 1) : i \in JobIds /\ jobs[i] # "none"
      BY <2>1, <2>3, BoundsAssumption DEF Journals, IsNextJob, JobIds
    <3>2. ledgerBar[j] = "none" /\ \A i \in 1..(j - 1) : ledgerBar[i] # "none"
      BY <3>1 DEF ledgerBar, Open
    <3>3. ledgerBar' = [ledgerBar EXCEPT ![j] = "open"]
      BY <2>1, <2>3 DEF Journals, ledgerBar, Open
    <3>4. QED  BY <3>2, <3>3 DEF Ledger!Submit
  <2>4. ASSUME NEW o \in Line, Finishes(o)  PROVE Ledger!Finish(o.job)
    <3>1. \A i \in JobIds : i < o.job => jobs[i] \in Finished
      BY <1>2, <2>1, <2>4 DEF Finishes, OrderInv, Settled, InLine
    <3>2. /\ ledgerBar[o.job] = "open"
          /\ \A i \in 1..(o.job - 1) : ledgerBar[i] # "open"
      BY <2>1, <3>1, BoundsAssumption DEF ledgerBar, Open, Finished, JobIds
    <3>3. ledgerBar' = [ledgerBar EXCEPT ![o.job] = o.status]
      BY <2>1, <2>4 DEF Finishes, ledgerBar, Open, Finished
    <3>4. QED  BY <2>1, <3>2, <3>3 DEF Ledger!Finish, Finished
  <2>5. \/ \A j \in JobIds : \/ jobs'[j] = jobs[j]
                             \/ jobs[j] \in Open /\ jobs'[j] \in Open
        \/ \E j \in JobIds : Journals(j)
        \/ \E o \in Line : Finishes(o)
    BY <1>2, <2>1 DEF Kind, Keeps, Claims, IsClaimed, Claimable, Joins, Drops, Cuts, Open
  <2>6. QED  BY <2>1, <2>2, <2>3, <2>4, <2>5 DEF Ledger!Next
<1>3. TypeInv /\ DurabilityInv /\ LineInv /\ GapInv /\ OrderInv /\ [Next]_vars =>
        [Ledger!Next]_ledgerBar
  BY <1>2, NextSteps DEF DurabilityInv, Holds, Steps
<1>4. QED
  BY <1>1, <1>3, Durability, LineInOrder, OrderInvariant, PTL
  DEF Spec, ImplementsLedger, Ledger!Spec
=============================================================================
