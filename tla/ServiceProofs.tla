---------------------------- MODULE ServiceProofs ----------------------------
(***************************************************************************)
(* Service for any replicas, requests and budgets of events: one process   *)
(* at a time has the databases open, a request that lost the race with     *)
(* stop() gets a true answer, and no closed collection keeps a client. A   *)
(* migration killed anywhere is completed by the next open, and the full   *)
(* text index holds the records throughout.                                *)
(***************************************************************************)
EXTENDS Service, TLAPS

Live == {"loading", "open", "stopping", "closing"}
Running(r) == req[r].pc \notin {"idle", "done"}
Holds(r) == req[r].pc \in {"have", "embed", "scan"}
DeletePCs == {"lock", "stopping", "rmtree"}

\* Whatever has the databases open, or may yet open them, is of the process that has
\* the lock.
LockInv ==
  /\ \A p \in Procs : start[p] \notin {"none", "polling"} => flock = p
  /\ \A g \in Objs : obj[g].st \in Live => flock = obj[g].proc
  /\ \A r \in Reqs : Running(r) => flock = req[r].proc

\* A collection that is loaded for a request is the one object that request waits for.
LoadInv ==
  /\ \A g \in Objs : obj[g].st = "loading" /\ obj[g].by \in Reqs =>
       /\ req[obj[g].by].pc = "loading"
       /\ req[obj[g].by].proc = obj[g].proc
       /\ \A h \in Objs : obj[h].st = "loading" /\ obj[h].by = obj[g].by => h = g
  /\ \A r \in Reqs : req[r].pc \in {"touch", "loading"} => req[r].obj = 0

\* While a DELETE runs every other request has met it, and whoever holds a deleted
\* object met its DELETE.
DeleteInv ==
  /\ \A r \in Reqs : Running(r) => (req[r].op = "delete" <=> req[r].pc \in DeletePCs)
  /\ Deleting => \A r \in Reqs : Running(r) /\ req[r].op # "delete" => req[r].gone
  /\ \A g \in Objs : obj[g].st \in {"loading", "open"} => ~obj[g].deleted
  /\ \A r \in Reqs : Holds(r) =>
       req[r].obj \in Objs /\ (obj[req[r].obj].deleted => req[r].gone)

\* The inductive invariant.
IInv == TypeOK /\ LockInv /\ LoadInv /\ DeleteInv /\ NoClientLeak

LEMMA NoObjType ==
  NoObj \in ObjTypes /\ NoObj.st = "none" /\ NoObj.client = "none" /\ NoObj.deleted = FALSE
<1>1. (CHOOSE p \in Procs : TRUE) \in Procs
  BY ServiceAssumption
<1>2. QED  BY <1>1 DEF NoObj, ObjTypes

LEMMA NoReqType == NoReq \in ReqTypes /\ NoReq.pc = "idle" /\ NoReq.obj = 0
<1>1. (CHOOSE p \in Procs : TRUE) \in Procs
  BY ServiceAssumption
<1>2. QED  BY <1>1, ServiceAssumption DEF NoReq, ReqTypes

-----------------------------------------------------------------------------
\* What the updates of one object or one request do, field by field.
OneObj(g) == obj' \in [Objs -> ObjTypes] /\ \A h \in Objs \ {g} : obj'[h] = obj[h]
OneReq(r) == req' \in [Reqs -> ReqTypes] /\ \A q \in Reqs \ {r} : req'[q] = req[q]

ObjGoes(g, st) ==
  /\ OneObj(g)
  /\ obj'[g].st = st /\ obj'[g].proc = obj[g].proc /\ obj'[g].by = obj[g].by
  /\ obj'[g].deleted = obj[g].deleted /\ obj'[g].client = obj[g].client
ReqGoes(r, pc) ==
  /\ OneReq(r)
  /\ req'[r].pc = pc /\ req'[r].op = req[r].op /\ req'[r].proc = req[r].proc
  /\ req'[r].obj = req[r].obj /\ req'[r].gone = req[r].gone
ReqGets(r, g) ==
  /\ OneReq(r)
  /\ req'[r].pc = "have" /\ req'[r].op = req[r].op /\ req'[r].proc = req[r].proc
  /\ req'[r].obj = g /\ req'[r].gone = req[r].gone
ReqDone(r, code) == OneReq(r) /\ req'[r].pc = "done" /\ req'[r].code = code
Loads(g, p, by) ==
  /\ OneObj(g) /\ Free(g)
  /\ obj'[g].st = "loading" /\ obj'[g].proc = p /\ obj'[g].by = by
  /\ obj'[g].deleted = FALSE /\ obj'[g].client = "none"

LEMMA BecomesEffect ==
  ASSUME TypeOK, NEW g \in Objs, NEW st \in {"open", "stopping", "closing", "failed"}, Becomes(g, st)
  PROVE  ObjGoes(g, st)
BY DEF TypeOK, ObjTypes, Becomes, ObjGoes, OneObj

LEMMA SetsEffect ==
  ASSUME TypeOK, NEW r \in Reqs, NEW pc, Sets(r, pc),
         pc \in {"loading", "embed", "scan", "closed", "stopping", "rmtree"}
  PROVE  ReqGoes(r, pc)
BY DEF TypeOK, ReqTypes, Sets, ReqGoes, OneReq

LEMMA GetsEffect ==
  ASSUME TypeOK, NEW r \in Reqs, NEW g \in Objs,
         req' = [req EXCEPT ![r].pc = "have", ![r].obj = g]
  PROVE  ReqGets(r, g)
<1> DEFINE q == [req[r] EXCEPT !.pc = "have", !.obj = g]
<1>1. req[r] \in ReqTypes /\ g \in 0..Slots
  BY ServiceAssumption DEF TypeOK, Objs
<1>2. /\ q \in ReqTypes /\ q.pc = "have" /\ q.obj = g /\ q.op = req[r].op
      /\ q.proc = req[r].proc /\ q.gone = req[r].gone
  BY <1>1 DEF ReqTypes
<1>3. req' = [req EXCEPT ![r] = q]
  BY DEF TypeOK
<1>4. QED  BY <1>2, <1>3 DEF TypeOK, ReqGets, OneReq

LEMMA AnsweredType ==
  ASSUME NEW code \in {"ok", "starting", "exists", "missing", "retry", "error"}
  PROVE  Answered(code) \in ReqTypes /\ Answered(code).pc = "done" /\ Answered(code).code = code
BY NoReqType DEF Answered, ReqTypes

LEMMA AnswersEffect ==
  ASSUME TypeOK, NEW r \in Reqs, NEW code, Answers(r, code),
         code \in {"ok", "starting", "exists", "missing", "retry", "error"}
  PROVE  ReqDone(r, code)
BY AnsweredType DEF TypeOK, Answers, ReqDone, OneReq

LEMMA RaisesEffect ==
  ASSUME TypeOK, NEW r \in Reqs, RaisesClosed(r)
  PROVE  IF obj[req[r].obj].deleted THEN ReqDone(r, "missing") ELSE ReqGoes(r, "closed")
BY SetsEffect, AnswersEffect DEF RaisesClosed

LEMMA LoadEffect ==
  ASSUME TypeOK, NEW p \in Procs, NEW by \in Reqs \cup {"boot"}, Load(p, by)
  PROVE  \E g \in Objs : Loads(g, p, by)
<1>1. PICK g \in Objs : /\ Free(g)
                        /\ obj' = [obj EXCEPT ![g] = [NoObj EXCEPT !.proc = p, !.st = "loading",
                                                                  !.at = 1, !.by = by]]
  BY DEF Load
<1> DEFINE o == [NoObj EXCEPT !.proc = p, !.st = "loading", !.at = 1, !.by = by]
<1>2. /\ o \in ObjTypes /\ o.st = "loading" /\ o.proc = p /\ o.by = by
      /\ o.deleted = FALSE /\ o.client = "none"
  BY NoObjType DEF ObjTypes
<1>3. obj'[g] = o /\ OneObj(g)
  BY <1>1, <1>2 DEF TypeOK, OneObj
<1>4. Loads(g, p, by)
  BY <1>1, <1>2, <1>3 DEF Loads
<1>5. QED  BY <1>4

-----------------------------------------------------------------------------
\* Steps that touch neither objects nor requests.
LEMMA Quiet ==
  ASSUME IInv, UNCHANGED <<catalog, obj, req>>,
         phase' \in [Procs -> {"off", "starting", "serving", "draining", "closing"}],
         start' \in [Procs -> {"none", "polling", "opening", "booting", "ok", "failed", "cancelled"}],
         flock' \in Procs \cup {"free"}, flock' = flock \/ flock = "free",
         \A p \in Procs : start'[p] \notin {"none", "polling"} => flock' = p
  PROVE  IInv'
<1>1. TypeOK'
  BY DEF IInv, TypeOK
<1>2. LockInv'
  <2>1. /\ \A g \in Objs : obj[g].proc # "free"
        /\ \A r \in Reqs : req[r].proc # "free"
    BY ServiceAssumption DEF IInv, TypeOK, ObjTypes, ReqTypes
  <2>2. CASE flock' = flock
    BY <2>2 DEF IInv, LockInv, Live, Running
  <2>3. CASE flock = "free"
    BY <2>1, <2>3 DEF IInv, LockInv, Live, Running
  <2>4. QED  BY <2>2, <2>3
<1>3. LoadInv' /\ DeleteInv' /\ NoClientLeak'
  BY DEF IInv, LoadInv, DeleteInv, NoClientLeak, Deleting, Running, Holds
<1>4. QED  BY <1>1, <1>2, <1>3 DEF IInv

\* Steps of one object that is open or about to close.
LEMMA ObjStepKeeps ==
  ASSUME IInv, UNCHANGED <<catalog, req, procs>>, NEW g \in Objs, NEW st, ObjGoes(g, st),
         \/ obj[g].st = "open" /\ st = "stopping"
         \/ obj[g].st = "stopping" /\ st = "closing"
  PROVE  IInv'
<1> USE DEF IInv, ObjGoes, OneObj
<1>1. TypeOK'
  BY DEF TypeOK, procs
<1>2. LockInv'
  BY DEF LockInv, Running, Live, procs
<1>3. LoadInv'
  BY DEF LoadInv
<1>4. DeleteInv'
  BY DEF DeleteInv, Deleting, Running, Holds
<1>5. NoClientLeak'
  BY DEF NoClientLeak
<1>6. QED  BY <1>1, <1>2, <1>3, <1>4, <1>5

\* A request ends, or its caller goes.
LEMMA EndKeeps ==
  ASSUME IInv, UNCHANGED <<obj, procs>>, catalog' \in BOOLEAN, NEW r \in Reqs, OneReq(r),
         req'[r].pc \in {"idle", "done"}, req[r].pc # "loading"
  PROVE  IInv'
<1> USE DEF IInv, OneReq
<1>1. TypeOK'
  BY DEF TypeOK, procs
<1>2. LockInv'
  BY DEF LockInv, Running, Live, procs
<1>3. LoadInv'
  BY DEF LoadInv
<1>4. DeleteInv'
  BY DEF DeleteInv, Deleting, Running, Holds, DeletePCs
<1>5. NoClientLeak'
  BY DEF NoClientLeak
<1>6. QED  BY <1>1, <1>2, <1>3, <1>4, <1>5

\* A request goes on.
LEMMA GoKeeps ==
  ASSUME IInv, UNCHANGED <<obj, procs>>, catalog' \in BOOLEAN, NEW r \in Reqs, NEW pc, ReqGoes(r, pc),
         \/ Holds(r) /\ pc \in {"embed", "scan", "closed"}
         \/ req[r].pc \in {"lock", "stopping"} /\ pc = "rmtree"
  PROVE  IInv'
<1> USE DEF IInv, ReqGoes, OneReq
<1>1. TypeOK'
  BY DEF TypeOK, procs
<1>2. LockInv'
  BY DEF LockInv, Running, Live, procs, Holds
<1>3. LoadInv'
  BY DEF LoadInv, Holds
<1>4. DeleteInv'
  BY DEF DeleteInv, Deleting, Running, Holds, DeletePCs
<1>5. NoClientLeak'
  BY DEF NoClientLeak
<1>6. QED  BY <1>1, <1>2, <1>3, <1>4, <1>5

LEMMA DiesKeeps ==
  ASSUME IInv, NEW p \in Procs, Dies(p), UNCHANGED catalog
  PROVE  IInv'
<1> USE DEF IInv
<1>1. /\ obj' \in [Objs -> ObjTypes] /\ req' \in [Reqs -> ReqTypes]
      /\ \A g \in Objs : obj'[g] = IF obj[g].proc = p THEN NoObj ELSE obj[g]
      /\ \A r \in Reqs : req'[r] = IF req[r].proc = p THEN NoReq ELSE req[r]
  BY NoObjType, NoReqType DEF Dies, TypeOK
<1>2. TypeOK'
  BY <1>1 DEF TypeOK, Dies
<1>3. LockInv'
  BY <1>1, NoObjType, NoReqType DEF TypeOK, Dies, LockInv, Live, Running
<1>4. LoadInv'
  BY <1>1, NoObjType, NoReqType DEF LoadInv
<1>5. DeleteInv'
  BY <1>1, NoObjType, NoReqType DEF DeleteInv, Deleting, Running, Holds, DeletePCs
<1>6. NoClientLeak'
  BY <1>1, NoObjType DEF NoClientLeak
<1>7. QED  BY <1>2, <1>3, <1>4, <1>5, <1>6

-----------------------------------------------------------------------------
\* The actions.
LEMMA ProcKeeps ==
  ASSUME IInv, NEW p \in Procs,
         \/ Launch(p) \/ Poll(p) \/ OpenCatalog(p) \/ Term(p) \/ TermAtWill(p) \/ Drained(p)
  PROVE  IInv'
<1>1. UNCHANGED <<catalog, obj, req>> /\ (flock' = flock \/ flock = "free")
  BY DEF Launch, Poll, OpenCatalog, Term, TermAtWill, Drained, disk
<1>2. flock' \in Procs \cup {"free"}
  BY DEF IInv, TypeOK, Launch, Poll, OpenCatalog, Term, TermAtWill, Drained
<1>3. phase' \in [Procs -> {"off", "starting", "serving", "draining", "closing"}]
  BY DEF IInv, TypeOK, Launch, Poll, OpenCatalog, Term, TermAtWill, Drained
<1>4. start' \in [Procs -> {"none", "polling", "opening", "booting", "ok", "failed", "cancelled"}]
  BY DEF IInv, TypeOK, Launch, Poll, OpenCatalog, Term, TermAtWill, Drained
<1>5. \A q \in Procs : start'[q] \notin {"none", "polling"} => flock' = q
  BY ServiceAssumption DEF IInv, TypeOK, LockInv, Launch, Poll, OpenCatalog, Term, TermAtWill, Drained
<1>6. QED  BY <1>1, <1>2, <1>3, <1>4, <1>5, Quiet

LEMMA EvictsKeep ==
  ASSUME IInv, NEW p \in Procs, ShutdownEvicts(p) \/ Evict(p)
  PROVE  IInv'
<1>1. PICK g \in Resident(p) : Becomes(g, "stopping")
  BY DEF ShutdownEvicts, Evict
<1>2. g \in Objs /\ obj[g].st = "open"
  BY DEF Resident, Of
<1>3. ObjGoes(g, "stopping")
  BY <1>1, <1>2, BecomesEffect DEF IInv
<1>4. UNCHANGED <<catalog, req, procs>>
  BY DEF ShutdownEvicts, Evict, disk
<1>5. QED  BY <1>2, <1>3, <1>4, ObjStepKeeps

LEMMA StopClosesKeeps ==
  ASSUME IInv, NEW g \in Objs, StopCloses(g)
  PROVE  IInv'
<1>1. ObjGoes(g, "closing")
  BY BecomesEffect DEF IInv, StopCloses
<1>2. QED  BY <1>1, ObjStepKeeps DEF StopCloses, disk

LEMMA StopEndsKeeps ==
  ASSUME IInv, NEW g \in Objs, StopEnds(g)
  PROVE  IInv'
<1> DEFINE o == [obj[g] EXCEPT !.st = "closed",
                               !.client = IF @ = "open" THEN "closed" ELSE @]
<1>1. /\ o \in ObjTypes /\ o.st = "closed" /\ o.client # "open"
  BY ZenonT(40) DEF IInv, TypeOK, ObjTypes
<1>2. obj' = [obj EXCEPT ![g] = o]
  BY DEF IInv, TypeOK, ObjTypes, StopEnds
<1>3. OneObj(g) /\ obj'[g].st = "closed" /\ obj'[g].client # "open" /\ obj'[g].deleted = obj[g].deleted
  BY <1>1, <1>2 DEF IInv, TypeOK, OneObj, ObjTypes
<1>4. UNCHANGED <<catalog, req, procs>>
  BY DEF StopEnds, disk
<1> HIDE DEF o
<1> USE <1>3, <1>4 DEF IInv, OneObj
<1>5. TypeOK'
  BY DEF TypeOK, procs
<1>6. LockInv'
  BY DEF LockInv, Running, Live, procs
<1>7. LoadInv'
  BY DEF LoadInv
<1>8. DeleteInv'
  BY DEF DeleteInv, Deleting, Running, Holds
<1>9. NoClientLeak'
  BY DEF NoClientLeak
<1>10. QED  BY <1>5, <1>6, <1>7, <1>8, <1>9

\* A collection begins to load.
LEMMA LoadsKeeps ==
  ASSUME IInv, NEW p \in Procs, NEW by \in Reqs \cup {"boot"}, NEW g \in Objs,
         Loads(g, p, by), flock = p, UNCHANGED <<catalog, procs>>,
         \/ by = "boot" /\ UNCHANGED req
         \/ /\ by \in Reqs /\ req[by].pc = "touch" /\ req[by].proc = p
            /\ ReqGoes(by, "loading")
  PROVE  IInv'
<1> USE DEF IInv, Loads, OneObj, ReqGoes, OneReq
<1>0. "boot" \notin Reqs /\ \A r \in Reqs : req[r].obj # g
  BY ServiceAssumption DEF Free
<1>1. TypeOK'
  BY DEF TypeOK, procs
<1>2. LockInv'
  BY DEF LockInv, Running, Live, procs
<1>3. LoadInv'
  BY <1>0 DEF LoadInv
<1>4. DeleteInv'
  BY <1>0 DEF DeleteInv, Deleting, Running, Holds, DeletePCs
<1>5. NoClientLeak'
  BY DEF NoClientLeak
<1>6. QED  BY <1>1, <1>2, <1>3, <1>4, <1>5

LEMMA BootKeeps ==
  ASSUME IInv, NEW p \in Procs, Boot(p)
  PROVE  IInv'
<1>1. flock = p
  BY DEF IInv, LockInv, Boot
<1>2. CASE Load(p, "boot") /\ UNCHANGED <<phase, start>>
  BY <1>1, <1>2, LoadEffect, LoadsKeeps DEF IInv, Boot, procs, disk
<1>3. CASE UNCHANGED obj /\ start' = [start EXCEPT ![p] = "ok"]
           /\ phase' = [phase EXCEPT ![p] = IF @ = "starting" THEN "serving" ELSE @]
  <2>1. UNCHANGED <<catalog, obj, req, flock>>
    BY <1>3 DEF Boot, disk
  <2>2. phase' \in [Procs -> {"off", "starting", "serving", "draining", "closing"}]
    BY <1>3 DEF IInv, TypeOK
  <2>3. start' \in [Procs -> {"none", "polling", "opening", "booting", "ok", "failed", "cancelled"}]
    BY <1>3 DEF IInv, TypeOK
  <2>4. \A q \in Procs : start'[q] \notin {"none", "polling"} => flock' = q
    BY <1>1, <1>3, <2>1 DEF IInv, TypeOK, LockInv
  <2>5. QED  BY <2>1, <2>2, <2>3, <2>4, Quiet DEF IInv, TypeOK
<1>4. QED  BY <1>2, <1>3 DEF Boot

LEMMA StartFailsKeeps ==
  ASSUME IInv, NEW p \in Procs, StartFails(p)
  PROVE  IInv'
<1>1. CASE phase[p] = "starting"
  BY <1>1, DiesKeeps DEF StartFails, disk
<1>2. CASE phase[p] # "starting"
  <2>1. /\ start' = [start EXCEPT ![p] = "failed"]
        /\ obj' = [g \in Objs |-> IF g \in Of(p) /\ obj[g].st = "loading"
                                  THEN [obj[g] EXCEPT !.st = "failed"] ELSE obj[g]]
        /\ UNCHANGED <<flock, phase, req, catalog>> /\ start[p] = "booting"
    BY <1>2 DEF StartFails, disk
  <2>2. obj' \in [Objs -> ObjTypes]
    BY <2>1 DEF IInv, TypeOK, ObjTypes
  <2>3. \A g \in Objs : \/ obj'[g] = obj[g]
                        \/ /\ obj'[g].st = "failed" /\ obj'[g].deleted = obj[g].deleted
                           /\ obj[g].st = "loading"
    BY <2>1 DEF IInv, TypeOK, ObjTypes
  <2> USE <2>3 DEF IInv
  <2>4. TypeOK'
    BY <2>1, <2>2 DEF TypeOK
  <2>5. LockInv'
    BY <2>1 DEF LockInv, Running, Live, TypeOK
  <2>6. LoadInv'
    BY <2>1 DEF LoadInv
  <2>7. DeleteInv'
    BY <2>1 DEF DeleteInv, Deleting, Running, Holds
  <2>8. NoClientLeak'
    BY <2>1 DEF NoClientLeak
  <2>9. QED  BY <2>4, <2>5, <2>6, <2>7, <2>8
<1>3. QED  BY <1>1, <1>2

LEMMA LoadStepKeeps ==
  ASSUME IInv, NEW g \in Objs, LoadStep(g)
  PROVE  IInv'
<1>1. obj[g].st = "loading" /\ UNCHANGED <<catalog, procs, used>>
  BY DEF LoadStep
<1>2. CASE obj' = [obj EXCEPT ![g].at = @ + 1] /\ UNCHANGED req
  <2> USE DEF IInv, OneObj
  <2>1. /\ OneObj(g) /\ obj'[g].st = obj[g].st /\ obj'[g].proc = obj[g].proc
        /\ obj'[g].by = obj[g].by /\ obj'[g].deleted = obj[g].deleted
    BY <1>2 DEF TypeOK, ObjTypes
  <2>2. TypeOK'
    BY <1>1, <1>2, <2>1 DEF TypeOK, procs
  <2>3. LockInv'
    BY <1>1, <1>2, <2>1 DEF LockInv, Running, procs
  <2>4. LoadInv'
    BY <1>2, <2>1 DEF LoadInv
  <2>5. DeleteInv'
    BY <1>2, <2>1 DEF DeleteInv, Deleting, Running, Holds
  <2>6. NoClientLeak'
    BY <1>1, <2>1 DEF NoClientLeak
  <2>7. QED  BY <2>2, <2>3, <2>4, <2>5, <2>6
<1>3. CASE /\ Becomes(g, "open")
           /\ req' = [r \in Reqs |-> IF r = obj[g].by
                                     THEN [req[r] EXCEPT !.pc = "have", !.obj = g]
                                     ELSE req[r]]
  <2> DEFINE q == obj[g].by
  <2>1. ObjGoes(g, "open")
    BY <1>3, BecomesEffect DEF IInv
  <2>2. req' \in [Reqs -> ReqTypes] /\ g \in 0..Slots
    <3>1. g \in 0..Slots
      BY ServiceAssumption DEF Objs
    <3>2. ASSUME NEW s \in ReqTypes  PROVE [s EXCEPT !.pc = "have", !.obj = g] \in ReqTypes
      BY <3>1 DEF ReqTypes
    <3>3. QED  BY <1>3, <3>1, <3>2 DEF IInv, TypeOK
  <2>3. \A r \in Reqs \ {q} : req'[r] = req[r]
    BY <1>3
  <2>4. q \in Reqs => /\ req'[q].pc = "have" /\ req'[q].obj = g /\ req'[q].op = req[q].op
                      /\ req'[q].proc = req[q].proc /\ req'[q].gone = req[q].gone
    BY <1>3, ZenonT(40) DEF IInv, TypeOK, ReqTypes
  <2>5. q \in Reqs => req[q].pc = "loading"
    BY <1>1 DEF IInv, LoadInv
  <2> HIDE DEF q
  <2>6. TypeOK'
    BY <1>1, <2>1, <2>2 DEF IInv, TypeOK, procs, ObjGoes, OneObj
  <2>7. LockInv'
    BY <1>1, <2>1, <2>3, <2>4, <2>5 DEF IInv, LockInv, Running, Live, procs, ObjGoes, OneObj
  <2>8. LoadInv'
    BY <1>1, <2>1, <2>3, <2>4 DEF IInv, LoadInv, ObjGoes, OneObj, q
  <2>9. DeleteInv'
    BY <1>1, <2>1, <2>3, <2>4, <2>5
       DEF IInv, DeleteInv, Deleting, Running, Holds, DeletePCs, ObjGoes, OneObj
  <2>10. NoClientLeak'
    BY <2>1 DEF IInv, NoClientLeak, ObjGoes, OneObj
  <2>11. QED  BY <2>6, <2>7, <2>8, <2>9, <2>10 DEF IInv
<1>4. QED  BY <1>2, <1>3 DEF LoadStep

LEMMA LoadFailsKeeps ==
  ASSUME IInv, NEW g \in Objs, LoadFails(g)
  PROVE  IInv'
<1> DEFINE q == obj[g].by
<1>1. obj[g].st = "loading" /\ q \in Reqs /\ UNCHANGED <<catalog, procs>>
  BY DEF LoadFails, disk
<1>2. ObjGoes(g, "failed")
  BY BecomesEffect DEF LoadFails, IInv
<1>3. ReqDone(q, "error")
  BY <1>1, AnswersEffect DEF LoadFails, IInv
<1> USE <1>1, <1>2, <1>3 DEF IInv, ObjGoes, OneObj, ReqDone, OneReq
<1>4. TypeOK'
  BY DEF TypeOK, procs
<1>5. LockInv'
  BY DEF LockInv, Running, Live, procs
<1>6. LoadInv'
  BY DEF LoadInv
<1>7. DeleteInv'
  BY DEF DeleteInv, Deleting, Running, Holds, DeletePCs
<1>8. NoClientLeak'
  BY DEF NoClientLeak
<1>9. QED  BY <1>4, <1>5, <1>6, <1>7, <1>8

LEMMA TouchKeeps ==
  ASSUME IInv, NEW r \in Reqs, Touch(r)
  PROVE  IInv'
<1>1. req[r].pc = "touch" /\ UNCHANGED <<disk, procs, used>>
  BY DEF Touch
<1>2. flock = req[r].proc /\ req[r].proc \in Procs
  BY <1>1 DEF IInv, LockInv, Running, TypeOK, ReqTypes
<1>3. CASE Load(req[r].proc, r) /\ Sets(r, "loading")
  <2>1. PICK g \in Objs : Loads(g, req[r].proc, r)
    BY <1>2, <1>3, LoadEffect DEF IInv
  <2>2. ReqGoes(r, "loading")
    BY <1>3, SetsEffect DEF IInv
  <2>3. QED  BY <1>1, <1>2, <2>1, <2>2, LoadsKeeps DEF disk
<1>4. CASE Answers(r, "missing") /\ UNCHANGED obj
  BY <1>1, <1>4, AnswersEffect, EndKeeps DEF IInv, TypeOK, ReqDone, disk
<1>5. CASE \E g \in Resident(req[r].proc) :
             req' = [req EXCEPT ![r].pc = "have", ![r].obj = g] /\ UNCHANGED obj
  <2>1. PICK g \in Resident(req[r].proc) :
               req' = [req EXCEPT ![r].pc = "have", ![r].obj = g]
    BY <1>5
  <2>2. g \in Objs /\ obj[g].st = "open" /\ obj' = obj
    BY <1>5 DEF Resident, Of
  <2>3. ReqGets(r, g)
    BY <2>1, <2>2, GetsEffect DEF IInv
  <2> USE <1>1, <2>2, <2>3 DEF IInv, ReqGets, OneReq, procs, disk
  <2>4. TypeOK'
    BY DEF TypeOK
  <2>5. LockInv'
    BY <1>2 DEF LockInv, Running, Live
  <2>6. LoadInv'
    BY DEF LoadInv
  <2>7. DeleteInv'
    BY DEF DeleteInv, Deleting, Running, Holds, DeletePCs
  <2>8. NoClientLeak'
    BY DEF NoClientLeak
  <2>9. QED  BY <2>4, <2>5, <2>6, <2>7, <2>8
<1>6. QED  BY <1>3, <1>4, <1>5 DEF Touch

\* A request finds its collection closed.
LEMMA RaisesKeeps ==
  ASSUME IInv, NEW r \in Reqs, RaisesClosed(r), Holds(r), UNCHANGED <<catalog, obj, procs>>
  PROVE  IInv'
<1>1. req[r].pc # "loading" /\ catalog \in BOOLEAN
  BY DEF Holds, IInv, TypeOK
<1>2. CASE ReqDone(r, "missing")
  BY <1>1, <1>2, EndKeeps DEF ReqDone
<1>3. CASE ReqGoes(r, "closed")
  BY <1>1, <1>3, GoKeeps
<1>4. QED  BY <1>2, <1>3, RaisesEffect DEF IInv

LEMMA AnswersKeep ==
  ASSUME IInv, NEW r \in Reqs, NEW code, Answers(r, code),
         code \in {"ok", "starting", "exists", "missing", "retry", "error"},
         UNCHANGED <<catalog, obj, procs>>, req[r].pc # "loading"
  PROVE  IInv'
BY AnswersEffect, EndKeeps DEF IInv, TypeOK, ReqDone

LEMMA UseKeeps ==
  ASSUME IInv, NEW r \in Reqs, Use(r)
  PROVE  IInv'
<1>1. req[r].pc = "have" /\ Holds(r) /\ UNCHANGED <<catalog, procs, obj>>
  BY DEF Use, Holds
<1>2. RaisesClosed(r) \/ Answers(r, "ok")
  BY DEF Use
<1>3. QED  BY <1>1, <1>2, RaisesKeeps, AnswersKeep

LEMMA EmbedEndsKeeps ==
  ASSUME IInv, NEW r \in Reqs, EmbedEnds(r)
  PROVE  IInv'
<1>1. req[r].pc = "embed" /\ Holds(r) /\ UNCHANGED <<catalog, procs, obj>>
  BY DEF EmbedEnds, Holds, disk
<1>2. RaisesClosed(r) \/ Answers(r, "error") \/ Sets(r, "scan")
  BY DEF EmbedEnds
<1>3. CASE Sets(r, "scan")
  BY <1>1, <1>3, SetsEffect, GoKeeps DEF IInv, TypeOK
<1>4. QED  BY <1>1, <1>2, <1>3, RaisesKeeps, AnswersKeep

LEMMA ScanKeeps ==
  ASSUME IInv, NEW r \in Reqs, Scan(r)
  PROVE  IInv'
<1>1. req[r].pc = "scan" /\ Holds(r) /\ UNCHANGED <<catalog, procs, obj>>
  BY DEF Scan, Holds, disk
<1>2. RaisesClosed(r) \/ Answers(r, "ok")
  BY DEF Scan
<1>3. QED  BY <1>1, <1>2, RaisesKeeps, AnswersKeep

LEMMA HandlesClosedKeeps ==
  ASSUME IInv, NEW r \in Reqs, HandlesClosed(r)
  PROVE  IInv'
<1>1. req[r].pc = "closed" /\ UNCHANGED <<catalog, procs, obj>>
  BY DEF HandlesClosed, disk
<1>2. Answers(r, "retry") \/ Answers(r, "missing")
  BY DEF HandlesClosed
<1>3. QED  BY <1>1, <1>2, AnswersKeep

LEMMA EmbedKeeps ==
  ASSUME IInv, NEW r \in Reqs, Embed(r)
  PROVE  IInv'
<1> DEFINE g == req[r].obj
<1>1. req[r].pc = "have" /\ Holds(r) /\ UNCHANGED <<catalog, procs>>
  BY DEF Embed, Holds, disk
<1>2. CASE obj[g].client = "none" /\ Closed(g)
  BY <1>1, <1>2, RaisesKeeps DEF Embed
<1>3. CASE ~(obj[g].client = "none" /\ Closed(g))
  <2>1. Sets(r, "embed") /\ obj' = [obj EXCEPT ![g].client = IF @ = "none" THEN "open" ELSE @]
    BY <1>3 DEF Embed
  <2>2. g \in Objs
    BY <1>1 DEF IInv, DeleteInv
  <2>3. /\ OneObj(g)
        /\ obj'[g].st = obj[g].st /\ obj'[g].proc = obj[g].proc /\ obj'[g].by = obj[g].by
        /\ obj'[g].deleted = obj[g].deleted
        /\ obj'[g].client = IF obj[g].client = "none" THEN "open" ELSE obj[g].client
    BY <2>1, <2>2 DEF IInv, TypeOK, ObjTypes, OneObj
  <2>4. ReqGoes(r, "embed")
    BY <2>1, SetsEffect DEF IInv
  <2>5. obj[g].st = "closed" => obj'[g].client = obj[g].client
    BY <1>3, <2>3 DEF Closed
  <2> HIDE DEF g
  <2> USE <1>1, <2>2, <2>3, <2>4, <2>5 DEF IInv, OneObj, ReqGoes, OneReq, procs
  <2>6. TypeOK'
    BY DEF TypeOK
  <2>7. LockInv'
    BY DEF LockInv, Running, Live, Holds
  <2>8. LoadInv'
    BY DEF LoadInv
  <2>9. DeleteInv'
    BY DEF DeleteInv, Deleting, Running, Holds, DeletePCs
  <2>10. NoClientLeak'
    BY DEF NoClientLeak
  <2>11. QED  BY <2>6, <2>7, <2>8, <2>9, <2>10
<1>4. QED  BY <1>2, <1>3

LEMMA DeleteLocksKeeps ==
  ASSUME IInv, NEW r \in Reqs, DeleteLocks(r)
  PROVE  IInv'
<1>1. req[r].pc = "lock" /\ UNCHANGED <<db, procs, used>>
  BY DEF DeleteLocks
<1>2. CASE catalog' = FALSE /\ Sets(r, "rmtree") /\ UNCHANGED obj
  BY <1>1, <1>2, SetsEffect, GoKeeps DEF IInv
<1>3. CASE \E g \in Resident(req[r].proc) :
             /\ obj' = [obj EXCEPT ![g].deleted = TRUE, ![g].st = "stopping"]
             /\ req' = [req EXCEPT ![r].pc = "stopping", ![r].obj = g]
             /\ UNCHANGED catalog
  <2>1. PICK g \in Resident(req[r].proc) :
             /\ obj' = [obj EXCEPT ![g].deleted = TRUE, ![g].st = "stopping"]
             /\ req' = [req EXCEPT ![r].pc = "stopping", ![r].obj = g]
             /\ UNCHANGED catalog
    BY <1>3
  <2>2. g \in Objs /\ obj[g].st = "open" /\ g \in 0..Slots
    BY ServiceAssumption DEF Resident, Of, Objs
  <2> DEFINE o == [obj[g] EXCEPT !.deleted = TRUE, !.st = "stopping"]
             q == [req[r] EXCEPT !.pc = "stopping", !.obj = g]
  <2>3. /\ o \in ObjTypes /\ o.st = "stopping" /\ o.proc = obj[g].proc /\ o.client = obj[g].client
        /\ q \in ReqTypes /\ q.pc = "stopping" /\ q.op = req[r].op /\ q.proc = req[r].proc
        /\ q.gone = req[r].gone
    <3>1. obj[g] \in ObjTypes /\ req[r] \in ReqTypes
      BY <2>2 DEF IInv, TypeOK
    <3>2. o \in ObjTypes /\ o.st = "stopping" /\ o.proc = obj[g].proc /\ o.client = obj[g].client
      BY <3>1 DEF ObjTypes
    <3>3. /\ q \in ReqTypes /\ q.pc = "stopping" /\ q.op = req[r].op /\ q.proc = req[r].proc
          /\ q.gone = req[r].gone
      BY <2>2, <3>1 DEF ReqTypes
    <3>4. QED  BY <3>2, <3>3
  <2>4. obj' = [obj EXCEPT ![g] = o] /\ req' = [req EXCEPT ![r] = q]
    BY <2>1, <2>2 DEF IInv, TypeOK
  <2> HIDE DEF o, q
  <2>5. OneObj(g) /\ OneReq(r) /\ obj'[g] = o /\ req'[r] = q
    BY <2>2, <2>3, <2>4 DEF IInv, TypeOK, OneObj, OneReq
  <2>6. Deleting
    BY <1>1 DEF IInv, DeleteInv, Running, Deleting, DeletePCs
  <2> USE <1>1, <2>1, <2>2, <2>3, <2>5 DEF IInv, OneObj, OneReq, procs
  <2>7. TypeOK'
    BY DEF TypeOK
  <2>8. LockInv'
    BY DEF LockInv, Running, Live
  <2>9. LoadInv'
    BY DEF LoadInv
  <2>10. DeleteInv'
    BY <2>6 DEF DeleteInv, Deleting, Running, Holds, DeletePCs
  <2>11. NoClientLeak'
    BY DEF NoClientLeak
  <2>12. QED  BY <2>7, <2>8, <2>9, <2>10, <2>11
<1>4. QED  BY <1>2, <1>3 DEF DeleteLocks

LEMMA DeleteRowKeeps ==
  ASSUME IInv, NEW r \in Reqs, DeleteRow(r)
  PROVE  IInv'
<1>1. req[r].pc = "stopping" /\ UNCHANGED <<db, procs, obj>>
  BY DEF DeleteRow
<1>2. CASE catalog' = FALSE /\ Sets(r, "rmtree")
  BY <1>1, <1>2, SetsEffect, GoKeeps DEF IInv
<1>3. CASE req' = [req EXCEPT ![r] = NoReq] /\ UNCHANGED catalog
  <2>1. OneReq(r) /\ req'[r].pc = "idle"
    BY <1>3, NoReqType DEF IInv, TypeOK, OneReq
  <2>2. QED  BY <1>1, <1>3, <2>1, EndKeeps DEF IInv, TypeOK
<1>4. QED  BY <1>2, <1>3 DEF DeleteRow

LEMMA DeleteFilesKeeps ==
  ASSUME IInv, NEW r \in Reqs, DeleteFiles(r)
  PROVE  IInv'
BY AnswersKeep DEF DeleteFiles

\* A request arrives.
LEMMA ArriveKeeps ==
  ASSUME IInv, NEW r \in Reqs, NEW p \in Procs, NEW op \in Ops, Arrive(r, p, op)
  PROVE  IInv'
<1> DEFINE new == [NoReq EXCEPT !.op = op, !.proc = p, !.gone = ~catalog \/ Deleting]
<1>1. req[r].pc \in {"idle", "done"} /\ UNCHANGED <<procs, obj>>
  BY DEF Arrive
<1>2. ASSUME NEW pc \in {"touch", "lock"}
      PROVE  LET q == [new EXCEPT !.pc = pc] IN
             /\ q \in ReqTypes /\ q.pc = pc /\ q.op = op /\ q.proc = p /\ q.obj = 0
             /\ Deleting => q.gone = TRUE
  <2>1. (~catalog \/ Deleting) \in BOOLEAN
    BY DEF IInv, TypeOK, Deleting
  <2>2. QED  BY <2>1, NoReqType DEF ReqTypes
<1>3. CASE \E code \in {"starting", "exists", "ok", "missing"} : req' = [req EXCEPT ![r] = Answered(code)]
  <2>1. OneReq(r) /\ req'[r].pc = "done"
    BY <1>3, AnsweredType DEF IInv, TypeOK, OneReq
  <2>2. catalog' \in BOOLEAN
    BY DEF IInv, TypeOK, Arrive, disk
  <2>3. QED  BY <1>1, <2>1, <2>2, EndKeeps
<1>4. CASE /\ start[p] = "ok" /\ op = "delete" /\ UNCHANGED disk
           /\ req' = [q \in Reqs |-> IF q = r THEN [new EXCEPT !.pc = "lock"]
                                     ELSE [req[q] EXCEPT !.gone = TRUE]]
  <2> DEFINE s == [new EXCEPT !.pc = "lock"]
  <2>1. /\ s \in ReqTypes /\ s.pc = "lock" /\ s.op = "delete" /\ s.proc = p /\ s.obj = 0
    BY <1>2, <1>4
  <2>2. ASSUME NEW t \in ReqTypes
        PROVE  LET u == [t EXCEPT !.gone = TRUE] IN
               /\ u \in ReqTypes /\ u.pc = t.pc /\ u.op = t.op /\ u.proc = t.proc
               /\ u.obj = t.obj /\ u.gone = TRUE
    BY DEF ReqTypes
  <2>0. req' = [q \in Reqs |-> IF q = r THEN s ELSE [req[q] EXCEPT !.gone = TRUE]]
    BY <1>4
  <2> HIDE DEF s, new
  <2>3. /\ req' \in [Reqs -> ReqTypes] /\ req'[r] = s
        /\ \A q \in Reqs \ {r} : /\ req'[q].pc = req[q].pc /\ req'[q].op = req[q].op
                                /\ req'[q].proc = req[q].proc /\ req'[q].obj = req[q].obj
                                /\ req'[q].gone = TRUE
    BY <2>0, <2>1, <2>2 DEF IInv, TypeOK
  <2> USE <1>1, <2>1, <2>3 DEF IInv, procs
  <2>4. TypeOK'
    BY <1>4 DEF TypeOK, disk
  <2>5. LockInv'
    <3>1. flock = p
      BY <1>4 DEF LockInv
    <3>2. \A q \in Reqs : Running(q)' => flock = req'[q].proc
      BY <3>1 DEF LockInv, Running
    <3>3. QED  BY <3>2 DEF LockInv, Live
  <2>6. LoadInv'
    BY DEF LoadInv
  <2>7. DeleteInv'
    BY DEF DeleteInv, Deleting, Running, Holds, DeletePCs
  <2>8. NoClientLeak'
    BY DEF NoClientLeak
  <2>9. QED  BY <2>4, <2>5, <2>6, <2>7, <2>8
<1>5. CASE /\ start[p] = "ok" /\ op # "delete" /\ UNCHANGED disk
           /\ req' = [req EXCEPT ![r] = [new EXCEPT !.pc = "touch"]]
  <2> DEFINE s == [new EXCEPT !.pc = "touch"]
  <2>1. /\ s \in ReqTypes /\ s.pc = "touch" /\ s.op # "delete" /\ s.proc = p /\ s.obj = 0
        /\ Deleting => s.gone = TRUE
    BY <1>2, <1>5
  <2> HIDE DEF s, new
  <2>2. OneReq(r) /\ req'[r] = s
    BY <1>5, <2>1 DEF IInv, TypeOK, OneReq, s
  <2> USE <1>1, <2>1, <2>2 DEF IInv, OneReq, procs
  <2>3. TypeOK'
    BY <1>5 DEF TypeOK, disk
  <2>4. LockInv'
    BY <1>5 DEF LockInv, Running, Live
  <2>5. LoadInv'
    BY DEF LoadInv
  <2>6. DeleteInv'
    BY DEF DeleteInv, Deleting, Running, Holds, DeletePCs
  <2>7. NoClientLeak'
    BY DEF NoClientLeak
  <2>8. QED  BY <2>3, <2>4, <2>5, <2>6, <2>7
<1>6. QED
  <2>1. catalog \in BOOLEAN
    BY DEF IInv, TypeOK
  <2>2. QED  BY <1>3, <1>4, <1>5, <2>1 DEF Arrive

-----------------------------------------------------------------------------
LEMMA InitInv == Init => IInv
<1> SUFFICES ASSUME Init  PROVE IInv
  OBVIOUS
<1> USE NoObjType, NoReqType DEF Init
<1>1. TypeOK
  BY DEF TypeOK
<1>2. LockInv /\ LoadInv /\ DeleteInv /\ NoClientLeak
  BY DEF LockInv, LoadInv, DeleteInv, NoClientLeak, Live, Running, Holds, Deleting
<1>3. QED  BY <1>1, <1>2 DEF IInv

LEMMA NextInv == IInv /\ [Next]_vars => IInv'
<1> SUFFICES ASSUME IInv, [Next]_vars  PROVE IInv'
  OBVIOUS
<1>1. CASE UNCHANGED vars
  BY <1>1, Quiet DEF vars, disk, procs, IInv, TypeOK, LockInv
<1>2. ASSUME NEW p \in Procs, Exits(p) \/ Kill(p)  PROVE IInv'
  BY <1>2, DiesKeeps DEF Exits, Kill, disk
<1>3. ASSUME NEW p \in Procs, ProcStep(p)  PROVE IInv'
  BY <1>2, <1>3, ProcKeeps, BootKeeps, EvictsKeep DEF ProcStep
<1>4. ASSUME NEW g \in Objs, Work(g)  PROVE IInv'
  BY <1>4, Quiet DEF Work, procs, IInv, TypeOK, LockInv
<1>5. ASSUME NEW g \in Objs, ObjStep(g)  PROVE IInv'
  BY <1>4, <1>5, LoadStepKeeps, StopClosesKeeps, StopEndsKeeps DEF ObjStep
<1>6. ASSUME NEW r \in Reqs, ReqStep(r)  PROVE IInv'
  BY <1>6, TouchKeeps, UseKeeps, EmbedKeeps, EmbedEndsKeeps, ScanKeeps, HandlesClosedKeeps,
     DeleteLocksKeeps, DeleteRowKeeps, DeleteFilesKeeps DEF ReqStep
<1>7. QED  BY <1>1, <1>2, <1>3, <1>5, <1>6, ProcKeeps, StartFailsKeeps, EvictsKeep, LoadFailsKeeps,
              ArriveKeeps DEF Next

THEOREM ServiceInvariant == Spec => []IInv
BY InitInv, NextInv, PTL DEF Spec

\* Of the processes on a data directory only the one that has the lock has a database
\* open, from its start to the end of its shutdown, whichever of them are killed.
THEOREM DataDirIsOfOneProcess == Spec => []OneProcess
<1>1. IInv => OneProcess
  BY DEF IInv, TypeOK, LockInv, Live, OneProcess, HasOpen, Of
<1>2. QED  BY <1>1, ServiceInvariant, PTL

-----------------------------------------------------------------------------
\* What a request that ends is told.
ToldTrue(r) ==
  /\ req'[r].code = "missing" => req[r].gone \/ ~catalog
  /\ req'[r].code = "retry" => catalog
  /\ req'[r].code = "error" /\ req[r].obj # 0 => ~Closed(req[r].obj)

LEMMA RaisesAreTrue ==
  ASSUME IInv, NEW r \in Reqs, Holds(r), RaisesClosed(r), req'[r].pc = "done"
  PROVE  ToldTrue(r)
<1>1. obj[req[r].obj].deleted => req[r].gone
  BY DEF IInv, DeleteInv
<1>2. obj[req[r].obj].deleted /\ req'[r].code = "missing"
  BY RaisesEffect DEF IInv, ReqDone, ReqGoes
<1>3. QED  BY <1>1, <1>2 DEF ToldTrue

LEMMA OthersStay ==
  ASSUME TypeOK, NEW q \in Reqs, NEW r \in Reqs, q # r, ReqStep(q)
  PROVE  req'[r] = req[r]
<1> USE DEF TypeOK, Sets, Answers, RaisesClosed
<1>1. CASE Touch(q)
  BY <1>1 DEF Touch
<1>2. CASE Use(q)
  BY <1>2 DEF Use
<1>3. CASE Embed(q)
  BY <1>3 DEF Embed
<1>4. CASE EmbedEnds(q)
  BY <1>4 DEF EmbedEnds
<1>5. CASE Scan(q)
  BY <1>5 DEF Scan
<1>6. CASE HandlesClosed(q)
  BY <1>6 DEF HandlesClosed
<1>7. CASE DeleteLocks(q)
  BY <1>7 DEF DeleteLocks
<1>8. CASE DeleteRow(q)
  BY <1>8 DEF DeleteRow
<1>9. CASE DeleteFiles(q)
  BY <1>9 DEF DeleteFiles
<1>10. QED  BY <1>1, <1>2, <1>3, <1>4, <1>5, <1>6, <1>7, <1>8, <1>9 DEF ReqStep

LEMMA OwnStepIsTrue ==
  ASSUME IInv, NEW r \in Reqs, ReqStep(r), req'[r].pc = "done"
  PROVE  ToldTrue(r)
<1> USE AnswersEffect DEF IInv, ReqDone
<1>1. CASE Touch(r)
  <2>1. CASE Resident(req[r].proc) # {}
    <3>1. PICK g \in Resident(req[r].proc) : req' = [req EXCEPT ![r].pc = "have", ![r].obj = g]
      BY <1>1, <2>1 DEF Touch
    <3>2. req'[r].pc = "have"
      BY <3>1, GetsEffect DEF Resident, Of, ReqGets
    <3>3. QED  BY <3>2
  <2>2. CASE Resident(req[r].proc) = {} /\ catalog
    BY <1>1, <2>2, SetsEffect DEF Touch, ReqGoes
  <2>3. CASE Resident(req[r].proc) = {} /\ ~catalog
    BY <1>1, <2>3 DEF Touch, ToldTrue
  <2>4. QED  BY <2>1, <2>2, <2>3
<1>2. CASE Use(r)
  BY <1>2, RaisesAreTrue DEF Use, ToldTrue, Holds
<1>3. CASE Embed(r)
  BY <1>3, RaisesAreTrue, SetsEffect DEF Embed, Holds, ReqGoes
<1>4. CASE EmbedEnds(r)
  <2>1. CASE RaisesClosed(r)
    BY <1>4, <2>1, RaisesAreTrue DEF EmbedEnds, Holds
  <2>2. CASE Answers(r, "error") /\ ~Closed(req[r].obj)
    BY <2>2 DEF ToldTrue
  <2>3. CASE Sets(r, "scan")
    BY <2>3, SetsEffect DEF ReqGoes
  <2>4. QED  BY <1>4, <2>1, <2>2, <2>3 DEF EmbedEnds
<1>5. CASE Scan(r)
  BY <1>5, RaisesAreTrue DEF Scan, ToldTrue, Holds
<1>6. CASE HandlesClosed(r)
  BY <1>6 DEF HandlesClosed, ToldTrue
<1>7. CASE DeleteLocks(r)
  <2>1. req'[r].pc \in {"rmtree", "stopping"}
    <3>1. CASE Sets(r, "rmtree")
      BY <3>1, SetsEffect DEF ReqGoes
    <3>2. CASE \E g \in Objs : req' = [req EXCEPT ![r].pc = "stopping", ![r].obj = g]
      BY <3>2 DEF TypeOK, ReqTypes
    <3>3. QED  BY <1>7, <3>1, <3>2 DEF DeleteLocks, Resident, Of
  <2>2. QED  BY <2>1
<1>8. CASE DeleteRow(r)
  <2>1. CASE Sets(r, "rmtree")
    BY <2>1, SetsEffect DEF ReqGoes
  <2>2. CASE req' = [req EXCEPT ![r] = NoReq]
    BY <2>2, NoReqType DEF TypeOK
  <2>3. QED  BY <1>8, <2>1, <2>2 DEF DeleteRow
<1>9. CASE DeleteFiles(r)
  BY <1>9 DEF DeleteFiles, ToldTrue
<1>10. QED  BY <1>1, <1>2, <1>3, <1>4, <1>5, <1>6, <1>7, <1>8, <1>9 DEF ReqStep

LEMMA ArrivalIsToldTrue ==
  ASSUME IInv, NEW q \in Reqs, NEW p \in Procs, NEW op \in Ops, Arrive(q, p, op),
         NEW r \in Reqs, req[r].pc # "done", req'[r].pc = "done"
  PROVE  ToldTrue(r)
<1>1. CASE q = r
  <2>1. CASE \E code \in {"starting", "exists", "ok"} : req' = [req EXCEPT ![r] = Answered(code)]
    BY <2>1, AnsweredType DEF IInv, TypeOK, ToldTrue
  <2>2. CASE ~catalog /\ req' = [req EXCEPT ![r] = Answered("missing")]
    BY <2>2, AnsweredType DEF IInv, TypeOK, ToldTrue
  <2>3. CASE req'[r].pc \in {"lock", "touch"}
    BY <2>3
  <2>4. \A t \in ReqTypes, pc \in {"lock", "touch"} : [t EXCEPT !.pc = pc].pc = pc
    BY DEF ReqTypes
  <2> DEFINE new == [NoReq EXCEPT !.op = op, !.proc = p, !.gone = ~catalog \/ Deleting]
  <2>5. new \in ReqTypes
    <3>1. (~catalog \/ Deleting) \in BOOLEAN
      BY DEF IInv, TypeOK, Deleting
    <3>2. QED  BY <3>1, NoReqType DEF ReqTypes
  <2>6. CASE req' = [req EXCEPT ![r] = [new EXCEPT !.pc = "touch"]]
    BY <2>3, <2>4, <2>5, <2>6 DEF IInv, TypeOK
  <2>7. CASE req' = [s \in Reqs |-> IF s = r THEN [new EXCEPT !.pc = "lock"]
                                   ELSE [req[s] EXCEPT !.gone = TRUE]]
    BY <2>3, <2>4, <2>5, <2>7
  <2>8. catalog \in BOOLEAN
    BY DEF IInv, TypeOK
  <2>9. QED  BY <1>1, <2>1, <2>2, <2>6, <2>7, <2>8 DEF Arrive
<1>2. CASE q # r
  <2>1. \A t \in ReqTypes : [t EXCEPT !.gone = TRUE].pc = t.pc
    BY DEF ReqTypes
  <2>2. req'[r].pc = req[r].pc
    BY <1>2, <2>1 DEF Arrive, IInv, TypeOK
  <2>3. QED  BY <2>2
<1>3. QED  BY <1>1, <1>2

\* A 404 is only given for a name that was missing or being deleted while the request
\* ran, a 503 only for one that exists, and no request fails over its collection's end.
THEOREM AnswersAreTrueAlways == Spec => AnswersAreTrue
<1> DEFINE Told == \A r \in Reqs : req[r].pc # "done" /\ req'[r].pc = "done" =>
       /\ req'[r].code = "missing" => req[r].gone \/ ~catalog
       /\ req'[r].code = "retry" => catalog
       /\ req'[r].code = "error" /\ req[r].obj # 0 => ~Closed(req[r].obj)
<1>1. IInv /\ [Next]_vars => [Told]_vars
  <2> SUFFICES ASSUME IInv, Next, NEW r \in Reqs, req[r].pc # "done", req'[r].pc = "done"
               PROVE  ToldTrue(r)
    BY DEF ToldTrue
  <2>1. CASE UNCHANGED req
    BY <2>1
  <2>2. ASSUME NEW p \in Procs, Dies(p)  PROVE FALSE
    BY <2>2, NoReqType DEF Dies, IInv, TypeOK
  <2>3. ASSUME NEW p \in Procs, ProcStep(p) \/ StartFails(p) \/ Evict(p) \/ Launch(p) \/ Term(p)
                                \/ TermAtWill(p) \/ Kill(p)
        PROVE  ToldTrue(r)
    BY <2>1, <2>2, <2>3 DEF ProcStep, Poll, OpenCatalog, Boot, Drained, ShutdownEvicts, Exits,
       StartFails, Evict, Launch, Term, TermAtWill, Kill
  <2>4. ASSUME NEW g \in Objs, LoadStep(g)  PROVE ToldTrue(r)
    <3>1. req'[r] = [req[r] EXCEPT !.pc = "have", !.obj = g] \/ req'[r] = req[r]
      BY <2>4 DEF LoadStep, IInv, TypeOK
    <3>2. QED  BY <3>1 DEF IInv, TypeOK, ReqTypes
  <2>5. ASSUME NEW g \in Objs, ObjStep(g)  PROVE ToldTrue(r)
    BY <2>1, <2>4, <2>5 DEF ObjStep, StopCloses, StopEnds, Work
  <2>6. ASSUME NEW g \in Objs, LoadFails(g)  PROVE ToldTrue(r)
    <3>1. CASE r = obj[g].by
      <4>1. req[r].obj = 0
        BY <2>6, <3>1 DEF LoadFails, IInv, LoadInv
      <4>2. req'[r].code = "error"
        BY <2>6, <3>1, AnswersEffect DEF LoadFails, IInv, ReqDone
      <4>3. QED  BY <4>1, <4>2 DEF ToldTrue
    <3>2. CASE r # obj[g].by
      BY <2>6, <3>2 DEF LoadFails, Answers, IInv, TypeOK
    <3>3. QED  BY <3>1, <3>2
  <2>7. ASSUME NEW q \in Reqs, ReqStep(q)  PROVE ToldTrue(r)
    BY <2>7, OthersStay, OwnStepIsTrue DEF IInv
  <2>8. QED  BY <2>3, <2>5, <2>6, <2>7, ArrivalIsToldTrue DEF Next
<1>2. QED  BY <1>1, ServiceInvariant, PTL DEF Spec, AnswersAreTrue

\* stop() leaves no HTTP client behind, whatever requests do with the collection.
THEOREM ClientsAreClosed == Spec => []NoClientLeak
<1>1. IInv => NoClientLeak
  BY DEF IInv
<1>2. QED  BY <1>1, ServiceInvariant, PTL

-----------------------------------------------------------------------------
\* The database of the collection: MetaDb's steps, and who runs them when.
\* One object at a time has the database open, or may open it: while a DELETE stops
\* one it is that one, and none is left once the DELETE removes the files.
AloneInv ==
  /\ \A g, h \in Objs : obj[g].st \in Live /\ obj[h].st \in Live => g = h
  /\ \A r \in Reqs : req[r].pc = "stopping" =>
       /\ req[r].obj \in Objs
       /\ obj[req[r].obj].st \in {"stopping", "closing", "closed"}
       /\ obj[req[r].obj].proc = req[r].proc
       /\ \A g \in Objs : obj[g].st \in Live => g = req[r].obj
  /\ \A r \in Reqs : req[r].pc = "rmtree" =>
       ~catalog /\ \A g \in Objs : obj[g].st \notin Live

\* What the first k - 1 steps of open_meta_db leave, whoever writes to the database
\* meanwhile.
Passed(d, k) ==
  /\ k > 1 => d.tables
  /\ k > 2 => (d.keyed => d.suffixed)
  /\ k > 3 => "doc_type" \in d.indexes
  /\ k > 4 => "doc" \notin d.indexes
  /\ k > 5 => "jobs_open" \in d.indexes
  /\ k > 6 => d.fts = Wanted(d)
  /\ k > 7 => d.vocab

MigrationInv ==
  \A g \in Objs : /\ obj[g].st = "loading" => obj[g].at \in 1..7 /\ Passed(db, obj[g].at)
                  /\ obj[g].st \in {"open", "stopping"} => Passed(db, 8)

\* Whatever state the migration is in, a full text index that exists holds the records.
DbTypes ==
  [keyed : BOOLEAN, tables : BOOLEAN, suffixed : BOOLEAN, vocab : BOOLEAN, jobs : BOOLEAN,
   indexes : SUBSET {"doc", "doc_type", "jobs_open"},
   fts : {"none", "another", Tokenizer} \X {"none", "text", "bm25_text"},
   text : Nat, metadata : Nat, suffix : Nat, entry : Nat \X Nat]
Kept(d) ==
  /\ d \in DbTypes
  /\ d.suffix = IF d.keyed THEN d.metadata ELSE 0
  /\ d.fts = NoFts \/ d.entry = Indexed(d, d.fts)

SchemaInv == AloneInv /\ MigrationInv /\ Kept(db)

-----------------------------------------------------------------------------
LEMMA WantedType ==
  ASSUME NEW d \in DbTypes
  PROVE  /\ Wanted(d) \in {"none", "another", Tokenizer} \X {"none", "text", "bm25_text"}
         /\ Wanted(d) # NoFts
BY MetaDbAssumption DEF Wanted, NoFts, DbTypes

LEMMA IndexedType ==
  ASSUME NEW d \in DbTypes, NEW layout  PROVE Indexed(d, layout) \in Nat \X Nat
BY DEF Indexed, DbTypes

LEMMA NothingKept ==
  ASSUME NEW keyed \in BOOLEAN
  PROVE  Kept(Nothing(keyed)) /\ Nothing(keyed).keyed = keyed
BY DEF Kept, Nothing, DbTypes, NoFts, Indexed

\* _ensure_fts leaves the index it wants, with the records.
LEMMA EnsureKeeps ==
  ASSUME NEW d, Kept(d)
  PROVE  /\ Kept(EnsureFts(d))
         /\ EnsureFts(d).fts = Wanted(d)
         /\ EnsureFts(d).keyed = d.keyed /\ EnsureFts(d).tables = d.tables
         /\ EnsureFts(d).suffixed = d.suffixed /\ EnsureFts(d).indexes = d.indexes
         /\ EnsureFts(d).vocab = d.vocab
<1>1. CASE d.fts = Wanted(d)
  BY <1>1 DEF EnsureFts
<1>2. CASE d.fts # Wanted(d)
  <2> DEFINE w == Wanted(d)
             i == Indexed(d, w)
             e == [d EXCEPT !.fts = w, !.entry = i]
  <2>1. /\ d \in DbTypes /\ w \in {"none", "another", Tokenizer} \X {"none", "text", "bm25_text"}
        /\ i \in Nat \X Nat
    BY WantedType, IndexedType DEF Kept
  <2>2. EnsureFts(d) = e
    BY <1>2 DEF EnsureFts
  <2>3. /\ e \in DbTypes /\ e.fts = w /\ e.entry = i /\ e.keyed = d.keyed /\ e.tables = d.tables
        /\ e.suffixed = d.suffixed /\ e.indexes = d.indexes /\ e.vocab = d.vocab
        /\ e.text = d.text /\ e.metadata = d.metadata /\ e.suffix = d.suffix
    <3> HIDE DEF w, i
    <3>1. QED  BY <2>1 DEF DbTypes
  <2>4. Indexed(e, w) = i
    <3> HIDE DEF w, e
    <3>1. QED  BY <2>3 DEF Indexed
  <2>5. Kept(e)
    <3> HIDE DEF w, e, i
    <3>1. QED  BY <2>3, <2>4 DEF Kept
  <2>6. QED  BY <2>2, <2>3, <2>5
<1>3. QED  BY <1>1, <1>2

\* A step that changes neither the rows nor the full text index.
SameRows(d, e) ==
  /\ e \in DbTypes /\ e.keyed = d.keyed /\ e.fts = d.fts /\ e.entry = d.entry
  /\ e.text = d.text /\ e.metadata = d.metadata /\ e.suffix = d.suffix

LEMMA SameRowsKeep ==
  ASSUME NEW d, Kept(d), NEW e, SameRows(d, e)
  PROVE  Kept(e) /\ Wanted(e) = Wanted(d)
<1>1. Indexed(e, e.fts) = Indexed(d, d.fts)
  BY DEF Indexed, SameRows
<1>2. QED  BY <1>1 DEF Kept, SameRows, Wanted

\* Each step of open_meta_db keeps what its earlier ones did, and does its own part.
Advances(d, e, k) ==
  /\ Kept(e) /\ e.keyed = d.keyed
  /\ \A j \in 1..8 : Passed(d, j) => Passed(e, j)
  /\ Passed(d, k) => Passed(e, k + 1)
  /\ Passed(d, k) /\ DocIndexed(d) => DocIndexed(e)

LEMMA RunKeeps ==
  ASSUME NEW d, Kept(d), NEW k \in 1..7
  PROVE  Advances(d, Run(d, OpenSteps[k]), k)
<1>0. d \in DbTypes
  BY DEF Kept
<1>1. CASE k = 1
  <2> DEFINE e == [d EXCEPT !.tables = TRUE]
  <2>1. Run(d, OpenSteps[k]) = e
    BY <1>1 DEF Run, OpenSteps
  <2>2. /\ SameRows(d, e)
        /\ e.tables /\ e.suffixed = d.suffixed /\ e.indexes = d.indexes /\ e.vocab = d.vocab
    BY <1>0 DEF DbTypes, SameRows
  <2> HIDE DEF e
  <2>3. Advances(d, e, k)
    BY <1>1, <2>2, SameRowsKeep DEF Advances, Passed, DocIndexed, SameRows
  <2>4. QED  BY <2>1, <2>3
<1>2. CASE k = 2
  <2> DEFINE e == [d EXCEPT !.suffixed = @ \/ d.keyed]
  <2>1. Run(d, OpenSteps[k]) = e
    BY <1>2 DEF Run, OpenSteps
  <2>2. /\ SameRows(d, e)
        /\ (d.keyed => e.suffixed) /\ (d.suffixed => e.suffixed)
        /\ e.tables = d.tables /\ e.indexes = d.indexes /\ e.vocab = d.vocab
    BY <1>0 DEF DbTypes, SameRows
  <2> HIDE DEF e
  <2>3. Advances(d, e, k)
    BY <1>2, <2>2, SameRowsKeep DEF Advances, Passed, DocIndexed, SameRows
  <2>4. QED  BY <2>1, <2>3
<1>3. CASE k = 3
  <2> DEFINE e == [d EXCEPT !.indexes = @ \cup {"doc_type"}]
  <2>1. Run(d, OpenSteps[k]) = e
    BY <1>3 DEF Run, OpenSteps
  <2>2. /\ SameRows(d, e)
        /\ e.indexes = d.indexes \cup {"doc_type"}
        /\ e.tables = d.tables /\ e.suffixed = d.suffixed /\ e.vocab = d.vocab
    BY <1>0 DEF DbTypes, SameRows
  <2> HIDE DEF e
  <2>3. Advances(d, e, k)
    BY <1>3, <2>2, SameRowsKeep DEF Advances, Passed, DocIndexed, SameRows
  <2>4. QED  BY <2>1, <2>3
<1>4. CASE k = 4
  <2> DEFINE e == [d EXCEPT !.indexes = @ \ {"doc"}]
  <2>1. Run(d, OpenSteps[k]) = e
    BY <1>4 DEF Run, OpenSteps
  <2>2. /\ SameRows(d, e)
        /\ e.indexes = d.indexes \ {"doc"}
        /\ e.tables = d.tables /\ e.suffixed = d.suffixed /\ e.vocab = d.vocab
    BY <1>0 DEF DbTypes, SameRows
  <2> HIDE DEF e
  <2>3. Advances(d, e, k)
    BY <1>4, <2>2, SameRowsKeep DEF Advances, Passed, DocIndexed, SameRows
  <2>4. QED  BY <2>1, <2>3
<1>5. CASE k = 5
  <2> DEFINE e == [d EXCEPT !.indexes = @ \cup {"jobs_open"}]
  <2>1. Run(d, OpenSteps[k]) = e
    BY <1>5 DEF Run, OpenSteps
  <2>2. /\ SameRows(d, e)
        /\ e.indexes = d.indexes \cup {"jobs_open"}
        /\ e.tables = d.tables /\ e.suffixed = d.suffixed /\ e.vocab = d.vocab
    BY <1>0 DEF DbTypes, SameRows
  <2> HIDE DEF e
  <2>3. Advances(d, e, k)
    BY <1>5, <2>2, SameRowsKeep DEF Advances, Passed, DocIndexed, SameRows
  <2>4. QED  BY <2>1, <2>3
<1>6. CASE k = 6
  <2>1. Run(d, OpenSteps[k]) = EnsureFts(d)
    BY <1>6 DEF Run, OpenSteps
  <2>2. Wanted(EnsureFts(d)) = Wanted(d)
    BY EnsureKeeps DEF Wanted
  <2>3. QED  BY <1>6, <2>1, <2>2, EnsureKeeps DEF Advances, Passed, DocIndexed
<1>7. CASE k = 7
  <2> DEFINE e == [d EXCEPT !.vocab = TRUE]
  <2>1. Run(d, OpenSteps[k]) = e
    BY <1>7 DEF Run, OpenSteps
  <2>2. /\ SameRows(d, e)
        /\ e.vocab /\ e.tables = d.tables /\ e.suffixed = d.suffixed /\ e.indexes = d.indexes
    BY <1>0 DEF DbTypes, SameRows
  <2> HIDE DEF e
  <2>3. Advances(d, e, k)
    BY <1>7, <2>2, SameRowsKeep DEF Advances, Passed, DocIndexed, SameRows
  <2>4. QED  BY <2>1, <2>3
<1>8. QED  BY <1>1, <1>2, <1>3, <1>4, <1>5, <1>6, <1>7

\* A new database has been through all of them.
LEMMA FreshKept ==
  ASSUME NEW keyed \in BOOLEAN
  PROVE  Kept(Fresh(keyed)) /\ Passed(Fresh(keyed), 8) /\ Fresh(keyed).keyed = keyed
<1> DEFINE d == [Nothing(keyed) EXCEPT !.tables = TRUE, !.suffixed = keyed,
                                       !.indexes = {"doc_type", "jobs_open"}, !.vocab = TRUE]
<1>1. /\ Kept(d) /\ d.tables /\ d.suffixed = keyed /\ d.keyed = keyed /\ d.vocab
      /\ d.indexes = {"doc_type", "jobs_open"}
  BY DEF Kept, Nothing, DbTypes, NoFts, Indexed
<1>2. Fresh(keyed) = EnsureFts(d)
  BY DEF Fresh
<1> HIDE DEF d
<1>3. QED  BY <1>1, <1>2, EnsureKeeps DEF Passed, Wanted

\* Fresh is what the steps of open_meta_db make of no database, one after the other.
LEMMA FreshIsOpened ==
  ASSUME NEW keyed \in BOOLEAN, NEW s,
         s[0] = Nothing(keyed), \A k \in 1..7 : s[k] = Run(s[k - 1], OpenSteps[k])
  PROVE  s[7] = Fresh(keyed)
<1> DEFINE n == Nothing(keyed)
           n1 == [n EXCEPT !.tables = TRUE]
           n2 == [n1 EXCEPT !.suffixed = keyed]
           n3 == [n2 EXCEPT !.indexes = {"doc_type"}]
           n5 == [n2 EXCEPT !.indexes = {"doc_type", "jobs_open"}]
           n6 == EnsureFts(n5)
<1>0. /\ s[1] = Run(s[0], "tables") /\ s[2] = Run(s[1], "columns") /\ s[3] = Run(s[2], "doc_type")
      /\ s[4] = Run(s[3], "drop doc") /\ s[5] = Run(s[4], "jobs_open")
  <2>1. /\ OpenSteps[1] = "tables" /\ OpenSteps[2] = "columns" /\ OpenSteps[3] = "doc_type"
        /\ OpenSteps[4] = "drop doc" /\ OpenSteps[5] = "jobs_open"
    BY DEF OpenSteps
  <2>2. /\ s[1] = Run(s[1 - 1], OpenSteps[1]) /\ s[2] = Run(s[2 - 1], OpenSteps[2])
        /\ s[3] = Run(s[3 - 1], OpenSteps[3]) /\ s[4] = Run(s[4 - 1], OpenSteps[4])
        /\ s[5] = Run(s[5 - 1], OpenSteps[5])
    OBVIOUS
  <2>3. 1 - 1 = 0 /\ 2 - 1 = 1 /\ 3 - 1 = 2 /\ 4 - 1 = 3 /\ 5 - 1 = 4
    OBVIOUS
  <2>4. QED  BY <2>1, <2>2, <2>3, Zenon
<1>01. s[6] = Run(s[5], "fts") /\ s[7] = Run(s[6], "vocab")
  <2>1. OpenSteps[6] = "fts" /\ OpenSteps[7] = "vocab"
    BY DEF OpenSteps
  <2>2. s[6] = Run(s[6 - 1], OpenSteps[6]) /\ s[7] = Run(s[7 - 1], OpenSteps[7])
    OBVIOUS
  <2>3. QED  BY <2>1, <2>2
<1>1. s[1] = n1
  <2>1. s[1] = Run(n, "tables")
    BY <1>0
  <2>2. QED  BY <2>1 DEF Run
<1>2. s[2] = n2
  <2>1. s[2] = Run(n1, "columns")
    BY <1>0, <1>1
  <2>2. n1.suffixed = FALSE /\ n1.keyed = keyed
    BY DEF Nothing
  <2>3. (n1.suffixed \/ n1.keyed) = keyed
    BY <2>2
  <2> HIDE DEF n1
  <2>4. Run(n1, "columns") = [n1 EXCEPT !.suffixed = n1.suffixed \/ n1.keyed]
    BY DEF Run
  <2>5. QED  BY <2>1, <2>3, <2>4
<1>3. s[3] = n3
  <2>1. s[3] = Run(n2, "doc_type")
    BY <1>0, <1>2
  <2>2. n2.indexes \cup {"doc_type"} = {"doc_type"}
    BY DEF Nothing
  <2> HIDE DEF n2
  <2>3. Run(n2, "doc_type") = [n2 EXCEPT !.indexes = n2.indexes \cup {"doc_type"}]
    BY DEF Run
  <2>4. QED  BY <2>1, <2>2, <2>3
<1>4. s[4] = n3
  <2>1. s[4] = Run(n3, "drop doc")
    BY <1>0, <1>3
  <2>2. n3.indexes = {"doc_type"} /\ n3 = [n3 EXCEPT !.indexes = {"doc_type"}]
    BY DEF Nothing
  <2>3. n3.indexes \ {"doc"} = {"doc_type"}
    BY <2>2
  <2> HIDE DEF n3
  <2>4. Run(n3, "drop doc") = [n3 EXCEPT !.indexes = n3.indexes \ {"doc"}]
    BY DEF Run
  <2>5. QED  BY <2>1, <2>2, <2>3, <2>4
<1>5. s[5] = n5
  <2>1. s[5] = Run(n3, "jobs_open")
    BY <1>0, <1>4
  <2>2. n3.indexes \cup {"jobs_open"} = {"doc_type", "jobs_open"}
    BY DEF Nothing
  <2>3. n5 = [n3 EXCEPT !.indexes = {"doc_type", "jobs_open"}]
    BY DEF Nothing
  <2> HIDE DEF n3, n5
  <2>4. Run(n3, "jobs_open") = [n3 EXCEPT !.indexes = n3.indexes \cup {"jobs_open"}]
    BY DEF Run
  <2>5. QED  BY <2>1, <2>2, <2>3, <2>4
<1>6. s[6] = n6
  <2> HIDE DEF n5
  <2>1. s[6] = Run(n5, "fts")
    BY <1>01, <1>5
  <2>2. QED  BY <2>1 DEF Run
<1>7. s[7] = [n6 EXCEPT !.vocab = TRUE]
  <2> HIDE DEF n6
  <2>1. s[7] = Run(n6, "vocab")
    BY <1>01, <1>6
  <2>2. QED  BY <2>1 DEF Run
<1>8. [n6 EXCEPT !.vocab = TRUE] = EnsureFts([n5 EXCEPT !.vocab = TRUE])
  <2> DEFINE m == [n5 EXCEPT !.vocab = TRUE]
  <2>1. /\ n5.fts = NoFts /\ m.fts = NoFts /\ n5.text = 0 /\ m.text = 0
        /\ n5.keyed = m.keyed
    BY DEF Nothing
  <2>2. n5 \in DbTypes /\ m \in DbTypes
    BY DEF Nothing, DbTypes, NoFts
  <2>3. Wanted(n5) = Wanted(m) /\ Wanted(n5) # NoFts /\ Indexed(n5, Wanted(n5)) = <<0, 0>>
        /\ Indexed(m, Wanted(m)) = <<0, 0>>
    <3> HIDE DEF n5, m
    <3>1. QED  BY <2>1, <2>2, WantedType DEF Wanted, Indexed
  <2> DEFINE w == Wanted(n5)
  <2>4. /\ n6 = [n5 EXCEPT !.fts = w, !.entry = <<0, 0>>]
        /\ EnsureFts(m) = [m EXCEPT !.fts = w, !.entry = <<0, 0>>]
    <3> HIDE DEF n5, m
    <3>1. QED  BY <2>1, <2>3 DEF EnsureFts
  <2> HIDE DEF n5, n6, w
  <2>5. [n6 EXCEPT !.vocab = TRUE] = [m EXCEPT !.fts = w, !.entry = <<0, 0>>]
    BY <2>2, <2>4 DEF DbTypes
  <2>6. QED  BY <2>4, <2>5
<1>9. [n5 EXCEPT !.vocab = TRUE] = [n EXCEPT !.tables = TRUE, !.suffixed = keyed,
                                      !.indexes = {"doc_type", "jobs_open"}, !.vocab = TRUE]
  BY DEF Nothing
<1> HIDE DEF n6, n5
<1>10. QED  BY <1>7, <1>8, <1>9 DEF Fresh

\* The writers keep all of it.
LEMMA UpsertedKeeps ==
  ASSUME NEW d, Kept(d)
  PROVE  /\ Kept(Upserted(d)) /\ Upserted(d).keyed = d.keyed /\ Upserted(d).indexes = d.indexes
         /\ \A j \in 1..8 : Passed(d, j) => Passed(Upserted(d), j)
<1> DEFINE t == d.text + 1
           m == d.metadata + 1
           s == IF d.keyed THEN m ELSE 0
           n == [d EXCEPT !.text = t, !.metadata = m, !.jobs = FALSE, !.suffix = s]
           i == IF d.fts = NoFts THEN n.entry ELSE Indexed(n, d.fts)
           e == [n EXCEPT !.entry = i]
<1>1. /\ n \in DbTypes /\ n.fts = d.fts /\ n.keyed = d.keyed /\ n.tables = d.tables
      /\ n.suffixed = d.suffixed /\ n.indexes = d.indexes /\ n.vocab = d.vocab
      /\ n.suffix = IF d.keyed THEN n.metadata ELSE 0
  <2>1. d \in DbTypes /\ s \in Nat /\ t \in Nat /\ m \in Nat
    BY DEF Kept, DbTypes
  <2> HIDE DEF s, t, m
  <2>2. /\ n \in DbTypes /\ n.fts = d.fts /\ n.keyed = d.keyed /\ n.tables = d.tables
        /\ n.suffixed = d.suffixed /\ n.indexes = d.indexes /\ n.vocab = d.vocab
        /\ n.suffix = s /\ n.metadata = m
    BY <2>1 DEF DbTypes
  <2> HIDE DEF n
  <2>3. QED  BY <2>1, <2>2 DEF s
<1>2. i \in Nat \X Nat
  <2>1. n.entry \in Nat \X Nat
    BY <1>1 DEF DbTypes
  <2> HIDE DEF n
  <2>2. QED  BY <1>1, <2>1, IndexedType
<1>3. Upserted(d) = e
  BY DEF Upserted
<1> HIDE DEF n
<1>4. /\ e \in DbTypes /\ e.fts = d.fts /\ e.keyed = d.keyed /\ e.tables = d.tables
      /\ e.suffixed = d.suffixed /\ e.indexes = d.indexes /\ e.vocab = d.vocab
      /\ e.suffix = IF d.keyed THEN e.metadata ELSE 0
      /\ e.text = n.text /\ e.suffix = n.suffix /\ e.entry = i
  <2> HIDE DEF i
  <2>1. QED  BY <1>1, <1>2 DEF DbTypes
<1>5. d.fts = NoFts \/ i = Indexed(e, e.fts)
  <2> HIDE DEF e
  <2>1. QED  BY <1>4 DEF Indexed
<1> HIDE DEF e, i
<1>6. QED  BY <1>3, <1>4, <1>5 DEF Kept, Passed, Wanted

LEMMA PatchedKeeps ==
  ASSUME NEW d, Kept(d)
  PROVE  /\ Kept(Patched(d)) /\ Patched(d).keyed = d.keyed /\ Patched(d).indexes = d.indexes
         /\ \A j \in 1..8 : Passed(d, j) => Passed(Patched(d), j)
<1>1. CASE d.text = 0
  BY <1>1 DEF Patched
<1>2. CASE d.text # 0
  <2> DEFINE m == d.metadata + 1
             s == IF d.keyed THEN m ELSE 0
             n == [d EXCEPT !.metadata = m, !.suffix = s]
             i == IF d.fts[2] = "bm25_text" THEN Indexed(n, d.fts) ELSE n.entry
             e == [n EXCEPT !.entry = i]
  <2>1. /\ n \in DbTypes /\ n.fts = d.fts /\ n.keyed = d.keyed /\ n.tables = d.tables
        /\ n.suffixed = d.suffixed /\ n.indexes = d.indexes /\ n.vocab = d.vocab
        /\ n.suffix = (IF d.keyed THEN n.metadata ELSE 0) /\ n.text = d.text /\ n.entry = d.entry
    <3>1. d \in DbTypes /\ s \in Nat /\ m \in Nat
      BY DEF Kept, DbTypes
    <3> HIDE DEF s, m
    <3>2. /\ n \in DbTypes /\ n.fts = d.fts /\ n.keyed = d.keyed /\ n.tables = d.tables
          /\ n.suffixed = d.suffixed /\ n.indexes = d.indexes /\ n.vocab = d.vocab
          /\ n.suffix = s /\ n.metadata = m /\ n.text = d.text
          /\ n.entry = d.entry
      BY <3>1 DEF DbTypes
    <3> HIDE DEF n
    <3>3. QED  BY <3>1, <3>2 DEF s
  <2>2. i \in Nat \X Nat
    <3>1. n.entry \in Nat \X Nat
      BY <2>1 DEF DbTypes
    <3> HIDE DEF n
    <3>2. QED  BY <2>1, <3>1, IndexedType
  <2>3. Patched(d) = e
    BY <1>2 DEF Patched, Suffixed
  <2> HIDE DEF n
  <2>4. /\ e \in DbTypes /\ e.fts = d.fts /\ e.keyed = d.keyed /\ e.tables = d.tables
        /\ e.suffixed = d.suffixed /\ e.indexes = d.indexes /\ e.vocab = d.vocab
        /\ e.suffix = IF d.keyed THEN e.metadata ELSE 0
        /\ e.text = n.text /\ e.suffix = n.suffix /\ e.entry = i
    <3> HIDE DEF i
    <3>1. QED  BY <2>1, <2>2 DEF DbTypes
  <2>5. d.fts = NoFts \/ i = Indexed(e, e.fts)
    <3> HIDE DEF e
    <3>1. QED  BY <2>1, <2>4 DEF Indexed, Kept
  <2> HIDE DEF e, i
  <2>6. QED  BY <2>3, <2>4, <2>5 DEF Kept, Passed, Wanted
<1>3. QED  BY <1>1, <1>2

-----------------------------------------------------------------------------
\* A step that opens no database and lets no DELETE go on.
Calm ==
  /\ catalog' => catalog \/ ~Deleting
  /\ \A g \in Objs : /\ obj'[g].st \in Live => obj[g].st \in Live
                     /\ obj'[g].st = "loading" => obj[g].st = "loading" /\ obj'[g].at = obj[g].at
                     /\ obj'[g].st \in {"open", "stopping"} => obj[g].st \in {"open", "stopping"}
  /\ \A r \in Reqs : /\ req'[r].pc = "rmtree" => req[r].pc = "rmtree" /\ req[r].op = "delete"
                     /\ req'[r].pc = "stopping" =>
                          /\ req[r].pc = "stopping" /\ req'[r].obj = req[r].obj
                          /\ req'[r].proc = req[r].proc
                          /\ obj'[req[r].obj].proc = obj[req[r].obj].proc
                          /\ obj'[req[r].obj].st \in {"stopping", "closing", "closed"}

LEMMA CalmKeeps ==
  ASSUME SchemaInv, Calm, Kept(db'), \A j \in 1..8 : Passed(db, j) => Passed(db', j)
  PROVE  SchemaInv'
<1>1. AloneInv'
  BY DEF SchemaInv, AloneInv, Calm, Deleting
<1>2. MigrationInv'
  BY DEF SchemaInv, MigrationInv, Calm
<1>3. QED  BY <1>1, <1>2 DEF SchemaInv

LEMMA CalmOnDisk ==
  ASSUME SchemaInv, Calm, UNCHANGED db  PROVE SchemaInv'
BY CalmKeeps DEF SchemaInv

LEMMA DiesIsCalm ==
  ASSUME IInv, SchemaInv, NEW p \in Procs, Dies(p), UNCHANGED disk  PROVE SchemaInv'
<1>1. /\ \A g \in Objs : obj'[g] = IF obj[g].proc = p THEN NoObj ELSE obj[g]
      /\ \A r \in Reqs : req'[r] = IF req[r].proc = p THEN NoReq ELSE req[r]
  BY DEF Dies
<1>2. \A r \in Reqs : req'[r].pc \in {"stopping", "rmtree"} => req'[r] = req[r] /\ req[r].proc # p
  BY <1>1, NoReqType
<1>3. \A r \in Reqs : req[r].pc = "rmtree" => req[r].op = "delete"
  BY DEF IInv, DeleteInv, Running, DeletePCs
<1>4. \A g \in Objs : obj'[g] = obj[g] \/ obj'[g].st = "none"
  BY <1>1, NoObjType
<1>5. Calm
  BY <1>1, <1>2, <1>3, <1>4 DEF Calm, Live, disk, SchemaInv, AloneInv
<1>6. QED  BY <1>5, CalmOnDisk DEF disk

\* The steps of one object, or of one request.
LEMMA ObjIsCalm ==
  ASSUME IInv, SchemaInv, UNCHANGED <<catalog, db, req>>, NEW g \in Objs, OneObj(g),
         obj'[g].proc = obj[g].proc,
         \/ obj[g].st = "open" /\ obj'[g].st = "stopping"
         \/ obj[g].st = "stopping" /\ obj'[g].st = "closing"
         \/ obj[g].st = "closing" /\ obj'[g].st = "closed"
         \/ obj[g].st = obj'[g].st /\ obj[g].at = obj'[g].at
  PROVE  SchemaInv'
<1>1. \A r \in Reqs : req[r].pc = "rmtree" => req[r].op = "delete"
  BY DEF IInv, DeleteInv, Running, DeletePCs
<1>2. Calm
  BY <1>1 DEF Calm, Live, OneObj, SchemaInv, AloneInv
<1>3. QED  BY <1>2, CalmOnDisk

LEMMA ReqIsCalm ==
  ASSUME IInv, SchemaInv, UNCHANGED obj, catalog' => catalog \/ ~Deleting,
         Kept(db'), \A j \in 1..8 : Passed(db, j) => Passed(db', j),
         \A r \in Reqs : req'[r].pc \in {"stopping", "rmtree"} =>
           /\ req'[r].pc = req[r].pc /\ req'[r].obj = req[r].obj /\ req'[r].proc = req[r].proc
  PROVE  SchemaInv'
<1>1. \A r \in Reqs : req[r].pc = "rmtree" => req[r].op = "delete"
  BY DEF IInv, DeleteInv, Running, DeletePCs
<1>2. Calm
  BY <1>1 DEF Calm, SchemaInv, AloneInv
<1>3. QED  BY <1>2, CalmKeeps

\* A collection is loaded when no object has it open.
LEMMA NoneLive ==
  ASSUME IInv, NEW p \in Procs, flock = p, ~Locked(p), Resident(p) = {}
  PROVE  \A g \in Objs : obj[g].st \notin Live
BY DEF IInv, LockInv, Live, Locked, Resident, Of

LEMMA LoadMigrates ==
  ASSUME IInv, SchemaInv, NEW p \in Procs, flock = p, ~Locked(p), Resident(p) = {},
         NEW by \in Reqs \cup {"boot"}, Load(p, by), UNCHANGED <<catalog, db>>, catalog = TRUE,
         \A r \in Reqs : req'[r] = req[r] \/ req'[r].pc \notin {"stopping", "rmtree"}
  PROVE  SchemaInv'
<1>1. \A g \in Objs : obj[g].st \notin Live
  BY NoneLive
<1>2. PICK g \in Objs : /\ Free(g)
                        /\ obj' = [obj EXCEPT ![g] = [NoObj EXCEPT !.proc = p, !.st = "loading",
                                                                  !.at = 1, !.by = by]]
  BY DEF Load
<1>3. /\ obj'[g].st = "loading" /\ obj'[g].at = 1
      /\ \A h \in Objs \ {g} : obj'[h] = obj[h]
  BY <1>2 DEF IInv, TypeOK, NoObj
<1>4. \A r \in Reqs : req'[r].pc \notin {"stopping", "rmtree"}
  <2>1. \A r \in Reqs : req[r].pc # "rmtree"
    BY DEF SchemaInv, AloneInv
  <2>2. ASSUME NEW r \in Reqs, req[r].pc = "stopping"  PROVE FALSE
    BY <2>2 DEF IInv, LockInv, Running, Locked, Pending
  <2>3. QED  BY <2>1, <2>2
<1>5. AloneInv'
  BY <1>1, <1>3, <1>4 DEF AloneInv, Live
<1>6. MigrationInv'
  BY <1>1, <1>3 DEF MigrationInv, Live, Passed
<1>7. QED  BY <1>5, <1>6 DEF SchemaInv

LEMMA BootMigrates ==
  ASSUME IInv, SchemaInv, NEW p \in Procs, Boot(p)
  PROVE  SchemaInv'
<1>1. start[p] = "booting" /\ ~Locked(p) /\ flock = p /\ UNCHANGED <<catalog, db, req>>
  BY DEF Boot, disk, IInv, LockInv
<1>2. CASE catalog /\ Resident(p) = {} /\ Load(p, "boot")
  BY <1>1, <1>2, LoadMigrates DEF IInv, TypeOK
<1>3. CASE UNCHANGED obj
  BY <1>1, <1>3, ReqIsCalm DEF SchemaInv
<1>4. QED  BY <1>2, <1>3 DEF Boot

LEMMA StartFailsMigrates ==
  ASSUME IInv, SchemaInv, NEW p \in Procs, StartFails(p)
  PROVE  SchemaInv'
<1>1. CASE Dies(p)
  BY <1>1, DiesIsCalm DEF StartFails
<1>2. CASE ~Dies(p)
  <2>1. /\ obj' = [g \in Objs |-> IF g \in Of(p) /\ obj[g].st = "loading"
                                  THEN [obj[g] EXCEPT !.st = "failed"] ELSE obj[g]]
        /\ UNCHANGED <<req, catalog, db>>
    BY <1>2 DEF StartFails, disk
  <2>2. \A g \in Objs : \/ obj'[g] = obj[g]
                        \/ /\ obj'[g].st = "failed" /\ obj[g].st = "loading"
                           /\ obj'[g].proc = obj[g].proc
    BY <2>1 DEF IInv, TypeOK, ObjTypes
  <2>3. \A r \in Reqs : req[r].pc = "rmtree" => req[r].op = "delete"
    BY DEF IInv, DeleteInv, Running, DeletePCs
  <2>4. Calm
    BY <2>1, <2>2, <2>3 DEF Calm, Live, SchemaInv, AloneInv
  <2>5. QED  BY <2>1, <2>4, CalmOnDisk
<1>3. QED  BY <1>1, <1>2

LEMMA LoadStepMigrates ==
  ASSUME IInv, SchemaInv, NEW g \in Objs, LoadStep(g)
  PROVE  SchemaInv'
<1> DEFINE k == obj[g].at
<1>1. /\ obj[g].st = "loading" /\ k \in 1..7 /\ Kept(db) /\ Passed(db, k)
      /\ db' = Run(db, OpenSteps[k]) /\ UNCHANGED catalog
  BY DEF LoadStep, SchemaInv, MigrationInv
<1>2. Advances(db, db', k)
  BY <1>1, RunKeeps
<1>3. /\ \A h \in Objs \ {g} : obj'[h] = obj[h]
      /\ obj'[g].proc = obj[g].proc
      /\ \/ obj'[g].st = "loading" /\ obj'[g].at = k + 1 /\ k < 7
         \/ obj'[g].st = "open" /\ k = 7
  <2>1. Len(OpenSteps) = 7
    BY DEF OpenSteps
  <2>2. CASE k < 7
    <3>1. obj' = [obj EXCEPT ![g].at = @ + 1]
      BY <2>1, <2>2 DEF LoadStep
    <3>2. QED  BY <1>1, <2>2, <3>1 DEF IInv, TypeOK, ObjTypes
  <2>3. CASE k = 7
    <3>0. ~(obj[g].at < Len(OpenSteps))
      BY <2>1, <2>3
    <3>1. Becomes(g, "open")
      BY <3>0 DEF LoadStep
    <3>2. ObjGoes(g, "open")
      BY <3>1, BecomesEffect DEF IInv
    <3>3. QED  BY <2>3, <3>2 DEF ObjGoes, OneObj
  <2>4. QED  BY <1>1, <2>2, <2>3
<1>4. \A r \in Reqs : req'[r] = req[r] \/ (req[r].pc = "loading" /\ req'[r].pc = "have")
  <2>1. CASE UNCHANGED req
    BY <2>1
  <2>2. CASE req' = [r \in Reqs |-> IF r = obj[g].by
                                   THEN [req[r] EXCEPT !.pc = "have", !.obj = g] ELSE req[r]]
    <3>1. \A r \in Reqs : r # obj[g].by => req'[r] = req[r]
      BY <2>2
    <3>2. ASSUME obj[g].by \in Reqs
          PROVE  req[obj[g].by].pc = "loading" /\ req'[obj[g].by].pc = "have"
      <4>1. req[obj[g].by].pc = "loading"
        BY <1>1, <3>2 DEF IInv, LoadInv
      <4>2. req'[obj[g].by] = [req[obj[g].by] EXCEPT !.pc = "have", !.obj = g]
        BY <2>2, <3>2
      <4>3. req[obj[g].by] \in ReqTypes
        BY <3>2 DEF IInv, TypeOK
      <4>4. [req[obj[g].by] EXCEPT !.pc = "have", !.obj = g].pc = "have"
        BY <4>3 DEF ReqTypes
      <4>5. QED  BY <4>1, <4>2, <4>4
    <3>3. QED  BY <3>1, <3>2
  <2>3. QED  BY <2>1, <2>2 DEF LoadStep
<1>5. AloneInv'
  BY <1>1, <1>3, <1>4 DEF SchemaInv, AloneInv, Live
<1>6. MigrationInv'
  <2>1. \A j \in 1..8 : Passed(db, j) => Passed(db', j)
    BY <1>2 DEF Advances
  <2>2. Passed(db', k + 1)
    BY <1>1, <1>2 DEF Advances
  <2>3. k = 7 => k + 1 = 8
    OBVIOUS
  <2>4. QED  BY <1>1, <1>3, <2>1, <2>2, <2>3 DEF SchemaInv, MigrationInv
<1>7. QED  BY <1>2, <1>5, <1>6 DEF SchemaInv, Advances

LEMMA LoadFailsMigrates ==
  ASSUME IInv, SchemaInv, NEW g \in Objs, LoadFails(g)
  PROVE  SchemaInv'
<1>1. obj[g].st = "loading" /\ ObjGoes(g, "failed") /\ ReqDone(obj[g].by, "error")
      /\ UNCHANGED <<catalog, db>>
  BY BecomesEffect, AnswersEffect DEF LoadFails, disk, IInv
<1>2. \A r \in Reqs : req[r].pc = "rmtree" => req[r].op = "delete"
  BY DEF IInv, DeleteInv, Running, DeletePCs
<1>3. Calm
  BY <1>1, <1>2 DEF Calm, Live, ObjGoes, OneObj, ReqDone, OneReq, SchemaInv, AloneInv
<1>4. QED  BY <1>1, <1>3, CalmOnDisk

LEMMA ObjStepsMigrate ==
  ASSUME IInv, SchemaInv, NEW g \in Objs, StopCloses(g) \/ StopEnds(g) \/ Work(g)
  PROVE  SchemaInv'
<1>1. CASE StopCloses(g)
  <2>1. ObjGoes(g, "closing")
    BY <1>1, BecomesEffect DEF StopCloses, IInv
  <2>2. QED  BY <1>1, <2>1, ObjIsCalm DEF StopCloses, ObjGoes, disk
<1>2. CASE StopEnds(g)
  <2> DEFINE c == IF obj[g].client = "open" THEN "closed" ELSE obj[g].client
             o == [obj[g] EXCEPT !.st = "closed", !.client = c]
  <2>1. c \in {"none", "open", "closed"} /\ obj[g] \in ObjTypes
    BY DEF IInv, TypeOK, ObjTypes
  <2>2. obj' = [obj EXCEPT ![g] = o]
    BY <1>2 DEF IInv, TypeOK, ObjTypes, StopEnds
  <2> HIDE DEF c
  <2>3. o \in ObjTypes /\ o.st = "closed" /\ o.proc = obj[g].proc
    BY <2>1 DEF ObjTypes
  <2> HIDE DEF o
  <2>4. obj[g].st = "closing" /\ OneObj(g) /\ obj'[g] = o /\ UNCHANGED <<catalog, db, req>>
    BY <1>2, <2>2, <2>3 DEF StopEnds, IInv, TypeOK, OneObj, disk
  <2>5. QED  BY <2>3, <2>4, ObjIsCalm
<1>3. CASE Work(g)
  BY <1>3, UpsertedKeeps, ReqIsCalm DEF Work, SchemaInv
<1>4. QED  BY <1>1, <1>2, <1>3

LEMMA EvictsMigrate ==
  ASSUME IInv, SchemaInv, NEW p \in Procs, Evict(p) \/ ShutdownEvicts(p)
  PROVE  SchemaInv'
<1>1. PICK g \in Resident(p) : Becomes(g, "stopping")
  BY DEF Evict, ShutdownEvicts
<1>2. g \in Objs /\ obj[g].st = "open" /\ UNCHANGED <<catalog, db, req>>
  BY <1>1 DEF Resident, Of, Evict, ShutdownEvicts, disk
<1>3. ObjGoes(g, "stopping")
  BY <1>1, <1>2, BecomesEffect DEF IInv
<1>4. QED  BY <1>2, <1>3, ObjIsCalm DEF ObjGoes

LEMMA TouchMigrates ==
  ASSUME IInv, SchemaInv, NEW r \in Reqs, Touch(r)
  PROVE  SchemaInv'
<1> DEFINE p == req[r].proc
<1>1. req[r].pc = "touch" /\ UNCHANGED <<catalog, db>> /\ p \in Procs /\ flock = p
  BY DEF Touch, disk, IInv, TypeOK, ReqTypes, LockInv, Running
<1>2. CASE Resident(p) # {}
  <2>1. PICK g \in Resident(p) : req' = [req EXCEPT ![r].pc = "have", ![r].obj = g] /\ UNCHANGED obj
    BY <1>2 DEF Touch
  <2>2. g \in Objs
    BY <2>1 DEF Resident, Of
  <2>3. ReqGets(r, g)
    BY <2>1, <2>2, GetsEffect DEF IInv
  <2>4. QED  BY <1>1, <2>1, <2>3, ReqIsCalm DEF ReqGets, OneReq, SchemaInv
<1>3. CASE Resident(p) = {} /\ catalog
  <2>1. ~Locked(p) /\ Load(p, r) /\ Sets(r, "loading") /\ catalog = TRUE
    BY <1>3 DEF Touch, IInv, TypeOK
  <2>2. ReqGoes(r, "loading")
    BY <2>1, SetsEffect DEF IInv
  <2>3. QED  BY <1>1, <1>3, <2>1, <2>2, LoadMigrates DEF ReqGoes, OneReq
<1>4. CASE Resident(p) = {} /\ ~catalog
  <2>1. Answers(r, "missing") /\ UNCHANGED obj
    BY <1>4 DEF Touch
  <2>2. ReqDone(r, "missing")
    BY <2>1, AnswersEffect DEF IInv
  <2>3. QED  BY <1>1, <2>1, <2>2, ReqIsCalm DEF ReqDone, OneReq, SchemaInv
<1>5. QED  BY <1>2, <1>3, <1>4

\* A request that goes on, or ends, without a file of the collection.
LEMMA AnswersMigrate ==
  ASSUME IInv, SchemaInv, UNCHANGED <<catalog, obj>>, NEW r \in Reqs, OneReq(r),
         req'[r].pc \notin {"stopping", "rmtree"},
         Kept(db'), \A j \in 1..8 : Passed(db, j) => Passed(db', j)
  PROVE  SchemaInv'
BY ReqIsCalm DEF OneReq

LEMMA RequestMigrates ==
  ASSUME IInv, SchemaInv, NEW r \in Reqs,
         Use(r) \/ EmbedEnds(r) \/ Scan(r) \/ HandlesClosed(r)
  PROVE  SchemaInv'
<1>1. UNCHANGED <<catalog, obj>>
  BY DEF Use, EmbedEnds, Scan, HandlesClosed, disk
<1>2. OneReq(r) /\ req'[r].pc \notin {"stopping", "rmtree"}
  <2>1. \/ RaisesClosed(r) \/ Sets(r, "scan")
        \/ \E code \in {"ok", "error", "retry", "missing"} : Answers(r, code)
    BY DEF Use, EmbedEnds, Scan, HandlesClosed
  <2>2. QED  BY <2>1, RaisesEffect, SetsEffect, AnswersEffect DEF IInv, ReqGoes, ReqDone
<1>3. Kept(db') /\ \A j \in 1..8 : Passed(db, j) => Passed(db', j)
  <2>1. CASE UNCHANGED db
    BY <2>1 DEF SchemaInv
  <2>2. CASE db' = Patched(db)
    BY <2>2, PatchedKeeps DEF SchemaInv
  <2>3. CASE db' = [db EXCEPT !.jobs = TRUE]
    <3> DEFINE e == [db EXCEPT !.jobs = TRUE]
    <3>1. /\ SameRows(db, e) /\ e.tables = db.tables /\ e.suffixed = db.suffixed
          /\ e.indexes = db.indexes /\ e.vocab = db.vocab
      BY DEF SchemaInv, Kept, DbTypes, SameRows
    <3> HIDE DEF e
    <3>2. Kept(e) /\ \A j \in 1..8 : Passed(db, j) => Passed(e, j)
      BY <3>1, SameRowsKeep DEF SchemaInv, Passed, SameRows
    <3>3. QED  BY <2>3, <3>2 DEF e
  <2>4. QED  BY <2>1, <2>2, <2>3 DEF Use, EmbedEnds, Scan, HandlesClosed, disk
<1>4. QED  BY <1>1, <1>2, <1>3, AnswersMigrate

LEMMA EmbedMigrates ==
  ASSUME IInv, SchemaInv, NEW r \in Reqs, Embed(r)
  PROVE  SchemaInv'
<1>1. CASE UNCHANGED obj
  <2>1. RaisesClosed(r) \/ Sets(r, "embed")
    BY DEF Embed
  <2>2. OneReq(r) /\ req'[r].pc \notin {"stopping", "rmtree"}
    BY <2>1, RaisesEffect, SetsEffect DEF IInv, ReqGoes, ReqDone
  <2>3. QED  BY <1>1, <2>2, AnswersMigrate DEF Embed, disk, SchemaInv
<1>2. CASE obj' # obj
  <2> DEFINE g == req[r].obj
             c == IF obj[g].client = "none" THEN "open" ELSE obj[g].client
             o == [obj[g] EXCEPT !.client = c]
  <2>1. Sets(r, "embed") /\ obj' = [obj EXCEPT ![g].client = IF @ = "none" THEN "open" ELSE @]
    BY <1>2 DEF Embed
  <2>2. g \in Objs /\ obj[g] \in ObjTypes /\ c \in {"none", "open", "closed"}
    BY DEF Embed, Holds, IInv, DeleteInv, TypeOK, ObjTypes
  <2>3. obj' = [obj EXCEPT ![g] = o]
    BY <2>1, <2>2 DEF IInv, TypeOK, ObjTypes
  <2> HIDE DEF c
  <2>4. o.st = obj[g].st /\ o.proc = obj[g].proc /\ o.at = obj[g].at
    BY <2>2 DEF ObjTypes
  <2> HIDE DEF o
  <2>5. /\ \A h \in Objs \ {g} : obj'[h] = obj[h]
        /\ obj'[g].st = obj[g].st /\ obj'[g].proc = obj[g].proc /\ obj'[g].at = obj[g].at
    BY <2>2, <2>3, <2>4 DEF IInv, TypeOK
  <2>6. ReqGoes(r, "embed")
    BY <2>1, SetsEffect DEF IInv
  <2>7. \A q \in Reqs : req[q].pc = "rmtree" => req[q].op = "delete"
    BY DEF IInv, DeleteInv, Running, DeletePCs
  <2>8. UNCHANGED <<catalog, db>>
    BY DEF Embed, disk
  <2> HIDE DEF g
  <2>9. Calm
    BY <2>5, <2>6, <2>7, <2>8 DEF Calm, Live, ReqGoes, OneReq, SchemaInv, AloneInv
  <2>10. QED  BY <2>8, <2>9, CalmOnDisk
<1>3. QED  BY <1>1, <1>2

\* The DELETE.
LEMMA DeleteLocksMigrates ==
  ASSUME IInv, SchemaInv, NEW r \in Reqs, DeleteLocks(r)
  PROVE  SchemaInv'
<1> DEFINE p == req[r].proc
<1>1. req[r].pc = "lock" /\ ~Locked(p) /\ UNCHANGED db /\ p \in Procs /\ flock = p
  BY DEF DeleteLocks, IInv, TypeOK, ReqTypes, LockInv, Running
<1>2. \A q \in Reqs : req[q].pc # "stopping"
  BY <1>1 DEF IInv, LockInv, Running, Locked, Pending
<1>3. CASE Resident(p) = {}
  <2>1. catalog' = FALSE /\ Sets(r, "rmtree") /\ UNCHANGED obj
    BY <1>3 DEF DeleteLocks
  <2>2. ReqGoes(r, "rmtree")
    BY <2>1, SetsEffect DEF IInv
  <2>3. \A g \in Objs : obj[g].st \notin Live
    BY <1>1, <1>3, NoneLive
  <2>4. AloneInv'
    BY <1>2, <2>1, <2>2, <2>3 DEF AloneInv, ReqGoes, OneReq, Live
  <2>5. MigrationInv'
    BY <1>1, <2>1 DEF SchemaInv, MigrationInv
  <2>6. QED  BY <1>1, <2>4, <2>5 DEF SchemaInv
<1>4. CASE Resident(p) # {}
  <2>1. PICK g \in Resident(p) :
             /\ obj' = [obj EXCEPT ![g].deleted = TRUE, ![g].st = "stopping"]
             /\ req' = [req EXCEPT ![r].pc = "stopping", ![r].obj = g]
             /\ UNCHANGED catalog
    BY <1>4 DEF DeleteLocks
  <2>2. g \in Objs /\ obj[g].st = "open" /\ obj[g].proc = p /\ g \in 0..Slots
    BY ServiceAssumption DEF Resident, Of, Objs
  <2>3. /\ obj'[g].st = "stopping" /\ obj'[g].proc = p
        /\ \A h \in Objs \ {g} : obj'[h] = obj[h]
    BY <2>1, <2>2 DEF IInv, TypeOK, ObjTypes
  <2>4. /\ req'[r].pc = "stopping" /\ req'[r].obj = g /\ req'[r].proc = p
        /\ \A q \in Reqs \ {r} : req'[q] = req[q]
    BY <2>1, <2>2 DEF IInv, TypeOK, ReqTypes
  <2>5. \A q \in Reqs : req[q].pc # "rmtree"
    BY <2>2 DEF SchemaInv, AloneInv, Live
  <2> HIDE DEF p
  <2>6. AloneInv'
    BY <1>2, <2>2, <2>3, <2>4, <2>5 DEF SchemaInv, AloneInv, Live
  <2>7. MigrationInv'
    BY <1>1, <2>2, <2>3 DEF SchemaInv, MigrationInv
  <2>8. QED  BY <1>1, <2>6, <2>7 DEF SchemaInv
<1>5. QED  BY <1>3, <1>4

LEMMA DeleteRowMigrates ==
  ASSUME IInv, SchemaInv, NEW r \in Reqs, DeleteRow(r)
  PROVE  SchemaInv'
<1>1. req[r].pc = "stopping" /\ obj[req[r].obj].st = "closed" /\ UNCHANGED <<db, obj>>
  BY DEF DeleteRow
<1>2. \A g \in Objs : obj[g].st \notin Live
  BY <1>1 DEF SchemaInv, AloneInv, Live
<1>3. CASE catalog' = FALSE /\ Sets(r, "rmtree")
  <2>1. ReqGoes(r, "rmtree")
    BY <1>3, SetsEffect DEF IInv
  <2>2. AloneInv'
    BY <1>1, <1>2, <1>3, <2>1 DEF SchemaInv, AloneInv, ReqGoes, OneReq, Live
  <2>3. MigrationInv'
    BY <1>1 DEF SchemaInv, MigrationInv
  <2>4. QED  BY <1>1, <2>2, <2>3 DEF SchemaInv
<1>4. CASE req' = [req EXCEPT ![r] = NoReq] /\ UNCHANGED catalog
  <2>1. OneReq(r) /\ req'[r].pc = "idle"
    BY <1>4, NoReqType DEF IInv, TypeOK, OneReq
  <2>2. QED  BY <1>1, <1>4, <2>1, AnswersMigrate DEF SchemaInv
<1>5. QED  BY <1>3, <1>4 DEF DeleteRow

LEMMA DeleteFilesMigrates ==
  ASSUME IInv, SchemaInv, NEW r \in Reqs, DeleteFiles(r)
  PROVE  SchemaInv'
<1>1. req[r].pc = "rmtree" /\ db' = Nothing(db.keyed) /\ UNCHANGED <<catalog, obj>>
  BY DEF DeleteFiles
<1>2. \A g \in Objs : obj[g].st \notin Live
  BY <1>1 DEF SchemaInv, AloneInv
<1>3. ReqDone(r, "ok")
  BY AnswersEffect DEF DeleteFiles, IInv
<1>4. AloneInv'
  BY <1>1, <1>2, <1>3 DEF SchemaInv, AloneInv, ReqDone, OneReq
<1>5. MigrationInv'
  BY <1>1, <1>2 DEF MigrationInv, Live
<1>6. Kept(db')
  BY <1>1, NothingKept DEF SchemaInv, Kept, DbTypes
<1>7. QED  BY <1>4, <1>5, <1>6 DEF SchemaInv

LEMMA ArriveMigrates ==
  ASSUME IInv, SchemaInv, NEW r \in Reqs, NEW p \in Procs, NEW op \in Ops, Arrive(r, p, op)
  PROVE  SchemaInv'
<1> DEFINE new == [NoReq EXCEPT !.op = op, !.proc = p, !.gone = ~catalog \/ Deleting]
           Is(pc) == [new EXCEPT !.pc = pc]
<1>1. req[r].pc \in {"idle", "done"} /\ UNCHANGED obj
  BY DEF Arrive
<1>2. Is("touch").pc = "touch" /\ Is("lock").pc = "lock"
  BY NoReqType DEF ReqTypes
<1>3. \A code : Answered(code).pc = "done"
  BY NoReqType DEF Answered, ReqTypes
<1>4. \/ \E code : req' = [req EXCEPT ![r] = Answered(code)]
      \/ req' = [req EXCEPT ![r] = Is("touch")]
      \/ req' = [q \in Reqs |-> IF q = r THEN Is("lock") ELSE [req[q] EXCEPT !.gone = TRUE]]
  BY DEF Arrive
<1> HIDE DEF new, Is
<1>5. /\ req'[r].pc \notin {"stopping", "rmtree"}
      /\ \A q \in Reqs \ {r} : /\ req'[q].pc = req[q].pc /\ req'[q].obj = req[q].obj
                               /\ req'[q].proc = req[q].proc
  BY <1>2, <1>3, <1>4 DEF IInv, TypeOK, ReqTypes
<1>6. /\ catalog' => catalog \/ ~Deleting
      /\ UNCHANGED db \/ db' = Fresh(db.keyed)
  BY DEF Arrive, disk
<1>7. Kept(db') /\ \A j \in 1..8 : Passed(db, j) => Passed(db', j)
  <2>1. CASE UNCHANGED db
    BY <2>1 DEF SchemaInv
  <2>2. CASE db' = Fresh(db.keyed)
    <3>1. db.keyed \in BOOLEAN
      BY DEF SchemaInv, Kept, DbTypes
    <3>2. Kept(db') /\ Passed(db', 8)
      BY <2>2, <3>1, FreshKept
    <3>3. QED  BY <3>2 DEF Passed
  <2>3. QED  BY <1>6, <2>1, <2>2
<1>8. QED  BY <1>1, <1>5, <1>6, <1>7, ReqIsCalm

-----------------------------------------------------------------------------
LEMMA InitSchema == Init => SchemaInv
<1> SUFFICES ASSUME Init  PROVE SchemaInv
  OBVIOUS
<1>1. AloneInv /\ MigrationInv
  BY NoObjType, NoReqType DEF Init, AloneInv, MigrationInv, Live
<1>2. CASE db \in Legacy
  <2> DEFINE old == [Nothing(FALSE) EXCEPT !.tables = TRUE, !.indexes = {"doc"},
                                           !.text = 1, !.metadata = 1]
             other == [old EXCEPT !.fts = <<"another", "text">>, !.vocab = TRUE]
             i == Indexed(other, other.fts)
  <2>1. /\ old \in DbTypes /\ old.keyed = FALSE /\ old.fts = NoFts /\ old.suffix = 0
    BY DEF Nothing, DbTypes, NoFts
  <2> HIDE DEF old
  <2>2. Kept(old)
    BY <2>1 DEF Kept
  <2>3. Kept([old EXCEPT !.indexes = {"doc", "doc_type"}])
    BY <2>1 DEF Kept, DbTypes
  <2>4. /\ other \in DbTypes /\ other.keyed = FALSE /\ other.suffix = 0
        /\ other.fts = <<"another", "text">>
    BY <2>1 DEF DbTypes
  <2> HIDE DEF other
  <2>5. i \in Nat \X Nat
    BY <2>4, IndexedType
  <2> DEFINE e == [other EXCEPT !.entry = i]
  <2>6. /\ e \in DbTypes /\ e.keyed = FALSE /\ e.suffix = 0 /\ e.fts = other.fts
        /\ e.text = other.text /\ e.entry = i
    <3> HIDE DEF i
    <3>1. QED  BY <2>4, <2>5 DEF DbTypes
  <2> HIDE DEF e
  <2>7. Indexed(e, e.fts) = i
    BY <2>4, <2>6 DEF Indexed
  <2>8. Kept(e)
    BY <2>6, <2>7 DEF Kept
  <2>9. db \in {old, [old EXCEPT !.indexes = {"doc", "doc_type"}], e}
    BY <1>2 DEF Legacy, old, other, e
  <2>10. QED  BY <1>1, <2>2, <2>3, <2>8, <2>9 DEF SchemaInv
<1>3. CASE \E keyed \in BOOLEAN : db = Upserted(Fresh(keyed))
  BY <1>1, <1>3, FreshKept, UpsertedKeeps DEF SchemaInv
<1>4. QED  BY <1>2, <1>3 DEF Init

LEMMA NextSchema == IInv /\ SchemaInv /\ [Next]_vars => SchemaInv'
<1> SUFFICES ASSUME IInv, SchemaInv, [Next]_vars  PROVE SchemaInv'
  OBVIOUS
<1>1. ASSUME UNCHANGED <<catalog, db, obj, req>>  PROVE SchemaInv'
  BY <1>1, ReqIsCalm DEF SchemaInv
<1>2. CASE UNCHANGED vars
  BY <1>1, <1>2 DEF vars, disk
<1>3. ASSUME NEW p \in Procs,
             \/ Launch(p) \/ Poll(p) \/ OpenCatalog(p) \/ Term(p) \/ TermAtWill(p) \/ Drained(p)
      PROVE  SchemaInv'
  BY <1>1, <1>3 DEF Launch, Poll, OpenCatalog, Term, TermAtWill, Drained, disk
<1>4. ASSUME NEW p \in Procs, Exits(p) \/ Kill(p)  PROVE SchemaInv'
  BY <1>4, DiesIsCalm DEF Exits, Kill, disk
<1>5. ASSUME NEW p \in Procs, ProcStep(p)  PROVE SchemaInv'
  BY <1>3, <1>4, <1>5, BootMigrates, EvictsMigrate DEF ProcStep
<1>6. ASSUME NEW g \in Objs, ObjStep(g)  PROVE SchemaInv'
  BY <1>6, LoadStepMigrates, ObjStepsMigrate DEF ObjStep
<1>7. ASSUME NEW r \in Reqs, ReqStep(r)  PROVE SchemaInv'
  BY <1>7, TouchMigrates, RequestMigrates, EmbedMigrates, DeleteLocksMigrates, DeleteRowMigrates,
     DeleteFilesMigrates DEF ReqStep
<1>8. QED  BY <1>2, <1>3, <1>4, <1>5, <1>6, <1>7, StartFailsMigrates, EvictsMigrate,
              LoadFailsMigrates, ArriveMigrates DEF Next

\* Whatever layout a database had, and wherever opens of it were killed, its migration
\* has done the steps it is past, and a full text index that exists holds the records.
THEOREM MigrationIsRepeatable == Spec => []SchemaInv
BY InitInv, NextInv, InitSchema, NextSchema, PTL DEF Spec

\* A collection that serves has the schema its queries name, and its full text index
\* holds exactly its records, patched metadata included.
THEOREM SchemaIsServed == Spec => []ServedSchema
<1>1. SchemaInv => ServedSchema
  <2> SUFFICES ASSUME SchemaInv, NEW g \in Objs, obj[g].st \in {"open", "stopping"}
               PROVE  Current(db) /\ Mirrored(db)
    BY DEF ServedSchema
  <2>1. Kept(db) /\ Passed(db, 8)
    BY DEF SchemaInv, MigrationInv
  <2>2. Current(db)
    BY <2>1 DEF Passed, Current, Kept, DbTypes
  <2>3. Mirrored(db)
    <3> DEFINE e == [db EXCEPT !.suffix = IF db.keyed THEN db.metadata ELSE 0]
    <3>1. db.fts # NoFts /\ db \in DbTypes
      BY <2>1, WantedType DEF Passed, Kept
    <3>2. db.suffix = IF db.keyed THEN db.metadata ELSE 0
      BY <2>1 DEF Kept
    <3>3. e = db
      BY <3>1, <3>2 DEF DbTypes
    <3>4. QED  BY <2>1, <3>1, <3>3 DEF Kept, Mirrored
  <2>4. QED  BY <2>2, <2>3
<1>2. QED  BY <1>1, MigrationIsRepeatable, PTL

\* Between two statements of the migration, too, lookups by document have an index.
THEOREM DocumentsStayIndexed == Spec => DocIndexKept
<1> DEFINE Kept2 == DocIndexed(db) /\ catalog => DocIndexed(db') \/ ~catalog'
<1>1. IInv /\ SchemaInv /\ [Next]_vars => Kept2
  <2> SUFFICES ASSUME IInv, SchemaInv, [Next]_vars, DocIndexed(db), catalog  PROVE DocIndexed(db')
    OBVIOUS
  <2>1. ASSUME NEW d, d.indexes = db.indexes, db' = d  PROVE DocIndexed(db')
    BY <2>1 DEF DocIndexed
  <2>2. CASE UNCHANGED db
    BY <2>2
  <2>3. ASSUME NEW g \in Objs, LoadStep(g)  PROVE DocIndexed(db')
    <3> DEFINE k == obj[g].at
    <3>1. k \in 1..7 /\ Passed(db, k) /\ Kept(db) /\ db' = Run(db, OpenSteps[k])
      BY <2>3 DEF LoadStep, SchemaInv, MigrationInv
    <3>2. QED  BY <3>1, RunKeeps DEF Advances
  <2>4. ASSUME NEW g \in Objs, Work(g)  PROVE DocIndexed(db')
    BY <2>1, <2>4, UpsertedKeeps DEF Work, SchemaInv
  <2>5. ASSUME NEW r \in Reqs, Use(r)  PROVE DocIndexed(db')
    <3>1. CASE db' = Patched(db)
      BY <2>1, <3>1, PatchedKeeps DEF SchemaInv
    <3>2. CASE db' = [db EXCEPT !.jobs = TRUE]
      <4>1. [db EXCEPT !.jobs = TRUE].indexes = db.indexes
        BY DEF SchemaInv, Kept, DbTypes
      <4>2. QED  BY <2>1, <3>2, <4>1
    <3>3. QED  BY <2>2, <2>5, <3>1, <3>2 DEF Use
  <2>6. ASSUME NEW r \in Reqs, DeleteFiles(r)  PROVE DocIndexed(db')
    BY <2>6 DEF DeleteFiles, SchemaInv, AloneInv
  <2>7. ASSUME NEW r \in Reqs, NEW p \in Procs, NEW op \in Ops, Arrive(r, p, op)
        PROVE  DocIndexed(db')
    BY <2>2, <2>7 DEF Arrive, disk
  <2>8. \/ UNCHANGED db
        \/ \E g \in Objs : LoadStep(g) \/ Work(g)
        \/ \E r \in Reqs : Use(r) \/ DeleteFiles(r)
        \/ \E r \in Reqs, p \in Procs, op \in Ops : Arrive(r, p, op)
    <3>1. CASE UNCHANGED vars
      BY <3>1 DEF vars, disk
    <3>2. ASSUME NEW p \in Procs, ProcStep(p) \/ Launch(p) \/ StartFails(p) \/ Evict(p) \/ Term(p)
                                  \/ TermAtWill(p) \/ Kill(p)
          PROVE  UNCHANGED db
      BY <3>2 DEF ProcStep, Launch, Poll, OpenCatalog, Boot, Drained, ShutdownEvicts, Exits,
                  StartFails, Evict, Term, TermAtWill, Kill, disk
    <3>3. ASSUME NEW g \in Objs, StopCloses(g) \/ StopEnds(g) \/ LoadFails(g)  PROVE UNCHANGED db
      BY <3>3 DEF StopCloses, StopEnds, LoadFails, disk
    <3>4. ASSUME NEW r \in Reqs, \/ Touch(r) \/ Embed(r) \/ EmbedEnds(r) \/ Scan(r)
                                \/ HandlesClosed(r) \/ DeleteLocks(r) \/ DeleteRow(r)
          PROVE  UNCHANGED db
      BY <3>4 DEF Touch, Embed, EmbedEnds, Scan, HandlesClosed, DeleteLocks, DeleteRow, disk
    <3>5. QED  BY <3>1, <3>2, <3>3, <3>4 DEF Next, ObjStep, ReqStep
  <2>9. QED  BY <2>2, <2>3, <2>4, <2>5, <2>6, <2>7, <2>8
<1>2. QED  BY <1>1, ServiceInvariant, MigrationIsRepeatable, PTL DEF Spec, DocIndexKept
=============================================================================
