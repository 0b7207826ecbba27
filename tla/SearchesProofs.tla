--------------------------- MODULE SearchesProofs ---------------------------
(***************************************************************************)
(* Searches for any number of clients, writers, scopes and filters, with   *)
(* every bound: the cache of allowlists, the shared scans and what a       *)
(* search sees, whatever is cancelled or fails.                            *)
(***************************************************************************)
EXTENDS Searches, FiniteSetTheorems, WellFoundedInduction, TLAPS

\* The lock's own proofs, with the tasks of this module.
LP == INSTANCE RWLockProofs WITH Readers <- Clients, pc <- at

-----------------------------------------------------------------------------
\* Sequences.

NoRepeats(q) == \A i, j \in DOMAIN q : q[i] = q[j] => i = j

\* Appending adds one element, which stays alone if it is new.
LEMMA AppendFacts ==
  ASSUME NEW S, NEW q \in Seq(S), NEW e \in S
  PROVE  /\ Append(q, e) \in Seq(S)
         /\ Elems(Append(q, e)) = Elems(q) \cup {e}
         /\ NoRepeats(q) /\ e \notin Elems(q) => NoRepeats(Append(q, e))
<1>1. /\ DOMAIN Append(q, e) = 1..(Len(q) + 1) /\ DOMAIN q = 1..Len(q) /\ Len(q) \in Nat
      /\ Append(q, e)[Len(q) + 1] = e
      /\ \A i \in 1..Len(q) : Append(q, e)[i] = q[i]
  OBVIOUS
<1>2. Elems(Append(q, e)) = Elems(q) \cup {e}
  <2>1. ASSUME NEW x \in Elems(Append(q, e))  PROVE x \in Elems(q) \cup {e}
    <3>1. PICK i \in 1..(Len(q) + 1) : x = Append(q, e)[i]
      BY <1>1, <2>1 DEF Elems
    <3>2. i = Len(q) + 1 \/ i \in 1..Len(q)
      BY <1>1
    <3>3. QED  BY <1>1, <3>1, <3>2 DEF Elems
  <2>2. ASSUME NEW x \in Elems(q) \cup {e}  PROVE x \in Elems(Append(q, e))
    <3>1. CASE x = e
      BY <1>1, <3>1 DEF Elems
    <3>2. CASE x \in Elems(q)
      <4>1. PICK i \in 1..Len(q) : x = q[i]
        BY <1>1, <3>2 DEF Elems
      <4>2. i \in DOMAIN Append(q, e) /\ x = Append(q, e)[i]
        BY <1>1, <4>1
      <4>3. QED  BY <4>2 DEF Elems
    <3>3. QED  BY <2>2, <3>1, <3>2
  <2>3. QED  BY <2>1, <2>2
<1>3. ASSUME NoRepeats(q), e \notin Elems(q)  PROVE NoRepeats(Append(q, e))
  <2> SUFFICES ASSUME NEW i \in 1..(Len(q) + 1), NEW j \in 1..(Len(q) + 1),
                      Append(q, e)[i] = Append(q, e)[j]
               PROVE  i = j
    BY <1>1 DEF NoRepeats
  <2>1. (i = Len(q) + 1 \/ i \in 1..Len(q)) /\ (j = Len(q) + 1 \/ j \in 1..Len(q))
    BY <1>1
  <2>2. \A k \in 1..Len(q) : q[k] # e
    BY <1>1, <1>3 DEF Elems
  <2>3. QED  BY <1>1, <1>3, <2>1, <2>2 DEF NoRepeats
<1>4. QED  BY <1>2, <1>3

\* A set of numbers has a least one.
LEMMA Least ==
  ASSUME NEW S \in SUBSET Nat, S # {}
  PROVE  \E i \in S : \A j \in S : i <= j
<1>1. IsWellFoundedOn(OpToRel(<, Nat), Nat)
  BY NatLessThanWellFounded
<1>2. PICK i \in S : \A j \in S : ~(<<j, i>> \in OpToRel(<, Nat))
  BY <1>1, WFMin
<1>3. \A j \in S : ~(j < i)
  BY <1>2 DEF OpToRel
<1>4. QED  BY <1>3

\* What a scan takes and what it leaves was in its queue, and is apart.
LEMMA TakenFacts ==
  ASSUME SearchesAssumption, NEW d \in Drains, NEW q \in Seq(Clients), NoRepeats(q)
  PROVE  LET t == Taken(d, q) IN
         /\ t.batch \subseteq Elems(q) /\ Elems(t.queue) \subseteq Elems(q)
         /\ t.queue \in Seq(Clients) /\ NoRepeats(t.queue)
         /\ t.batch \cap Elems(t.queue) = {}
         /\ t.batch = {} => t.queue = <<>>
<1>1. NoRepeats(<<>>) /\ Elems(<<>>) = {} /\ <<>> \in Seq(Clients)
  BY DEF NoRepeats, Elems
<1>2. CASE d = Full
  <2>1. Taken(d, q) = [batch |-> Elems(q), queue |-> <<>>]
    BY <1>2 DEF Taken
  <2>2. QED  BY <1>1, <2>1
<1>3. CASE d # Full
  <2> DEFINE starts ==
        {i \in 0..Len(q) : i % ScopedBatch = 0 /\ \E c \in Group(q, i) : Waits(c)}
  <2> DEFINE first == CHOOSE i \in starts : \A j \in starts : i <= j
  <2> DEFINE rest == SubSeq(q, first + ScopedBatch + 1, Len(q))
  <2>1. CASE starts = {}
    <3>1. Taken(d, q) = [batch |-> {}, queue |-> <<>>]
      BY <1>3, <2>1 DEF Taken
    <3>2. QED  BY <1>1, <3>1
  <2>2. CASE starts # {}
    <3>1. Taken(d, q) = [batch |-> {c \in Group(q, first) : Waits(c)}, queue |-> rest]
      BY <1>3, <2>2 DEF Taken
    <3>2. first \in starts
      <4>1. starts \in SUBSET Nat
        OBVIOUS
      <4>2. \E i \in starts : \A j \in starts : i <= j
        BY <2>2, <4>1, Least
      <4>3. QED  BY <4>2
    <3>3. first \in Nat /\ \E c \in Group(q, first) : Waits(c)
      <4>1. \A i \in starts : i \in Nat /\ \E c \in Group(q, i) : Waits(c)
        OBVIOUS
      <4> HIDE DEF starts, first
      <4>2. QED  BY <3>2, <4>1
    <3> DEFINE m == first + ScopedBatch
    <3> HIDE DEF starts, first
    <3>4. m \in Nat
      BY <3>3 DEF SearchesAssumption
    <3>5. /\ rest \in Seq(Clients)
          /\ \A i \in DOMAIN rest : i + m \in DOMAIN q /\ rest[i] = q[i + m] /\ i >= 1
      BY <3>4
    <3>6. Group(q, first) \subseteq {q[j] : j \in {j \in 1..m : j <= Len(q)}}
      BY <3>3, <3>4 DEF Group, SearchesAssumption
    <3>7. Group(q, first) \subseteq Elems(q)
      BY <3>4, <3>6 DEF Elems
    <3>8. Elems(rest) \subseteq Elems(q) /\ NoRepeats(rest)
      <4> HIDE DEF rest, m
      <4>1. Elems(rest) \subseteq Elems(q)
        BY <3>5 DEF Elems
      <4>2. ASSUME NEW i \in DOMAIN rest, NEW j \in DOMAIN rest, rest[i] = rest[j]
            PROVE  i = j
        <5>1. q[i + m] = q[j + m] /\ i + m \in DOMAIN q /\ j + m \in DOMAIN q
              /\ i \in Nat /\ j \in Nat
          BY <3>5, <4>2
        <5>2. i + m = j + m
          BY <5>1 DEF NoRepeats
        <5>3. QED  BY <3>4, <5>1, <5>2
      <4>3. QED  BY <4>1, <4>2 DEF NoRepeats
    <3>9. Group(q, first) \cap Elems(rest) = {}
      <4> SUFFICES ASSUME NEW x \in Group(q, first), x \in Elems(rest)  PROVE FALSE
        OBVIOUS
      <4>1. PICK j \in 1..m : j <= Len(q) /\ x = q[j]
        BY <3>6
      <4>2. PICK i \in DOMAIN rest : x = rest[i]
        BY DEF Elems
      <4>3. j \in DOMAIN q /\ i + m \in DOMAIN q /\ q[j] = q[i + m] /\ i >= 1
        BY <3>4, <3>5, <4>1, <4>2, SMTT(30)
      <4>4. j = i + m
        BY <4>3 DEF NoRepeats
      <4>5. QED  BY <3>4, <4>1, <4>3, <4>4
    <3>10. QED  BY <3>1, <3>3, <3>5, <3>7, <3>8, <3>9
  <2>3. QED  BY <2>1, <2>2
<1>4. QED  BY <1>2, <1>3
-----------------------------------------------------------------------------
\* The invariant.

Has(w, step) == step \in Elems(write[w].todo)
Left(step) == {w \in Writers : Has(w, step)}
In(d, c) == c \in Elems(drain[d].queue) \cup drain[d].batch

\* No thread of a cancelled write, nor one that raised, can come between.
Quiet == Elems(upsets) \cap {"abandon", "raise"} = {}

\* What a writer may have before it.
Todos == {<<>>, <<"index">>, <<"invalidate">>, <<"invalidate", "index">>,
          <<"index", "invalidate">>, UpsertSteps, DeleteSteps, PatchSteps}

\* Every write to come has begun.
CountInv ==
  /\ db + Cardinality(Left("commit")) <= begun
  /\ gen + Cardinality(Left("invalidate")) <= begun

\* A write has a number once it is committed, which is in the index unless that
\* is still to come.
WriterOf(w) ==
  /\ write[w].todo \in Todos
  /\ Has(w, "commit") => write[w].made = 0
  /\ write[w].todo # <<>> /\ ~Has(w, "commit") => write[w].made # 0
  /\ Has(w, "commit") /\ ~Has(w, "index") => write[w].kind = "patch"
  /\ at[w] = "waiting" => write[w].made = 0
  /\ write[w].made <= db
  /\ write[w].made # 0 /\ ~Has(w, "index") => write[w].made \in index
WriteInv == \A w \in Writers : WriterOf(w)

IndexInv == done \subseteq index /\ index \subseteq 1..db

\* Whoever cached before this write could have been told.
Told(v) == \/ v \in done
           \/ \E w \in Writers : write[w].made = v /\ ~Has(w, "invalidate")

\* An allowlist of this many writes may be in the cache.
Unseen(v) == ~Told(v) /\ ("raise" \notin Elems(upsets) => Invalidates(v))
Current(made) == \A v \in (made + 1)..db : Unseen(v)

CacheInv == \A e \in Entries : e.made <= db /\ Current(e.made)

\* A search may cache what it selected only while no write has come in since.
SearchOf(c) ==
  /\ search[c].since \subseteq done
  /\ at[c] = "waiting" => search[c].pc = "none"
  /\ search[c].pc \in {"get", "gen", "select", "store"} =>
       search[c].want \in Scopes \cup Filters
  /\ search[c].pc \in {"select", "store"} => search[c].g <= gen
  /\ search[c].pc = "store" /\ search[c].g = gen => Current(search[c].allow)
  /\ search[c].pc \in {"store", "scan"} =>
       search[c].allow <= db /\ search[c].since \subseteq 1..search[c].allow
  /\ search[c].pc = "answered" => search[c].since \subseteq search[c].seen
  /\ search[c].pc = "drain" => \E d \in Drains : In(d, c)
SearchInv == \A c \in Clients : SearchOf(c)

\* A search is in one queue or group once, and only while it waits for it.
DrainOf(d) ==
  /\ drain[d].pc = "none" => drain[d].queue = <<>> /\ drain[d].batch = {}
  /\ drain[d].pc = "ready" => drain[d].batch = {}
  /\ NoRepeats(drain[d].queue) /\ drain[d].batch \cap Elems(drain[d].queue) = {}
  /\ drain[d].pc = "read" =>
       \A c \in drain[d].batch : search[c].since \subseteq drain[d].seen
WaiterOf(d, c) ==
  In(d, c) => /\ search[c].pc = "drain"
              /\ d # Full => search[c].since \subseteq 1..d[2]
              /\ \A e \in Drains : In(e, c) => e = d
DrainInv == \A d \in Drains : DrainOf(d) /\ \A c \in Clients : WaiterOf(d, c)

\* While all is quiet, what a write has begun it does inside the lock, and what a
\* search has selected there stays true.
QuietWrites ==
  Quiet => /\ \A w \in Writers : /\ write[w].todo # <<>> => at[w] # "out"
                                 /\ write[w].made # 0 => at[w] = "in"
           /\ \A v \in 1..db : \/ v \in index
                               \/ \E w \in Writers : write[w].made = v /\ Has(w, "index")
QuietOf(c) ==
  Quiet /\ at[c] = "in" => /\ search[c].pc \in {"store", "scan"} => search[c].allow = db
                           /\ \A d \in Drains \ {Full} : In(d, c) => d[2] = db
QuietSearches == \A c \in Clients : QuietOf(c)

IInv == /\ TypeOK /\ LP!LockInv /\ CountInv /\ WriteInv /\ IndexInv /\ CacheInv
        /\ SearchInv /\ DrainInv /\ QuietWrites /\ QuietSearches

-----------------------------------------------------------------------------
\* The lock.

\* Every step of a search with the lock is one of the lock's own.
LEMMA ReaderLock ==
  ASSUME SearchesAssumption, LP!LockInv, NEW c \in Clients,
         \/ Lock!ReadEnter(c) \/ Lock!ReadWait(c) \/ Lock!ReadResume(c)
         \/ Lock!ReadExit(c) \/ Lock!ReadCancel(c)
  PROVE  /\ LP!LockInv'
         /\ \A t \in Clients \cup Writers : t # c => at'[t] = at[t]
<1>1. LP!TasksAssumption
  BY SearchesAssumption DEF IsFiniteSet, LP!IsFiniteSet
<1>2. \/ LP!ReadEnter(c) \/ LP!ReadWait(c) \/ LP!ReadResume(c)
      \/ LP!ReadExit(c) \/ LP!ReadCancel(c)
  BY DEF Lock!ReadEnter, LP!ReadEnter, Lock!ReadWait, LP!ReadWait, Lock!ReadResume,
         LP!ReadResume, Lock!ReadExit, LP!ReadExit, Lock!ReadCancel, LP!ReadCancel,
         Lock!Goes, LP!Goes, Lock!ReadBlocked, LP!ReadBlocked, Lock!Waiting,
         LP!Waiting, Lock!InState, LP!InState, Lock!Tasks, LP!Tasks
<1>3. LP!LockInv'
  BY <1>1, <1>2, LP!ReaderStep
<1>4. at \in [Clients \cup Writers -> {"out", "waiting", "in"}]
  BY DEF LP!LockInv, LP!TypeOK, LP!Tasks
<1>5. \A t \in Clients \cup Writers : t # c => at'[t] = at[t]
  BY <1>4 DEF Lock!ReadEnter, Lock!ReadWait, Lock!ReadResume, Lock!ReadExit,
              Lock!ReadCancel, Lock!Goes
<1>6. QED  BY <1>3, <1>5

\* And so is every one of a write.
LEMMA WriterLock ==
  ASSUME SearchesAssumption, LP!LockInv, NEW w \in Writers,
         \/ Lock!WriteEnter(w) \/ Lock!WriteWait(w) \/ Lock!WriteResume(w)
         \/ Lock!WriteExit(w) \/ Lock!WriteCancel(w)
  PROVE  /\ LP!LockInv'
         /\ \A t \in Clients \cup Writers : t # w => at'[t] = at[t]
<1>1. LP!TasksAssumption
  BY SearchesAssumption DEF IsFiniteSet, LP!IsFiniteSet
<1>2. \/ LP!WriteEnter(w) \/ LP!WriteWait(w) \/ LP!WriteResume(w)
      \/ LP!WriteExit(w) \/ LP!WriteCancel(w)
  BY DEF Lock!WriteEnter, LP!WriteEnter, Lock!WriteWait, LP!WriteWait,
         Lock!WriteResume, LP!WriteResume, Lock!WriteExit, LP!WriteExit,
         Lock!WriteCancel, LP!WriteCancel, Lock!Goes, LP!Goes, Lock!WriteBlocked,
         LP!WriteBlocked, Lock!Waiting, LP!Waiting, Lock!InState, LP!InState,
         Lock!Tasks, LP!Tasks
<1>3. LP!LockInv'
  BY <1>1, <1>2, LP!WriterStep
<1>4. at \in [Clients \cup Writers -> {"out", "waiting", "in"}]
  BY DEF LP!LockInv, LP!TypeOK, LP!Tasks
<1>5. \A t \in Clients \cup Writers : t # w => at'[t] = at[t]
  BY <1>4 DEF Lock!WriteEnter, Lock!WriteWait, Lock!WriteResume, Lock!WriteExit,
              Lock!WriteCancel, Lock!Goes
<1>6. QED  BY <1>3, <1>5

Apart == \A c \in Clients, w \in Writers : at[c] = "in" => at[w] # "in"

\* The lock's types, and its invariant in a step that leaves it alone.
LEMMA LockFacts ==
  ASSUME LP!LockInv
  PROVE  /\ Lock!TypeOK
         /\ at \in [Clients \cup Writers -> {"out", "waiting", "in"}]
         /\ Apart
<1>1. Lock!TypeOK
  BY DEF LP!LockInv, LP!TypeOK, Lock!TypeOK, LP!Tasks, Lock!Tasks
<1>2. at \in [Clients \cup Writers -> {"out", "waiting", "in"}]
  BY DEF LP!LockInv, LP!TypeOK, LP!Tasks
<1>3. ASSUME NEW c \in Clients, NEW w \in Writers, at[c] = "in", at[w] = "in"
      PROVE  FALSE
  <2>1. c = w
    BY <1>3 DEF LP!LockInv, LP!Exclusion, LP!InState, LP!Tasks
  <2>2. QED  BY <2>1, SearchesAssumption
<1>4. QED  BY <1>1, <1>2, <1>3 DEF Apart

\* A step that does not touch the lock keeps its invariant.
LEMMA LockSame ==
  ASSUME LP!LockInv, UNCHANGED lockVars
  PROVE  LP!LockInv'
BY DEF lockVars, LP!LockInv, LP!TypeOK, LP!CountInv, LP!Exclusion, LP!NoLostWakeup,
       LP!InState, LP!Tasks
-----------------------------------------------------------------------------
\* Steps of searches.

\* What every one of them leaves alone; it may be a cancellation or a failure.
SearchStep ==
  /\ UNCHANGED <<db, index, gen, write, done, begun>>
  /\ \A w \in Writers : at'[w] = at[w]
  /\ \/ UNCHANGED upsets
     \/ Len(upsets) < MaxUpsets /\ upsets' \in {Append(upsets, "cancel"), Append(upsets, "fail")}

\* One more upset, within the bound.
LEMMA UpsetFacts ==
  ASSUME upsets \in Seq(Upsets), Len(upsets) <= MaxUpsets, MaxUpsets \in Nat, NEW e,
         e \in Upsets, upsets' = Append(upsets, e), Len(upsets) < MaxUpsets
  PROVE  /\ upsets' \in Seq(Upsets) /\ Len(upsets') <= MaxUpsets
         /\ Elems(upsets)' = Elems(upsets) \cup {e}
BY AppendFacts DEF Elems

\* No step of a search changes what is known of the writes.
LEMMA SearchFrame ==
  ASSUME SearchesAssumption, IInv, SearchStep
  PROVE  /\ CountInv' /\ WriteInv' /\ IndexInv' /\ QuietWrites'
         /\ Quiet' = Quiet
         /\ \A v : Unseen(v)' = Unseen(v)
         /\ upsets' \in Seq(Upsets) /\ Len(upsets') <= MaxUpsets
<1>1. /\ ("raise" \in Elems(upsets))' = ("raise" \in Elems(upsets))
      /\ ("abandon" \in Elems(upsets))' = ("abandon" \in Elems(upsets))
      /\ upsets' \in Seq(Upsets) /\ Len(upsets') <= MaxUpsets
  <2>1. MaxUpsets \in Nat /\ upsets \in Seq(Upsets) /\ Len(upsets) <= MaxUpsets
    BY DEF IInv, TypeOK, SearchesAssumption
  <2>2. CASE UNCHANGED upsets
    BY <2>1, <2>2 DEF Elems
  <2>3. CASE ~UNCHANGED upsets
    <3>1. PICK e \in {"cancel", "fail"} : upsets' = Append(upsets, e) /\ Len(upsets) < MaxUpsets
      BY <2>3 DEF SearchStep
    <3>2. e \in Upsets /\ e # "raise" /\ e # "abandon"
      BY DEF Upsets
    <3>3. /\ upsets' \in Seq(Upsets) /\ Len(upsets') <= MaxUpsets
          /\ Elems(upsets)' = Elems(upsets) \cup {e}
      BY <2>1, <3>1, <3>2, UpsetFacts
    <3>4. QED  BY <3>2, <3>3
  <2>4. QED  BY <2>2, <2>3
<1>2. Quiet' = Quiet
  BY <1>1 DEF Quiet
<1>3. \A w \in Writers : \A s : Has(w, s)' = Has(w, s)
  BY DEF SearchStep, Has, Elems
<1>4. \A v : Told(v)' = Told(v) /\ Invalidates(v)' = Invalidates(v)
  BY <1>3 DEF SearchStep, Told, Invalidates, Has, Elems
<1>5. \A v : Unseen(v)' = Unseen(v)
  BY <1>1, <1>4 DEF Unseen
<1>6. \A s : Left(s)' = Left(s)
  BY <1>3 DEF Left
<1>7. CountInv'
  BY <1>6 DEF SearchStep, CountInv, IInv
<1>8. WriteInv' /\ IndexInv' /\ QuietWrites'
  BY <1>2, <1>3 DEF SearchStep, WriteInv, WriterOf, IndexInv, QuietWrites, IInv
<1>9. QED  BY <1>1, <1>2, <1>5, <1>7, <1>8

\* What is in the cache has a key and a number.
LEMMA EntryTypes ==
  ASSUME TypeOK
  PROVE  \A e \in Entries : e \in [key : Scopes \cup Filters, made : 0..MaxWrites]
<1> DEFINE R == [key : Scopes \cup Filters, made : 0..MaxWrites]
<1>1. cache \in Seq(R)
  BY DEF TypeOK
<1> HIDE DEF R
<1>2. \A e \in Entries : e \in R
  BY <1>1 DEF Entries
<1>3. QED  BY <1>2 DEF R

\* While no write is in the lock and all is quiet, whatever is cached is of now.
LEMMA CachedIsNow ==
  ASSUME SearchesAssumption, IInv, \A w \in Writers : at[w] # "in", Quiet
  PROVE  \A e \in Entries : e.made = db
<1> SUFFICES ASSUME NEW e \in Entries, e.made # db  PROVE FALSE
  OBVIOUS
<1>1. e.made \in Nat /\ db \in Nat /\ e.made <= db /\ Current(e.made)
  BY EntryTypes DEF IInv, TypeOK, CacheInv, SearchesAssumption
<1>2. Invalidates(db)
  <2>1. db \in (e.made + 1)..db /\ "raise" \notin Elems(upsets)
    BY <1>1 DEF Quiet
  <2>2. QED  BY <1>1, <2>1 DEF Current, Unseen
<1>3. PICK w \in Writers : write[w].made = db
  BY <1>2 DEF Invalidates
<1>4. at[w] = "in"
  BY <1>1, <1>3 DEF IInv, QuietWrites
<1>5. QED  BY <1>4

\* What a search that has returned had seen is in whatever is cached.
LEMMA CachedIsSeen ==
  ASSUME IInv, NEW a \in Nat, Current(a)
  PROVE  done \subseteq 1..a
<1>1. \A v \in done : v \in 1..db /\ Told(v)
  BY DEF IInv, IndexInv, Told
<1>2. db \in Nat
  BY DEF IInv, TypeOK
<1>3. QED  BY <1>1, <1>2 DEF Current, Unseen

SearchTypes == [want : Wants, since : SUBSET Writes, g : 0..MaxWrites,
  pc : {"none", "get", "gen", "select", "store", "scan", "drain", "answered", "failed"},
  allow : 0..MaxWrites, seen : SUBSET Writes]
DrainTypes == [pc : {"none", "ready", "scan", "read", "raised"},
               queue : Seq(Clients), batch : SUBSET Clients, seen : SUBSET Writes]
CacheTypes ==
  cache \in Seq([key : Scopes \cup Filters, made : 0..MaxWrites]) /\ Len(cache) <= MaxCached

\* A step of one search alone, which does not come to a shared scan or leave it: the
\* scans and the other searches stay as they were.
LEMMA SearchAlone ==
  ASSUME SearchesAssumption, IInv, SearchStep, NEW c \in Clients, NEW r \in SearchTypes,
         UNCHANGED drain, search' = [search EXCEPT ![c] = r],
         \/ search[c].pc # "drain" /\ r.pc # "drain"
         \/ r = search[c],
         \A t \in Clients : t # c => at'[t] = at[t],
         SearchOf(c)', QuietOf(c)', LP!LockInv', CacheInv', CacheTypes'
  PROVE  IInv'
<1>1. /\ search \in [Clients -> SearchTypes]
      /\ \A b \in Clients : b # c => search'[b] = search[b]
      /\ search'[c] = r /\ search' \in [Clients -> SearchTypes]
  BY DEF IInv, TypeOK, SearchTypes
<1>2. \A d, b : In(d, b)' = In(d, b)
  BY DEF In, Elems
<1>3. \A d \in Drains : In(d, c) => r = search[c]
  BY DEF IInv, DrainInv, WaiterOf
<1>4. DrainInv'
  <2> SUFFICES ASSUME NEW d \in Drains
               PROVE  DrainOf(d)' /\ \A b \in Clients : WaiterOf(d, b)'
    BY DEF DrainInv
  <2>1. DrainOf(d) /\ \A b \in Clients : WaiterOf(d, b)
    BY DEF IInv, DrainInv
  <2>2. \A b \in drain[d].batch : search'[b] = search[b]
    <3>1. drain[d].batch \subseteq Clients
      BY DEF IInv, TypeOK
    <3>2. QED  BY <1>1, <1>3, <3>1 DEF In
  <2>3. DrainOf(d)'
    BY <2>1, <2>2 DEF DrainOf, NoRepeats, Elems
  <2>4. ASSUME NEW b \in Clients  PROVE WaiterOf(d, b)'
    BY <1>1, <1>2, <1>3, <2>1 DEF WaiterOf
  <2>5. QED  BY <2>3, <2>4
<1>5. ASSUME NEW b \in Clients, b # c  PROVE SearchOf(b)' /\ QuietOf(b)'
  <2>1. SearchOf(b) /\ QuietOf(b)
    BY DEF IInv, SearchInv, QuietSearches
  <2>2. (\A v : Unseen(v)' = Unseen(v)) /\ Quiet' = Quiet
    BY SearchFrame
  <2>3. at'[b] = at[b] /\ search'[b] = search[b]
    BY <1>1, <1>5
  <2>4. SearchOf(b)'
    BY <1>2, <2>1, <2>2, <2>3 DEF SearchOf, SearchStep, Current
  <2>5. QuietOf(b)'
    BY <1>2, <2>1, <2>2, <2>3 DEF QuietOf, SearchStep
  <2>6. QED  BY <2>4, <2>5
<1>6. SearchInv' /\ QuietSearches'
  BY <1>5 DEF SearchInv, QuietSearches
<1>7. TypeOK'
  <2>1. Lock!TypeOK'
    BY PTL, LockFacts
  <2>2. upsets' \in Seq(Upsets) /\ Len(upsets') <= MaxUpsets
    BY SearchFrame
  <2>3. QED  BY <1>1, <2>1, <2>2 DEF IInv, TypeOK, SearchStep, SearchTypes, CacheTypes
<1>8. QED  BY <1>4, <1>6, <1>7, SearchFrame DEF IInv
\* A list that is cached takes the place of another or its own place.
LEMMA PutFacts ==
  ASSUME SearchesAssumption, CacheTypes, NEW k \in Scopes \cup Filters,
         NEW made \in 0..MaxWrites, Put(k, made)
  PROVE  CacheTypes' /\ \A e \in Entries' : e \in Entries \/ e.made = made
<1> DEFINE R == [key : Scopes \cup Filters, made : 0..MaxWrites]
           kept == IF Len(cache) >= MaxCached THEN Tail(cache) ELSE cache
           same == {i \in DOMAIN kept : kept[i].key = k}
           new == [key |-> k, made |-> made]
<1>1. new \in R /\ new.made = made /\ cache \in Seq(R) /\ Len(cache) <= MaxCached
      /\ MaxCached \in Nat \ {0}
  BY DEF CacheTypes, SearchesAssumption
<1>2. \/ cache' = Append(kept, new) 
      \/ /\ cache' = [i \in DOMAIN kept |-> IF i \in same THEN new ELSE kept[i]]
  BY DEF Put
<1> HIDE DEF R, new
<1>3. kept \in Seq(R) /\ Len(kept) < MaxCached /\ \A i \in DOMAIN kept : kept[i] \in Entries
  BY <1>1 DEF Entries
<1> HIDE DEF kept
<1>4. CASE cache' = Append(kept, new)
  <2>1. cache' \in Seq(R) /\ Len(cache') <= MaxCached
    BY <1>1, <1>3, <1>4
  <2>2. Elems(cache') = Elems(kept) \cup {new}
    BY <1>1, <1>3, <1>4, AppendFacts
  <2>3. \A e \in Entries' : e \in Entries \/ e = new
    BY <1>3, <2>2 DEF Entries, Elems
  <2>4. QED  BY <1>1, <2>1, <2>3 DEF CacheTypes, R
<1>5. CASE cache' = [i \in DOMAIN kept |-> IF i \in same THEN new ELSE kept[i]]
  <2> HIDE DEF same
  <2>1. DOMAIN kept = 1..Len(kept) /\ Len(kept) \in Nat /\ \A i \in DOMAIN kept : kept[i] \in R
    BY <1>3
  <2>2. cache' \in [1..Len(kept) -> R]
    BY <1>1, <1>5, <2>1
  <2>3. cache' \in Seq(R) /\ Len(cache') = Len(kept)
    BY <2>1, <2>2
  <2>4. \A e \in Entries' : e \in Entries \/ e = new
    BY <1>3, <1>5 DEF Entries
  <2>5. QED  BY <1>1, <1>3, <2>3, <2>4 DEF CacheTypes, R
<1>6. QED  BY <1>2, <1>4, <1>5

\* What is to be shown of the search that takes a step, in terms of the old state.
Fits(c, r) ==
  /\ r.since \subseteq done /\ r.pc # "drain"
  /\ r.pc \in {"get", "gen", "select", "store"} => r.want \in Scopes \cup Filters
  /\ r.pc \in {"select", "store"} => r.g <= gen
  /\ r.pc = "store" /\ r.g = gen => Current(r.allow)
  /\ r.pc \in {"store", "scan"} =>
       /\ r.allow <= db /\ r.since \subseteq 1..r.allow
       /\ Quiet /\ at[c] = "in" => r.allow = db
  /\ r.pc = "answered" => r.since \subseteq r.seen

\* It is enough that its next record fits.
LEMMA FitsKeeps ==
  ASSUME SearchesAssumption, IInv, SearchStep, NEW c \in Clients, NEW r, Fits(c, r),
         UNCHANGED drain, search'[c] = r, at'[c] = "waiting" => r.pc = "none",
         \/ at'[c] = "in" => at[c] = "in"
         \/ search[c].pc = "none" /\ r.pc = "get"
  PROVE  SearchOf(c)' /\ QuietOf(c)'
<1>1. (\A v : Unseen(v)' = Unseen(v)) /\ Quiet' = Quiet
  BY SearchFrame
<1>2. \A d, b : In(d, b)' = In(d, b)
  BY DEF In, Elems
<1>3. db' = db /\ gen' = gen /\ done' = done
  BY DEF SearchStep
<1>4. SearchOf(c)'
  BY <1>1, <1>3 DEF Fits, SearchOf, Current
<1>5. QuietOf(c) /\ (search[c].pc = "none" => \A d \in Drains : ~In(d, c))
  BY DEF IInv, QuietSearches, DrainInv, WaiterOf
<1>6. QuietOf(c)'
  BY <1>1, <1>2, <1>3, <1>5 DEF Fits, QuietOf
<1>7. QED  BY <1>4, <1>6

\* What a search keeps of itself, in a step of its thread: the writes it has to see.
LEMMA ThreadKeeps ==
  ASSUME SearchesAssumption, IInv, NEW c \in Clients,
         ThreadStep(c) \/ ThreadFails(c)
  PROVE  IInv'
<1>1. /\ search \in [Clients -> SearchTypes] /\ SearchOf(c) /\ QuietOf(c)
      /\ db \in 0..MaxWrites /\ gen \in 0..MaxWrites /\ index \subseteq Writes
      /\ MaxWrites \in Nat /\ CacheTypes /\ CacheInv /\ search[c] \in SearchTypes
      /\ done \subseteq index /\ index \subseteq 1..db
  BY DEF IInv, TypeOK, SearchInv, QuietSearches, CacheTypes, SearchesAssumption,
         IndexInv, SearchTypes
<1>2. UNCHANGED <<lockVars, at, drain>>
  BY DEF ThreadStep, CacheHit, CacheMiss, ReadGen, SelectIds, StoreIds, ScanAllowed,
         ThreadFails, lockVars
<1>3. SearchStep /\ LP!LockInv'
  <2>1. SearchStep
    BY <1>2 DEF ThreadStep, CacheHit, CacheMiss, ReadGen, SelectIds, StoreIds,
         ScanAllowed, ThreadFails, lockVars, data, bounds, Spend, SearchStep
  <2>2. QED  BY <1>2, <2>1, LockSame DEF IInv
<1>4. \A v : Unseen(v)' = Unseen(v)
  BY <1>3, SearchFrame
<1>5. ASSUME NEW r \in SearchTypes, search' = [search EXCEPT ![c] = r],
             search[c].pc # "drain", at[c] # "waiting", Fits(c, r), CacheTypes', CacheInv'
      PROVE  IInv'
  <2>1. search'[c] = r /\ r.pc # "drain" /\ at' = at
    BY <1>1, <1>2, <1>5 DEF Fits
  <2>2. SearchOf(c)' /\ QuietOf(c)'
    BY <1>2, <1>3, <1>5, <2>1, FitsKeeps
  <2>3. QED  BY <1>2, <1>3, <1>5, <2>1, <2>2, SearchAlone
<1>6. UNCHANGED cache => CacheTypes' /\ CacheInv'
  BY <1>1, <1>3, <1>4 DEF CacheTypes, CacheInv, Entries, Current, SearchStep
<1>7. at[c] = "waiting" => search[c].pc = "none"
  BY <1>1 DEF SearchOf
<1>8. search[c].since \subseteq done
  BY <1>1 DEF SearchOf
<1>9. CASE CacheHit(c)
  <2>1. PICK e \in Entries : e.key = search[c].want
                /\ search' = [search EXCEPT ![c].allow = e.made, ![c].pc = "scan"]
    BY <1>9 DEF CacheHit
  <2> DEFINE r == [search[c] EXCEPT !.allow = e.made, !.pc = "scan"]
  <2>2. e.made \in 0..MaxWrites /\ e.made <= db /\ Current(e.made)
    BY <1>1, EntryTypes DEF CacheInv, IInv
  <2>3. search[c].since \subseteq 1..e.made
    <3>1. e.made \in Nat
      BY <1>1, <2>2
    <3>2. done \subseteq 1..e.made
      BY <2>2, <3>1, CachedIsSeen
    <3>3. QED  BY <1>8, <3>2
  <2>4. r \in SearchTypes /\ search' = [search EXCEPT ![c] = r] /\ search[c].pc = "get"
        /\ UNCHANGED cache /\ r.pc = "scan" /\ r.allow = e.made /\ r.since = search[c].since
    BY <1>1, <1>9, <2>1, <2>2 DEF CacheHit, data, SearchTypes
  <2> HIDE DEF r
  <2>5. Fits(c, r)
    <3>1. Quiet /\ at[c] = "in" => e.made = db
      BY CachedIsNow, LockFacts DEF IInv, Apart
    <3>2. QED  BY <1>8, <2>2, <2>3, <2>4, <3>1 DEF Fits
  <2>6. QED  BY <1>5, <1>6, <1>7, <2>4, <2>5
<1>10. CASE CacheMiss(c)
  <2> DEFINE r == [search[c] EXCEPT !.pc = "gen"]
  <2>1. r \in SearchTypes /\ search' = [search EXCEPT ![c] = r] /\ search[c].pc = "get"
        /\ UNCHANGED cache /\ r.pc = "gen" /\ r.want = search[c].want
        /\ r.since = search[c].since
    BY <1>1, <1>10 DEF CacheMiss, SearchGoes, data, SearchTypes
  <2> HIDE DEF r
  <2>2. Fits(c, r)
    BY <1>1, <1>8, <2>1 DEF Fits, SearchOf
  <2>3. QED  BY <1>5, <1>6, <1>7, <2>1, <2>2
<1>11. CASE ReadGen(c)
  <2> DEFINE r == [search[c] EXCEPT !.g = gen, !.pc = "select"]
  <2>1. r \in SearchTypes /\ search' = [search EXCEPT ![c] = r] /\ search[c].pc = "gen"
        /\ UNCHANGED cache /\ r.pc = "select" /\ r.want = search[c].want /\ r.g = gen
        /\ r.since = search[c].since
    BY <1>1, <1>11 DEF ReadGen, data, SearchTypes
  <2> HIDE DEF r
  <2>2. gen <= gen
    BY <1>1
  <2>3. Fits(c, r)
    BY <1>1, <1>8, <2>1, <2>2 DEF Fits, SearchOf
  <2>4. QED  BY <1>5, <1>6, <1>7, <2>1, <2>3
<1>12. CASE SelectIds(c)
  <2> DEFINE r == [search[c] EXCEPT !.allow = db, !.pc = "store"]
  <2>1. r \in SearchTypes /\ search' = [search EXCEPT ![c] = r] /\ search[c].pc = "select"
        /\ UNCHANGED cache /\ r.pc = "store" /\ r.want = search[c].want /\ r.allow = db
        /\ r.g = search[c].g /\ r.since = search[c].since
    BY <1>1, <1>12 DEF SelectIds, data, SearchTypes
  <2> HIDE DEF r
  <2>2. Current(db) /\ db <= db /\ search[c].since \subseteq 1..db
    <3>1. (db + 1)..db = {} /\ db <= db
      BY <1>1
    <3>2. done \subseteq 1..db
      BY <1>1
    <3>3. QED  BY <1>8, <3>1, <3>2 DEF Current
  <2>3. Fits(c, r)
    BY <1>1, <1>8, <2>1, <2>2 DEF Fits, SearchOf
  <2>4. QED  BY <1>5, <1>6, <1>7, <2>1, <2>3
<1>13. CASE StoreIds(c)
  <2> DEFINE r == [search[c] EXCEPT !.pc = "scan"]
  <2>1. r \in SearchTypes /\ search' = [search EXCEPT ![c] = r] /\ search[c].pc = "store"
        /\ r.pc = "scan" /\ r.allow = search[c].allow /\ r.since = search[c].since
    BY <1>1, <1>13 DEF StoreIds, SearchGoes, SearchTypes
  <2> HIDE DEF r
  <2>2. Fits(c, r)
    BY <1>1, <1>8, <2>1 DEF Fits, SearchOf, QuietOf
  <2>3. CASE UNCHANGED cache
    BY <1>5, <1>6, <1>7, <2>1, <2>2, <2>3
  <2>4. CASE ~UNCHANGED cache
    <3>1. search[c].g = gen /\ Put(search[c].want, search[c].allow)
      BY <1>13, <2>4 DEF StoreIds
    <3>2. Current(search[c].allow) /\ search[c].allow <= db
          /\ search[c].want \in Scopes \cup Filters
      BY <1>1, <2>1, <3>1 DEF SearchOf
    <3>3. search[c].allow \in 0..MaxWrites
      BY <1>1 DEF SearchTypes
    <3>4. CacheTypes' /\ \A e \in Entries' : e \in Entries \/ e.made = search[c].allow
      BY <1>1, <3>1, <3>2, <3>3, PutFacts
    <3>5. CacheInv'
      BY <1>1, <1>3, <1>4, <3>2, <3>4 DEF CacheInv, Current, SearchStep
    <3>6. QED  BY <1>5, <1>7, <2>1, <2>2, <3>4, <3>5
  <2>5. QED  BY <2>3, <2>4
<1>14. CASE ScanAllowed(c)
  <2> DEFINE r == IF Orphan(c) THEN NoSearch ELSE
       [search[c] EXCEPT !.pc = "answered", !.seen = (1..search[c].allow) \cap index]
  <2>1. r \in SearchTypes /\ search' = [search EXCEPT ![c] = r]
        /\ search[c].pc = "scan" /\ UNCHANGED cache
        /\ r.pc \in {"none", "answered"} /\ r.since \subseteq search[c].since
    <3>1. search' = [search EXCEPT ![c] = r] /\ search[c].pc = "scan" /\ UNCHANGED cache
      BY <1>1, <1>14 DEF ScanAllowed, data
    <3>2. CASE Orphan(c)
      BY <1>1, <3>1, <3>2 DEF NoSearch, Wants, SearchTypes
    <3>3. CASE ~Orphan(c)
      <4> DEFINE seen == (1..search[c].allow) \cap index
      <4>1. seen \in SUBSET Writes
        BY <1>1
      <4>2. r = [search[c] EXCEPT !.pc = "answered", !.seen = seen]
        BY <3>3
      <4> HIDE DEF seen, r
      <4>3. QED  BY <1>1, <3>1, <4>1, <4>2 DEF SearchTypes
    <3>4. QED  BY <3>2, <3>3
  <2>2. r.pc = "answered" => r.seen = (1..search[c].allow) \cap index
    BY <1>1 DEF NoSearch, SearchTypes
  <2> HIDE DEF r
  <2>3. search[c].since \subseteq (1..search[c].allow) \cap index
    BY <1>1, <1>8, <2>1 DEF SearchOf
  <2>4. r.pc = "answered" => r.since \subseteq r.seen
    BY <2>1, <2>2, <2>3
  <2>5. Fits(c, r)
    BY <1>8, <2>1, <2>4 DEF Fits
  <2>6. QED  BY <1>5, <1>6, <1>7, <2>1, <2>5
<1>15. CASE ThreadFails(c)
  <2> DEFINE r == IF Orphan(c) THEN NoSearch ELSE [search[c] EXCEPT !.pc = "failed"]
  <2>1. r \in SearchTypes /\ search' = [search EXCEPT ![c] = r]
        /\ search[c].pc \in {"select", "scan"} /\ UNCHANGED cache
        /\ r.pc \in {"none", "failed"} /\ r.since \subseteq search[c].since
    BY <1>1, <1>15 DEF ThreadFails, data, NoSearch, Wants, SearchTypes
  <2> HIDE DEF r
  <2>2. Fits(c, r)
    BY <1>8, <2>1 DEF Fits
  <2>3. QED  BY <1>5, <1>6, <1>7, <2>1, <2>2
<1>16. QED
  BY <1>9, <1>10, <1>11, <1>12, <1>13, <1>14, <1>15 DEF ThreadStep

\* A search that joins a shared scan is in its queue and nowhere else, and the list of
\* that scan misses nothing it has to see.
LEMMA JoinKeeps ==
  ASSUME SearchesAssumption, IInv, SearchStep, NEW c \in Clients, NEW k \in Wants,
         NEW d \in Drains, Joins(c, k, d), UNCHANGED cache, search[c].pc = "none",
         d # Full => done \subseteq 1..d[2] /\ (Quiet => d[2] = db),
         \A t \in Clients : t # c => at'[t] = at[t], at'[c] = "in", LP!LockInv'
  PROVE  IInv'
<1> DEFINE r == [NoSearch EXCEPT !.want = k, !.pc = "drain", !.since = done]
           q == Append(drain[d].queue, c)
           D == [drain[d] EXCEPT !.queue = q, !.pc = IF @ = "none" THEN "ready" ELSE @]
<1>1. /\ search \in [Clients -> SearchTypes] /\ drain \in [Drains -> DrainTypes]
      /\ done \subseteq Writes /\ MaxWrites \in Nat
  BY DEF IInv, TypeOK, SearchTypes, DrainTypes, SearchesAssumption
<1>2. \A e \in Drains : ~In(e, c)
  BY DEF IInv, DrainInv, WaiterOf
<1>3. /\ q \in Seq(Clients) /\ Elems(q) = Elems(drain[d].queue) \cup {c} /\ NoRepeats(q)
  <2>1. drain[d].queue \in Seq(Clients) /\ NoRepeats(drain[d].queue)
    BY <1>1 DEF IInv, DrainInv, DrainOf, DrainTypes
  <2>2. QED  BY <1>2, <2>1, AppendFacts DEF In
<1>4. r \in SearchTypes /\ r.pc = "drain" /\ r.since = done
  <2>1. NoSearch \in SearchTypes
    BY <1>1 DEF NoSearch, SearchTypes, Wants
  <2>2. done \in SUBSET Writes
    BY <1>1
  <2>3. QED  BY <2>1, <2>2 DEF SearchTypes
<1>5. D \in DrainTypes /\ D.queue = q /\ D.batch = drain[d].batch /\ D.seen = drain[d].seen
      /\ D.pc = IF drain[d].pc = "none" THEN "ready" ELSE drain[d].pc
  <2>1. drain[d] \in DrainTypes
    BY <1>1
  <2> HIDE DEF q
  <2>2. QED  BY <1>3, <2>1 DEF DrainTypes
<1>6. /\ search' = [search EXCEPT ![c] = r] /\ drain' = [drain EXCEPT ![d] = D]
  BY <1>1 DEF Joins
<1> HIDE DEF r, q, D
<1>7. /\ search'[c] = r /\ \A b \in Clients : b # c => search'[b] = search[b]
      /\ search' \in [Clients -> SearchTypes]
      /\ drain'[d] = D /\ \A e \in Drains : e # d => drain'[e] = drain[e]
      /\ drain' \in [Drains -> DrainTypes]
  BY <1>1, <1>4, <1>5, <1>6
<1>8. \A e \in Drains : \A b \in Clients : In(e, b)' <=> In(e, b) \/ (e = d /\ b = c)
  <2> SUFFICES ASSUME NEW e \in Drains, NEW b \in Clients
               PROVE  In(e, b)' <=> In(e, b) \/ (e = d /\ b = c)
    OBVIOUS
  <2>1. CASE e = d
    <3>1. drain'[d].queue = q /\ drain'[d].batch = drain[d].batch
      BY <1>5, <1>7
    <3>2. In(d, b)' <=> b \in Elems(q) \/ b \in drain[d].batch
      BY <3>1 DEF In, Elems
    <3>3. QED  BY <1>3, <2>1, <3>2 DEF In
  <2>2. CASE e # d
    BY <1>7, <2>2 DEF In, Elems
  <2>3. QED  BY <2>1, <2>2
<1>9. DrainInv'
  <2> SUFFICES ASSUME NEW e \in Drains
               PROVE  DrainOf(e)' /\ \A b \in Clients : WaiterOf(e, b)'
    BY DEF DrainInv
  <2>1. DrainOf(e) /\ \A b \in Clients : WaiterOf(e, b)
    BY DEF IInv, DrainInv
  <2>2. drain[e].batch \subseteq Clients /\ c \notin drain[e].batch
    BY <1>1, <1>2 DEF In, DrainTypes
  <2>3. CASE e # d
    <3>1. DrainOf(e)'
      BY <1>7, <2>1, <2>2, <2>3 DEF DrainOf, NoRepeats, Elems
    <3>2. ASSUME NEW b \in Clients  PROVE WaiterOf(e, b)'
      BY <1>2, <1>7, <1>8, <2>1, <2>3 DEF WaiterOf
    <3>3. QED  BY <3>1, <3>2
  <2>4. CASE e = d
    <3>1. DrainOf(d)'
      <4>1. drain'[d].batch \cap Elems(q) = {}
        BY <1>3, <1>5, <1>7, <2>1, <2>2, <2>4 DEF DrainOf
      <4>2. NoRepeats(drain'[d].queue) /\ drain'[d].pc # "none"
        BY <1>3, <1>5, <1>7
      <4>3. drain'[d].pc = "ready" => drain'[d].batch = {}
        BY <1>5, <1>7, <2>1, <2>4 DEF DrainOf
      <4>4. drain'[d].pc = "read" =>
              \A b \in drain'[d].batch : search'[b].since \subseteq drain'[d].seen
        BY <1>5, <1>7, <2>1, <2>2, <2>4 DEF DrainOf
      <4>5. QED  BY <1>5, <1>7, <4>1, <4>2, <4>3, <4>4 DEF DrainOf, NoRepeats, Elems
    <3>2. ASSUME NEW b \in Clients, b # c  PROVE WaiterOf(d, b)'
      BY <1>7, <1>8, <2>1, <2>4, <3>2 DEF WaiterOf
    <3>3. WaiterOf(d, c)'
      BY <1>2, <1>4, <1>7, <1>8 DEF WaiterOf
    <3>4. QED  BY <2>4, <3>1, <3>2, <3>3
  <2>5. QED  BY <2>3, <2>4
<1>10. (\A v : Unseen(v)' = Unseen(v)) /\ Quiet' = Quiet /\ db' = db /\ gen' = gen /\ done' = done
  BY SearchFrame DEF SearchStep
<1>11. ASSUME NEW b \in Clients  PROVE SearchOf(b)' /\ QuietOf(b)'
  <2>1. CASE b = c
    <3>1. SearchOf(c)'
      BY <1>4, <1>7, <1>8, <1>10 DEF SearchOf
    <3>2. QuietOf(c)'
      BY <1>2, <1>4, <1>7, <1>8, <1>10 DEF QuietOf
    <3>3. QED  BY <2>1, <3>1, <3>2
  <2>2. CASE b # c
    <3>1. SearchOf(b) /\ QuietOf(b)
      BY DEF IInv, SearchInv, QuietSearches
    <3>2. at'[b] = at[b] /\ search'[b] = search[b]
          /\ \A e \in Drains : In(e, b)' <=> In(e, b)
      BY <1>7, <1>8, <2>2
    <3>3. SearchOf(b)'
      BY <1>10, <3>1, <3>2 DEF SearchOf, Current
    <3>4. QuietOf(b)'
      BY <1>10, <3>1, <3>2 DEF QuietOf
    <3>5. QED  BY <3>3, <3>4
  <2>3. QED  BY <2>1, <2>2
<1>12. TypeOK'
  <2>1. Lock!TypeOK'
    BY PTL, LockFacts
  <2>2. upsets' \in Seq(Upsets) /\ Len(upsets') <= MaxUpsets
    BY SearchFrame
  <2>3. QED
    BY <1>7, <2>1, <2>2 DEF IInv, TypeOK, SearchStep, SearchTypes, DrainTypes
<1>13. CacheInv'
  BY <1>10 DEF IInv, CacheInv, Entries, Current
<1>14. QED
  BY <1>9, <1>11, <1>12, <1>13, SearchFrame DEF IInv, SearchInv, QuietSearches
\* A search that gets in, whichever way its answer is to come.
LEMMA VectorIdsKeeps ==
  ASSUME SearchesAssumption, IInv, SearchStep, NEW c \in Clients, NEW k \in Wants,
         VectorIds(c, k), UNCHANGED cache, search[c].pc = "none",
         \A t \in Clients : t # c => at'[t] = at[t], at'[c] = "in", LP!LockInv'
  PROVE  IInv'
<1>1. CASE k = "full" /\ Joins(c, k, Full)
  <2>1. Full \in Drains
    BY DEF Drains
  <2>2. QED  BY <1>1, <2>1, JoinKeeps
<1>2. CASE \E e \in Entries : e.key = k /\ k \in Scopes /\ Joins(c, k, <<k, e.made>>)
  <2>1. PICK e \in Entries : e.key = k /\ k \in Scopes /\ Joins(c, k, <<k, e.made>>)
    BY <1>2
  <2> DEFINE d == <<k, e.made>>
  <2>2. e.made \in 0..MaxWrites /\ Current(e.made)
    BY EntryTypes DEF IInv, CacheInv
  <2>3. d \in Drains /\ d[2] = e.made /\ e.made \in Nat
    BY <2>1, <2>2 DEF Drains, SearchesAssumption
  <2>4. done \subseteq 1..e.made
    BY <2>2, <2>3, CachedIsSeen
  <2>5. Quiet => e.made = db
    <3>1. Apart'
      BY PTL, LockFacts
    <3>2. \A w \in Writers : at[w] # "in"
      BY <3>1 DEF SearchStep, Apart
    <3>3. QED  BY <3>2, CachedIsNow
  <2> HIDE DEF d
  <2>6. QED  BY <2>1, <2>3, <2>4, <2>5, JoinKeeps DEF d
<1>3. CASE k # "full" /\ UNCHANGED drain
           /\ search' = [search EXCEPT ![c] = [NoSearch EXCEPT !.want = k, !.pc = "get",
                                                               !.since = done]]
  <2> DEFINE r == [NoSearch EXCEPT !.want = k, !.pc = "get", !.since = done]
  <2>1. NoSearch \in SearchTypes /\ done \in SUBSET Writes /\ search \in [Clients -> SearchTypes]
    BY DEF NoSearch, SearchTypes, Wants, SearchesAssumption, IInv, TypeOK
  <2>2. r \in SearchTypes /\ r.pc = "get" /\ r.since = done /\ r.want = k
    BY <2>1 DEF SearchTypes
  <2>3. search' = [search EXCEPT ![c] = r]
    BY <1>3
  <2> HIDE DEF r
  <2>4. search'[c] = r /\ k \in Scopes \cup Filters
    BY <1>3, <2>1, <2>2, <2>3 DEF Wants
  <2>5. Fits(c, r)
    BY <2>2, <2>4 DEF Fits
  <2>6. SearchOf(c)' /\ QuietOf(c)'
    BY <1>3, <2>2, <2>4, <2>5, FitsKeeps
  <2>7. CacheTypes' /\ CacheInv'
    <3>1. CacheTypes /\ CacheInv
      BY DEF IInv, TypeOK, CacheTypes
    <3>2. QED  BY <3>1, SearchFrame DEF CacheTypes, CacheInv, Entries, Current, SearchStep
  <2>8. QED  BY <1>3, <2>2, <2>3, <2>6, <2>7, SearchAlone
<1>4. QED  BY <1>1, <1>2, <1>3 DEF VectorIds

\* A search begins, waits, ends or is cancelled.
LEMMA SectionKeeps ==
  ASSUME SearchesAssumption, IInv, NEW c \in Clients,
         \/ \E k \in Wants : SearchStart(c, k)
         \/ SearchResume(c) \/ SearchEnds(c) \/ SearchCancel(c)
  PROVE  IInv'
<1>1. /\ search \in [Clients -> SearchTypes] /\ SearchOf(c)
      /\ at \in [Clients \cup Writers -> {"out", "waiting", "in"}]
      /\ CacheTypes /\ CacheInv /\ NoSearch \in SearchTypes
      /\ LP!LockInv /\ search[c] \in SearchTypes
  BY LockFacts
     DEF IInv, TypeOK, SearchTypes, SearchInv, CacheTypes, NoSearch, Wants,
         SearchesAssumption
<1>2. /\ LP!LockInv'
      /\ \A t \in Clients \cup Writers : t # c => at'[t] = at[t]
  BY <1>1, ReaderLock DEF SearchStart, SearchResume, SearchEnds, SearchCancel
<1>3. SearchStep /\ UNCHANGED cache
  <2>1. \A w \in Writers : w # c
    BY DEF SearchesAssumption
  <2>2. QED
    BY <1>2, <2>1 DEF SearchStart, SearchResume, SearchEnds, SearchCancel, Spend,
                      SearchStep, data, bounds
<1>4. CacheTypes' /\ CacheInv'
  BY <1>1, <1>3, SearchFrame DEF CacheTypes, CacheInv, Entries, Current, SearchStep
<1>5. ASSUME NEW r \in SearchTypes, search' = [search EXCEPT ![c] = r], UNCHANGED drain,
             search[c].pc # "drain", Fits(c, r), at'[c] = "waiting" => r.pc = "none",
             at'[c] = "in" => at[c] = "in"
      PROVE  IInv'
  <2>1. search'[c] = r /\ r.pc # "drain"
    BY <1>1, <1>5 DEF Fits
  <2>2. SearchOf(c)' /\ QuietOf(c)'
    BY <1>3, <1>5, <2>1, FitsKeeps
  <2>3. QED  BY <1>2, <1>3, <1>4, <1>5, <2>1, <2>2, SearchAlone
<1>6. Fits(c, NoSearch)
  BY DEF Fits, NoSearch
<1>7. CASE \E k \in Wants : SearchStart(c, k)
  <2>1. PICK k \in Wants : SearchStart(c, k)
    BY <1>7
  <2>2. search[c].pc = "none"
    BY <2>1 DEF SearchStart
  <2>3. CASE Lock!ReadEnter(c) /\ VectorIds(c, k)
    <3>1. at'[c] = "in"
      BY <1>1, <2>3 DEF Lock!ReadEnter, Lock!Goes
    <3>2. QED  BY <1>2, <1>3, <2>2, <2>3, <3>1, VectorIdsKeeps
  <2>4. CASE Lock!ReadWait(c) /\ search' = [search EXCEPT ![c].want = k] /\ UNCHANGED drain
    <3> DEFINE r == [search[c] EXCEPT !.want = k]
    <3>1. r \in SearchTypes /\ r.pc = "none" /\ r.since = search[c].since
      BY <1>1, <2>2 DEF SearchTypes
    <3>2. search' = [search EXCEPT ![c] = r] /\ at'[c] = "waiting"
      BY <1>1, <2>4 DEF Lock!ReadWait, Lock!Goes
    <3> HIDE DEF r
    <3>3. Fits(c, r)
      BY <1>1, <3>1 DEF Fits, SearchOf
    <3>4. QED  BY <1>5, <2>2, <2>4, <3>1, <3>2, <3>3
  <2>5. QED  BY <2>1, <2>3, <2>4 DEF SearchStart
<1>8. CASE SearchResume(c)
  <2>1. at[c] = "waiting" /\ search[c].pc = "none"
    BY <1>1, <1>8, LockFacts
       DEF SearchResume, Lock!ReadResume, Lock!TypeOK, SearchOf
  <2>2. CASE at'[c] = "in" /\ VectorIds(c, search[c].want)
    <3>1. search[c].want \in Wants
      BY <1>1 DEF SearchTypes
    <3>2. QED  BY <1>2, <1>3, <2>1, <2>2, <3>1, VectorIdsKeeps
  <2>3. CASE at'[c] # "in" /\ UNCHANGED <<search, drain>>
    <3>1. search' = [search EXCEPT ![c] = search[c]]
      BY <1>1, <2>3
    <3>2. Fits(c, search[c])
      BY <1>1, <2>1 DEF Fits, SearchOf
    <3>3. QED  BY <1>1, <1>5, <2>1, <2>3, <3>1, <3>2
  <2>4. QED  BY <1>8, <2>2, <2>3 DEF SearchResume
<1>9. CASE SearchEnds(c)
  <2>1. at'[c] = "out"
    BY <1>1, <1>9 DEF SearchEnds, Lock!ReadExit, Lock!Goes
  <2>2. QED  BY <1>1, <1>5, <1>6, <1>9, <2>1 DEF SearchEnds
<1>10. CASE SearchCancel(c)
  <2>1. at'[c] = "out"
    BY <1>1, <1>10 DEF SearchCancel, Lock!ReadCancel, Lock!ReadExit, Lock!Goes
  <2>2. UNCHANGED drain
    BY <1>10 DEF SearchCancel
  <2>3. CASE search' = [search EXCEPT ![c] = NoSearch] /\ search[c].pc # "drain"
    BY <1>1, <1>5, <1>6, <2>1, <2>2, <2>3
  <2>4. CASE UNCHANGED search
    <3>1. search' = [search EXCEPT ![c] = search[c]]
      BY <1>1, <2>4
    <3>2. \A d : In(d, c)' = In(d, c)
      BY <2>2 DEF In, Elems
    <3>3. SearchOf(c)'
      BY <1>1, <1>3, <2>1, <2>4, <3>2, SearchFrame DEF SearchOf, Current, SearchStep
    <3>4. QuietOf(c)'
      BY <2>1 DEF QuietOf
    <3>5. QED  BY <1>1, <1>2, <1>3, <1>4, <2>2, <3>1, <3>3, <3>4, SearchAlone
  <2>5. \/ UNCHANGED search
        \/ search' = [search EXCEPT ![c] = NoSearch] /\ search[c].pc # "drain"
    <3>1. at[c] = "waiting" => search[c].pc = "none"
      BY <1>1 DEF SearchOf
    <3>2. QED  BY <1>10, <3>1 DEF SearchCancel, Lock!ReadCancel
  <2>6. QED  BY <2>3, <2>4, <2>5
<1>11. QED  BY <1>7, <1>8, <1>9, <1>10
-----------------------------------------------------------------------------
\* Steps of shared scans.

\* A scan goes on with some of its queue, and all that were in its group or are
\* dropped have their answer or nobody who waits for it.
LEMMA GoesKeeps ==
  ASSUME SearchesAssumption, IInv, NEW d \in Drains, NEW answered, DrainGoes(d, answered),
         UNCHANGED <<lockVars, data, write, done, bounds>>,
         \A c \in drain[d].batch :
           /\ answered[c] \in SearchTypes /\ answered[c].pc \in {"answered", "failed"}
           /\ answered[c].since \subseteq done
           /\ answered[c].pc = "answered" => answered[c].since \subseteq answered[c].seen
  PROVE  IInv'
<1> DEFINE t == Taken(d, drain[d].queue)
           left == Elems(drain[d].queue) \ (t.batch \cup Elems(t.queue))
           D == IF t.batch = {} THEN NoDrain
                ELSE [pc |-> "scan", queue |-> t.queue, batch |-> t.batch, seen |-> {}]
<1>1. /\ search \in [Clients -> SearchTypes] /\ drain \in [Drains -> DrainTypes]
      /\ done \subseteq Writes /\ NoSearch \in SearchTypes
      /\ NoSearch.pc = "none" /\ NoSearch.since = {}
  BY DEF IInv, TypeOK, SearchTypes, DrainTypes, SearchesAssumption, NoSearch, Wants
<1>2. drain[d].queue \in Seq(Clients) /\ drain[d].batch \subseteq Clients
  BY <1>1 DEF DrainTypes
<1>3. DrainOf(d) /\ \A e \in Drains : \A c \in Clients : WaiterOf(e, c)
  BY DEF IInv, DrainInv
<1>4. /\ t.batch \subseteq Elems(drain[d].queue)
      /\ Elems(t.queue) \subseteq Elems(drain[d].queue)
      /\ t.queue \in Seq(Clients) /\ NoRepeats(t.queue)
      /\ t.batch \cap Elems(t.queue) = {} /\ (t.batch = {} => t.queue = <<>>)
  BY <1>2, <1>3, TakenFacts DEF DrainOf
<1>5. Elems(drain[d].queue) \subseteq Clients
  BY <1>2 DEF Elems
<1>6. /\ D.queue = t.queue /\ D.batch = t.batch /\ D \in DrainTypes
      /\ D.pc = IF t.batch = {} THEN "none" ELSE "scan"
  <2>1. CASE t.batch = {}
    BY <1>4, <2>1 DEF NoDrain, DrainTypes
  <2>2. CASE t.batch # {}
    BY <1>4, <1>5, <2>2 DEF DrainTypes
  <2>3. QED  BY <2>1, <2>2
<1>7. /\ drain' = [drain EXCEPT ![d] = D]
      /\ search' = [c \in Clients |->
           IF c \in left THEN NoSearch
           ELSE IF c \notin drain[d].batch THEN search[c]
           ELSE IF Orphan(c) THEN NoSearch
           ELSE answered[c]]
  BY DEF DrainGoes
<1> HIDE DEF t, D
<1>8. /\ drain'[d] = D /\ \A e \in Drains : e # d => drain'[e] = drain[e]
      /\ drain' \in [Drains -> DrainTypes]
  BY <1>1, <1>6, <1>7
<1>9. \A e \in Drains, c \in Clients : e # d => (In(e, c)' <=> In(e, c))
  BY <1>8 DEF In, Elems
<1>10. \A c \in Clients : In(d, c)' <=> c \in t.batch \cup Elems(t.queue)
  <2>1. drain'[d].queue = t.queue /\ drain'[d].batch = t.batch
    BY <1>6, <1>8
  <2>2. QED  BY <2>1 DEF In, Elems
<1>11. ASSUME NEW c \in Clients
       PROVE  /\ In(d, c)' => In(d, c) /\ c \notin drain[d].batch
              /\ In(d, c)' \/ ~In(d, c) => search'[c] = search[c]
              /\ ~In(d, c)' /\ In(d, c) =>
                   search'[c] = NoSearch \/ (c \in drain[d].batch /\ search'[c] = answered[c])
  <2>1. In(d, c)' => c \in Elems(drain[d].queue)
    BY <1>4, <1>10
  <2>2. c \in Elems(drain[d].queue) => c \notin drain[d].batch
    BY <1>3 DEF DrainOf
  <2>3. c \in left <=> c \in Elems(drain[d].queue) /\ ~In(d, c)'
    BY <1>10
  <2> HIDE DEF left
  <2>4. QED  BY <1>7, <2>1, <2>2, <2>3 DEF In
<1>12. search' \in [Clients -> SearchTypes]
  <2>1. \A c \in Clients : search'[c] \in SearchTypes
    BY <1>1, <1>11
  <2>2. QED  BY <1>7, <2>1
<1>13. ASSUME NEW e \in Drains, NEW c \in Clients, In(e, c)'
       PROVE  In(e, c) /\ search'[c] = search[c]
  BY <1>3, <1>9, <1>11, <1>13 DEF WaiterOf
<1>14. DrainInv'
  <2> SUFFICES ASSUME NEW e \in Drains
               PROVE  DrainOf(e)' /\ \A c \in Clients : WaiterOf(e, c)'
    BY DEF DrainInv
  <2>1. ASSUME NEW c \in Clients  PROVE WaiterOf(e, c)'
    BY <1>3, <1>13 DEF WaiterOf
  <2>2. CASE e = d
    <3>1. /\ NoRepeats(drain'[e].queue) /\ drain'[e].batch \cap Elems(drain'[e].queue) = {}
          /\ drain'[e].pc \in {"none", "scan"}
          /\ drain'[e].pc = "none" => drain'[e].queue = <<>> /\ drain'[e].batch = {}
      BY <1>4, <1>6, <1>8, <2>2
    <3>2. DrainOf(e)'
      BY <3>1 DEF DrainOf, NoRepeats, Elems
    <3>3. QED  BY <2>1, <3>2
  <2>3. CASE e # d
    <3>1. DrainOf(e) /\ drain'[e] = drain[e] /\ drain[e].batch \subseteq Clients
      BY <1>1, <1>8, <2>3 DEF IInv, DrainInv, DrainTypes
    <3>2. \A c \in drain[e].batch : In(e, c)' /\ search'[c] = search[c]
      BY <1>9, <1>13, <2>3, <3>1 DEF In
    <3>3. DrainOf(e)'
      BY <3>1, <3>2 DEF DrainOf, NoRepeats, Elems
    <3>4. QED  BY <2>1, <3>3
  <2>4. QED  BY <2>2, <2>3
<1>15. SearchStep /\ UNCHANGED <<at, cache>>
  BY DEF SearchStep, lockVars, data, bounds
<1>16. /\ (\A v : Unseen(v)' = Unseen(v)) /\ Quiet' = Quiet /\ at' = at
       /\ db' = db /\ gen' = gen /\ done' = done
  BY <1>15, SearchFrame DEF SearchStep
<1>17. ASSUME NEW c \in Clients  PROVE SearchOf(c)' /\ QuietOf(c)'
  <2>1. SearchOf(c) /\ QuietOf(c)
    BY DEF IInv, SearchInv, QuietSearches
  <2>2. CASE In(d, c)' \/ ~In(d, c)
    <3>1. search'[c] = search[c]
      BY <1>11, <2>2
    <3>2. \A e \in Drains : In(e, c)' <=> In(e, c)
      BY <1>9, <1>11, <2>2
    <3>3. SearchOf(c)'
      BY <1>16, <2>1, <3>1, <3>2 DEF SearchOf, Current
    <3>4. QuietOf(c)'
      BY <1>16, <2>1, <3>1, <3>2 DEF QuietOf
    <3>5. QED  BY <3>3, <3>4
  <2>3. CASE ~In(d, c)' /\ In(d, c)
    <3>1. \A e \in Drains : ~In(e, c)'
      BY <1>3, <1>9, <2>3 DEF WaiterOf
    <3>2. at[c] # "waiting"
      BY <1>3, <2>1, <2>3 DEF WaiterOf, SearchOf
    <3>3. /\ search'[c].pc \in {"none", "answered", "failed"}
          /\ search'[c].since \subseteq done
          /\ search'[c].pc = "answered" => search'[c].since \subseteq search'[c].seen
      BY <1>1, <1>11, <2>3
    <3>4. SearchOf(c)'
      BY <1>16, <3>2, <3>3 DEF SearchOf
    <3>5. QuietOf(c)'
      BY <3>1, <3>3 DEF QuietOf
    <3>6. QED  BY <3>4, <3>5
  <2>4. QED  BY <2>2, <2>3
<1>18. LP!LockInv' /\ CacheInv'
  BY <1>15, <1>16, LockSame DEF IInv, CacheInv, Entries, Current
<1>19. TypeOK'
  <2>1. Lock!TypeOK'
    BY <1>18, PTL, LockFacts
  <2>2. upsets' \in Seq(Upsets) /\ Len(upsets') <= MaxUpsets
    BY <1>15, SearchFrame
  <2>3. QED
    BY <1>8, <1>12, <1>15, <2>1, <2>2, SMTT(30) DEF IInv, TypeOK, SearchStep, SearchTypes, DrainTypes
<1>20. QED
  BY <1>14, <1>15, <1>17, <1>18, <1>19, SearchFrame DEF IInv, SearchInv, QuietSearches

\* The thread of a scan, which reads the index while its group waits.
LEMMA ScanKeeps ==
  ASSUME SearchesAssumption, IInv, NEW d \in Drains, DrainScans(d) \/ DrainScanRaises(d)
  PROVE  IInv'
<1>1. /\ drain \in [Drains -> DrainTypes] /\ index \subseteq Writes /\ done \subseteq index
      /\ \A c \in Clients : search[c].since \subseteq done
  BY DEF IInv, TypeOK, DrainTypes, IndexInv, SearchInv, SearchOf
<1>2. SearchStep /\ UNCHANGED <<lockVars, cache, search>> /\ at' = at
  BY DEF DrainScans, DrainScanRaises, Spend, SearchStep, lockVars, data, bounds
<1>3. PICK D \in DrainTypes :
        /\ drain' = [drain EXCEPT ![d] = D]
        /\ D.queue = drain[d].queue /\ D.batch = drain[d].batch
        /\ D.pc \in {"read", "raised"}
        /\ D.pc = "read" => D.seen = IF d = Full THEN index ELSE (1..d[2]) \cap index
  <2>1. CASE DrainScans(d)
    <3> DEFINE seen == IF d = Full THEN index ELSE (1..d[2]) \cap index
               D == [drain[d] EXCEPT !.pc = "read", !.seen = seen]
    <3>1. seen \in SUBSET Writes
      BY <1>1
    <3>2. drain' = [drain EXCEPT ![d] = D]
      BY <1>1, <2>1 DEF DrainScans
    <3> HIDE DEF seen
    <3>3. /\ D \in DrainTypes /\ D.queue = drain[d].queue /\ D.batch = drain[d].batch
          /\ D.pc = "read" /\ D.seen = seen
      BY <1>1, <3>1 DEF DrainTypes
    <3> HIDE DEF D
    <3>4. QED  BY <3>2, <3>3 DEF seen
  <2>2. CASE DrainScanRaises(d)
    <3> DEFINE D == [drain[d] EXCEPT !.pc = "raised"]
    <3>1. drain' = [drain EXCEPT ![d] = D]
      BY <1>1, <2>2 DEF DrainScanRaises
    <3>2. /\ D \in DrainTypes /\ D.queue = drain[d].queue /\ D.batch = drain[d].batch
          /\ D.pc = "raised"
      BY <1>1 DEF DrainTypes
    <3> HIDE DEF D
    <3>3. QED  BY <3>1, <3>2
  <2>3. QED  BY <2>1, <2>2
<1>4. /\ drain'[d] = D /\ \A e \in Drains : e # d => drain'[e] = drain[e]
      /\ drain' \in [Drains -> DrainTypes]
  BY <1>1, <1>3
<1>5. \A e \in Drains, c \in Clients : In(e, c)' <=> In(e, c)
  BY <1>3, <1>4 DEF In, Elems
<1>6. /\ (\A v : Unseen(v)' = Unseen(v)) /\ Quiet' = Quiet
      /\ db' = db /\ gen' = gen /\ done' = done /\ search' = search
  BY <1>2, SearchFrame DEF SearchStep
<1>7. DrainInv'
  <2> SUFFICES ASSUME NEW e \in Drains
               PROVE  DrainOf(e)' /\ \A c \in Clients : WaiterOf(e, c)'
    BY DEF DrainInv
  <2>1. DrainOf(e) /\ \A c \in Clients : WaiterOf(e, c)
    BY DEF IInv, DrainInv
  <2>2. ASSUME NEW c \in Clients  PROVE WaiterOf(e, c)'
    BY <1>5, <1>6, <2>1 DEF WaiterOf
  <2>3. CASE e # d
    BY <1>4, <1>6, <2>1, <2>2, <2>3 DEF DrainOf, NoRepeats, Elems
  <2>4. CASE e = d
    <3>1. ASSUME NEW c \in D.batch, D.pc = "read"  PROVE search[c].since \subseteq D.seen
      <4>1. c \in Clients /\ In(d, c)
        BY <1>3, <3>1 DEF DrainTypes, In
      <4>2. d # Full => search[c].since \subseteq 1..d[2]
        BY <2>1, <2>4, <4>1 DEF WaiterOf
      <4>3. QED  BY <1>1, <1>3, <3>1, <4>1, <4>2
    <3>2. /\ NoRepeats(drain'[d].queue) /\ drain'[d].batch \cap Elems(drain'[d].queue) = {}
          /\ drain'[d].pc \in {"read", "raised"}
      BY <1>3, <1>4, <2>1, <2>4 DEF DrainOf
    <3>3. DrainOf(d)'
      BY <1>4, <1>6, <3>1, <3>2 DEF DrainOf, NoRepeats, Elems
    <3>4. QED  BY <2>2, <2>4, <3>3
  <2>5. QED  BY <2>3, <2>4
<1>8. ASSUME NEW c \in Clients  PROVE SearchOf(c)' /\ QuietOf(c)'
  <2>1. SearchOf(c) /\ QuietOf(c)
    BY DEF IInv, SearchInv, QuietSearches
  <2>2. SearchOf(c)'
    BY <1>2, <1>5, <1>6, <2>1 DEF SearchOf, Current
  <2>3. QuietOf(c)'
    BY <1>2, <1>5, <1>6, <2>1 DEF QuietOf
  <2>4. QED  BY <2>2, <2>3
<1>9. LP!LockInv' /\ CacheInv'
  BY <1>2, <1>6, LockSame DEF IInv, CacheInv, Entries, Current
<1>10. TypeOK'
  <2>1. Lock!TypeOK'
    BY <1>9, PTL, LockFacts
  <2>2. upsets' \in Seq(Upsets) /\ Len(upsets') <= MaxUpsets
    BY <1>2, SearchFrame
  <2>3. QED
    BY <1>2, <1>4, <2>1, <2>2 DEF IInv, TypeOK, SearchStep, DrainTypes
<1>11. QED
  BY <1>2, <1>7, <1>8, <1>9, <1>10, SearchFrame DEF IInv, SearchInv, QuietSearches

\* A scan takes its first group, or answers one.
LEMMA DrainKeeps ==
  ASSUME SearchesAssumption, IInv, NEW d \in Drains,
         DrainStarts(d) \/ DrainAnswers(d) \/ DrainFails(d)
  PROVE  IInv'
<1>1. /\ search \in [Clients -> SearchTypes] /\ drain \in [Drains -> DrainTypes]
      /\ DrainOf(d) /\ \A c \in Clients : SearchOf(c)
      /\ drain[d].batch \subseteq Clients /\ drain[d].seen \subseteq Writes
  BY DEF IInv, TypeOK, SearchTypes, DrainTypes, DrainInv, SearchInv
<1>2. CASE DrainStarts(d)
  <2>1. drain[d].batch = {}
    BY <1>1, <1>2 DEF DrainStarts, DrainOf
  <2>2. QED  BY <1>2, <2>1, GoesKeeps DEF DrainStarts
<1>3. CASE DrainAnswers(d)
  <2> DEFINE answered == [c \in Clients |-> [search[c] EXCEPT !.pc = "answered",
                                                              !.seen = drain[d].seen]]
  <2>1. ASSUME NEW c \in drain[d].batch
        PROVE  /\ answered[c] \in SearchTypes /\ answered[c].pc = "answered"
               /\ answered[c].since \subseteq done
               /\ answered[c].since \subseteq answered[c].seen
    <3>1. search[c].since \subseteq drain[d].seen
      BY <1>1, <1>3 DEF DrainAnswers, DrainOf
    <3>2. c \in Clients /\ search[c] \in SearchTypes /\ search[c].since \subseteq done
      BY <1>1 DEF SearchOf
    <3>3. answered[c] = [search[c] EXCEPT !.pc = "answered", !.seen = drain[d].seen]
      BY <3>2
    <3>4. drain[d].seen \in SUBSET Writes
      BY <1>1
    <3> HIDE DEF answered
    <3>5. QED  BY <3>1, <3>2, <3>3, <3>4 DEF SearchTypes
  <2>2. DrainGoes(d, answered) /\ UNCHANGED <<lockVars, data, write, done, bounds>>
    BY <1>3 DEF DrainAnswers
  <2> HIDE DEF answered
  <2>3. QED  BY <2>1, <2>2, GoesKeeps
<1>4. CASE DrainFails(d)
  <2> DEFINE answered == [c \in Clients |-> [search[c] EXCEPT !.pc = "failed"]]
  <2>1. ASSUME NEW c \in drain[d].batch
        PROVE  /\ answered[c] \in SearchTypes /\ answered[c].pc = "failed"
               /\ answered[c].since \subseteq done
    <3>1. c \in Clients /\ search[c] \in SearchTypes /\ search[c].since \subseteq done
      BY <1>1 DEF SearchOf
    <3>2. answered[c] = [search[c] EXCEPT !.pc = "failed"]
      BY <3>1
    <3> HIDE DEF answered
    <3>3. QED  BY <3>1, <3>2 DEF SearchTypes
  <2>2. DrainGoes(d, answered) /\ UNCHANGED <<lockVars, data, write, done, bounds>>
    BY <1>4 DEF DrainFails
  <2> HIDE DEF answered
  <2>3. QED  BY <2>1, <2>2, GoesKeeps
<1>5. QED  BY <1>2, <1>3, <1>4

-----------------------------------------------------------------------------
\* Steps of writes.

WriteTypes == [kind : {"upsert", "delete", "patch"},
               todo : Seq({"commit", "index", "invalidate"}), made : 0..MaxWrites]

\* The steps of a write, in their order.
LEMMA TodoFacts ==
  ASSUME NEW todo \in Todos
  PROVE  /\ todo \in Seq({"commit", "index", "invalidate"})
         /\ todo # <<>> =>
              /\ Tail(todo) \in Todos
              /\ Head(todo) \in Elems(todo)
              /\ Elems(Tail(todo)) = Elems(todo) \ {Head(todo)}
              /\ "commit" \in Elems(todo) <=> Head(todo) = "commit"
              /\ Head(todo) = "commit" => "invalidate" \in Elems(Tail(todo))
         /\ todo = <<>> => Elems(todo) = {}
<1>1. CASE todo = <<>>
  BY <1>1 DEF Elems
<1>2. CASE todo = <<"index">>
  BY <1>2 DEF Elems, Todos
<1>3. CASE todo = <<"invalidate", "index">>
  BY <1>3 DEF Elems, Todos
<1>4. CASE todo = <<"index", "invalidate">>
  BY <1>4 DEF Elems, Todos
<1>5. CASE todo = <<"commit", "invalidate", "index">>
  BY <1>5 DEF Elems, Todos
<1>6. CASE todo = <<"commit", "index", "invalidate">>
  BY <1>6 DEF Elems, Todos
<1>7. CASE todo = <<"commit", "invalidate">>
  BY <1>7 DEF Elems, Todos
<1>8. CASE todo = <<"invalidate">>
  BY <1>8 DEF Elems, Todos
<1>9. QED
  BY <1>1, <1>2, <1>3, <1>4, <1>5, <1>6, <1>7, <1>8
     DEF Todos, UpsertSteps, DeleteSteps, PatchSteps

\* Writers with a step to come, when one of them goes on.
LEMMA LeftFacts ==
  ASSUME SearchesAssumption, NEW w \in Writers, NEW s,
         \A u \in Writers : u # w => (Has(u, s)' <=> Has(u, s))
  PROVE  /\ Cardinality(Left(s)) \in Nat /\ Cardinality(Left(s)') \in Nat
         /\ (Has(w, s)' <=> Has(w, s)) => Cardinality(Left(s)') = Cardinality(Left(s))
         /\ Has(w, s)' /\ ~Has(w, s) => Cardinality(Left(s)') = Cardinality(Left(s)) + 1
         /\ ~Has(w, s)' /\ Has(w, s) => Cardinality(Left(s)') = Cardinality(Left(s)) - 1
<1>1. Left(s) \in SUBSET Writers /\ Left(s)' \in SUBSET Writers /\ IsFiniteSet(Writers)
  BY DEF Left, SearchesAssumption
<1>2. IsFiniteSet(Left(s)) /\ IsFiniteSet(Left(s)')
  BY <1>1, FS_Subset
<1>3. Cardinality(Left(s)) \in Nat /\ Cardinality(Left(s)') \in Nat
  BY <1>2, FS_CardinalityType
<1>4. ASSUME Has(w, s)' <=> Has(w, s)  PROVE Cardinality(Left(s)') = Cardinality(Left(s))
  <2>1. Left(s)' = Left(s)
    BY <1>4 DEF Left
  <2>2. QED  BY <2>1
<1>5. ASSUME Has(w, s)', ~Has(w, s)
      PROVE  Cardinality(Left(s)') = Cardinality(Left(s)) + 1
  <2>1. Left(s)' = Left(s) \cup {w} /\ w \notin Left(s)
    BY <1>5 DEF Left
  <2>2. QED  BY <1>2, <2>1, FS_AddElement
<1>6. ASSUME ~Has(w, s)', Has(w, s)
      PROVE  Cardinality(Left(s)') = Cardinality(Left(s)) - 1
  <2>1. Left(s)' = Left(s) \ {w} /\ w \in Left(s)
    BY <1>6 DEF Left
  <2>2. QED  BY <1>2, <2>1, FS_RemoveElement
<1>7. QED  BY <1>3, <1>4, <1>5, <1>6

\* What a step of one write may not disturb.
LEMMA WriteAlone ==
  ASSUME SearchesAssumption, IInv, NEW w \in Writers, NEW r \in WriteTypes,
         UNCHANGED <<search, drain>>, write' = [write EXCEPT ![w] = r],
         \A t \in Clients \cup Writers : t # w => at'[t] = at[t],
         LP!LockInv', WriterOf(w)', CountInv', IndexInv', QuietWrites',
         upsets' \in Seq(Upsets), Len(upsets') <= MaxUpsets,
         begun' \in 0..MaxWrites, db' \in Nat, gen' \in Nat,
         db <= db', index \subseteq index', done \subseteq done',
         \/ gen' = gen /\ UNCHANGED cache
         \/ gen' = gen + 1 /\ cache' = <<>>,
         gen' = gen => \A v \in 1..db' : Unseen(v) \/ v > db => Unseen(v)',
         Quiet' => Quiet,
         Quiet' => db' = db \/ \A c \in Clients : at[c] # "in"
  PROVE  IInv'
<1>1. /\ write' \in [Writers -> WriteTypes]
      /\ \A u \in Writers : u # w => write'[u] = write[u]
      /\ db \in Nat /\ gen \in Nat /\ MaxWrites \in Nat
  BY DEF IInv, TypeOK, WriteTypes, SearchesAssumption
<1>2. \A c \in Clients : at'[c] = at[c]
  BY DEF SearchesAssumption
<1>3. \A u \in Writers : \A s : u # w => (Has(u, s)' <=> Has(u, s))
  BY <1>1 DEF Has, Elems
<1>4. WriteInv'
  <2> SUFFICES ASSUME NEW u \in Writers, u # w  PROVE WriterOf(u)'
    BY DEF WriteInv
  <2>1. WriterOf(u) /\ at'[u] = at[u] /\ write'[u] = write[u] /\ write[u].made \in Nat
    BY <1>1 DEF IInv, WriteInv, TypeOK
  <2>2. \A s : Has(u, s)' <=> Has(u, s)
    BY <1>3
  <2>3. QED  BY <1>1, <2>1, <2>2 DEF WriterOf
<1>5. ASSUME NEW made \in Nat, made <= db, Current(made), gen' = gen  PROVE Current(made)'
  <2> SUFFICES ASSUME NEW v \in (made + 1)..db'  PROVE Unseen(v)'
    BY DEF Current
  <2>1. v \in 1..db' /\ (v \in (made + 1)..db \/ v > db)
    BY <1>1
  <2>2. QED  BY <1>5, <2>1 DEF Current
<1>6. CacheInv'
  <2>1. CASE gen' = gen /\ UNCHANGED cache
    <3> SUFFICES ASSUME NEW e \in Entries  PROVE e.made <= db' /\ Current(e.made)'
      BY <2>1 DEF CacheInv, Entries
    <3>1. e.made \in Nat /\ e.made <= db /\ Current(e.made)
      BY <1>1, EntryTypes DEF IInv, CacheInv
    <3>2. QED  BY <1>1, <1>5, <2>1, <3>1
  <2>2. CASE cache' = <<>>
    BY <2>2 DEF CacheInv, Entries
  <2>3. QED  BY <2>1, <2>2
<1>7. \A d, c : In(d, c)' = In(d, c)
  BY DEF In, Elems
<1>8. ASSUME NEW c \in Clients  PROVE SearchOf(c)' /\ QuietOf(c)'
  <2>1. SearchOf(c) /\ QuietOf(c) /\ search' = search
    BY DEF IInv, SearchInv, QuietSearches
  <2>2. search[c].allow \in Nat /\ search[c].g \in Nat
    BY <1>1 DEF IInv, TypeOK
  <2>3. search[c].pc = "store" /\ search[c].g = gen' => Current(search[c].allow)'
    <3>1. ASSUME search[c].pc = "store", search[c].g = gen'
          PROVE  gen' = gen /\ Current(search[c].allow) /\ search[c].allow <= db
      BY <1>1, <2>1, <2>2, <3>1 DEF SearchOf
    <3> DEFINE a == search[c].allow
    <3>2. search'[c].allow = a
      BY <2>1
    <3>3. ASSUME NEW v, search[c].pc = "store", search[c].g = gen', v \in (a + 1)..db'
          PROVE  Unseen(v)'
      <4>1. gen' = gen /\ Current(a) /\ a <= db
        BY <3>1, <3>3
      <4>2. v \in 1..db' /\ (v \in (a + 1)..db \/ v > db)
        BY <1>1, <2>2, <3>3
      <4>3. QED  BY <4>1, <4>2 DEF Current
    <3>4. QED  BY <3>2, <3>3 DEF Current
  <2>4. SearchOf(c)'
    <3>1. /\ search[c].pc \in {"select", "store"} => search[c].g <= gen'
          /\ search[c].pc \in {"store", "scan"} => search[c].allow <= db'
          /\ search[c].since \subseteq done'
      BY <1>1, <2>1, <2>2, SMTT(30) DEF SearchOf
    <3>2. QED  BY <1>2, <1>7, <2>1, <2>3, <3>1 DEF SearchOf
  <2>5. QuietOf(c)'
    BY <1>2, <1>7, <2>1 DEF QuietOf
  <2>6. QED  BY <2>4, <2>5
<1>9. DrainInv'
  <2>1. \A d \in Drains : DrainOf(d)' <=> DrainOf(d)
    BY DEF DrainOf, NoRepeats, Elems
  <2>2. \A d \in Drains, c \in Clients : WaiterOf(d, c)' <=> WaiterOf(d, c)
    BY <1>7 DEF WaiterOf
  <2>3. QED  BY <2>1, <2>2 DEF IInv, DrainInv
<1>10. TypeOK'
  <2>1. Lock!TypeOK'
    BY PTL, LockFacts
  <2>2. db' \in 0..MaxWrites /\ gen' \in 0..MaxWrites
    <3>1. /\ Cardinality(Left("commit")') \in Nat
          /\ Cardinality(Left("invalidate")') \in Nat
      BY <1>3, LeftFacts
    <3>2. QED  BY <1>1, <3>1 DEF CountInv
  <2>3. index' \subseteq Writes /\ done' \subseteq Writes
    BY <1>1, <2>2 DEF IndexInv, Writes
  <2>4. CacheTypes'
    <3>1. CASE UNCHANGED cache
      BY <3>1 DEF IInv, TypeOK, CacheTypes
    <3>2. CASE cache' = <<>>
      BY <3>2 DEF CacheTypes, SearchesAssumption
    <3>3. QED  BY <3>1, <3>2
  <2>5. QED
    BY <1>1, <2>1, <2>2, <2>3, <2>4 DEF IInv, TypeOK, WriteTypes, CacheTypes
<1>11. QED
  BY <1>4, <1>6, <1>8, <1>9, <1>10 DEF IInv, SearchInv, QuietSearches
\* The types a step of a write starts from, and what is to come of it.
LEMMA WriteFacts ==
  ASSUME SearchesAssumption, IInv, NEW w \in Writers
  PROVE  /\ write \in [Writers -> WriteTypes] /\ write[w] \in WriteTypes
         /\ db \in Nat /\ gen \in Nat /\ MaxWrites \in Nat /\ begun \in 0..MaxWrites
         /\ at \in [Clients \cup Writers -> {"out", "waiting", "in"}]
         /\ WriterOf(w) /\ IndexInv /\ QuietWrites /\ CountInv /\ LP!LockInv
         /\ upsets \in Seq(Upsets) /\ Len(upsets) <= MaxUpsets /\ MaxUpsets \in Nat
         /\ Apart
         /\ \A u \in Writers : write[u].made <= db
         /\ NoWrite \in WriteTypes /\ NoWrite.made = 0 /\ NoWrite.todo = <<>>
         /\ Elems(<<>>) = {} /\ <<>> \in Todos
<1>1. NoWrite \in WriteTypes /\ NoWrite.made = 0 /\ NoWrite.todo = <<>>
  BY DEF NoWrite, WriteTypes, SearchesAssumption
<1>2. Elems(<<>>) = {} /\ <<>> \in Todos
  BY DEF Elems, Todos
<1>3. QED
  BY <1>1, <1>2, LockFacts
     DEF IInv, TypeOK, WriteTypes, WriteInv, WriterOf, SearchesAssumption

\* One writer's record is written.
LEMMA HasFacts ==
  ASSUME SearchesAssumption, IInv, NEW w \in Writers, NEW r,
         write' = [write EXCEPT ![w] = r]
  PROVE  /\ write'[w] = r
         /\ \A u \in Writers : u # w => write'[u] = write[u]
         /\ \A s : Has(w, s)' <=> s \in Elems(r.todo)
         /\ \A u \in Writers : \A s : u # w => (Has(u, s)' <=> Has(u, s))
<1>1. write'[w] = r /\ \A u \in Writers : u # w => write'[u] = write[u]
  BY DEF IInv, TypeOK
<1>2. QED  BY <1>1 DEF Has, Elems

\* When a list that misses a write may stay cached.
LEMMA UnseenKeeps ==
  ASSUME SearchesAssumption, IInv, NEW w \in Writers, NEW r,
         write' = [write EXCEPT ![w] = r], NEW v, Unseen(v),
         v \in done' => Told(v),
         r.made = v /\ "invalidate" \notin Elems(r.todo) => Told(v),
         "raise" \in Elems(upsets) => "raise" \in Elems(upsets)',
         \/ "raise" \in Elems(upsets)'
         \/ write[w].made = v /\ Has(w, "invalidate") =>
              r.made = v /\ "invalidate" \in Elems(r.todo)
  PROVE  Unseen(v)'
<1>1. /\ write'[w] = r
      /\ \A u \in Writers : u # w => write'[u] = write[u]
      /\ \A s : Has(w, s)' <=> s \in Elems(r.todo)
      /\ \A u \in Writers : \A s : u # w => (Has(u, s)' <=> Has(u, s))
  BY HasFacts
<1>2. ~Told(v)'
  <2>1. ~Told(v)
    BY DEF Unseen
  <2> SUFFICES ASSUME NEW u \in Writers, write'[u].made = v, ~Has(u, "invalidate")'
               PROVE  FALSE
    BY <2>1 DEF Told
  <2>2. CASE u = w
    BY <1>1, <2>1, <2>2
  <2>3. CASE u # w
    BY <1>1, <2>1, <2>3 DEF Told
  <2>4. QED  BY <2>2, <2>3
<1>3. "raise" \notin Elems(upsets)' => Invalidates(v)'
  <2> SUFFICES ASSUME "raise" \notin Elems(upsets)'  PROVE Invalidates(v)'
    OBVIOUS
  <2>1. PICK u \in Writers : write[u].made = v /\ Has(u, "invalidate")
    BY DEF Unseen, Invalidates, Has
  <2>2. write'[u].made = v /\ Has(u, "invalidate")'
    BY <1>1, <2>1
  <2>3. QED  BY <2>2 DEF Invalidates, Has
<1>4. QED  BY <1>2, <1>3 DEF Unseen

\* A commit makes every allowlist miss one write more, which is about to say so.
LEMMA CommitKeeps ==
  ASSUME SearchesAssumption, IInv, NEW w \in Writers, Commit(w)
  PROVE  IInv'
<1> DEFINE todo == write[w].todo
           r == [write[w] EXCEPT !.todo = Tail(todo), !.made = db + 1]
<1>1. /\ todo # <<>> /\ Head(todo) = "commit" /\ at[w] # "waiting"
      /\ db' = db + 1
      /\ index' = IF write[w].kind = "patch" THEN index \cup {db + 1} ELSE index
      /\ UNCHANGED <<lockVars, gen, cache, search, drain, done, begun, upsets>>
      /\ at' = at /\ LP!LockInv'
  BY WriteFacts, LockSame DEF Commit, bounds, lockVars
<1>2. /\ Tail(todo) \in Todos /\ Elems(Tail(todo)) = Elems(todo) \ {"commit"}
      /\ "commit" \in Elems(todo) /\ "invalidate" \in Elems(Tail(todo))
      /\ Tail(todo) \in Seq({"commit", "index", "invalidate"})
  BY <1>1, WriteFacts, TodoFacts DEF WriterOf
<1>3. write[w].made = 0 /\ Has(w, "commit") /\ Has(w, "invalidate")
      /\ (~Has(w, "index") => write[w].kind = "patch")
  BY <1>2, WriteFacts DEF WriterOf, Has
<1>4. /\ write' = [write EXCEPT ![w] = r]
      /\ r.todo = Tail(todo) /\ r.made = db + 1 /\ r.kind = write[w].kind
      /\ db + 1 \in 0..MaxWrites => r \in WriteTypes
  <2>1. write[w] \in WriteTypes /\ write \in [Writers -> WriteTypes]
    BY WriteFacts
  <2>2. write' = [write EXCEPT ![w] = r]
    BY <2>1 DEF Commit
  <2>3. r.todo = Tail(todo) /\ r.made = db + 1 /\ r.kind = write[w].kind
    BY <2>1 DEF WriteTypes
  <2>4. db + 1 \in 0..MaxWrites => r \in WriteTypes
    BY <1>2, <2>1 DEF WriteTypes
  <2>5. QED  BY <2>2, <2>3, <2>4
<1> HIDE DEF todo, r
<1>5. /\ write'[w] = r
      /\ \A u \in Writers : u # w => write'[u] = write[u]
      /\ \A s : Has(w, s)' <=> Has(w, s) /\ s # "commit"
      /\ \A u \in Writers : \A s : u # w => (Has(u, s)' <=> Has(u, s))
  BY <1>2, <1>4, HasFacts DEF Has, todo
<1>6. CountInv'
  <2>1. /\ Cardinality(Left("commit")') = Cardinality(Left("commit")) - 1
        /\ Cardinality(Left("invalidate")') = Cardinality(Left("invalidate"))
        /\ Cardinality(Left("commit")) \in Nat
    BY <1>3, <1>5, LeftFacts
  <2>2. QED  BY <1>1, <2>1, WriteFacts DEF CountInv
<1>7. r \in WriteTypes
  <2>1. Cardinality(Left("commit")') \in Nat
    BY <1>5, LeftFacts
  <2>2. db + 1 \in 0..MaxWrites
    BY <1>1, <1>6, <2>1, WriteFacts DEF CountInv
  <2>3. QED  BY <1>4, <2>2
<1>8. IndexInv' /\ index \subseteq index'
  BY <1>1, WriteFacts DEF IndexInv
<1>9. WriterOf(w)'
  <2>1. write'[w].made # 0 /\ write'[w].made <= db' /\ write'[w].todo \in Todos
        /\ at'[w] # "waiting"
    <3>1. db \in Nat
      BY WriteFacts
    <3>2. write'[w].made = db + 1 /\ write'[w].todo = Tail(todo)
      BY <1>4, <1>5
    <3>3. write'[w].made # 0 /\ write'[w].made <= db'
      BY <1>1, <3>1, <3>2
    <3>4. at'[w] # "waiting"
      BY <1>1
    <3>5. QED  BY <1>2, <3>2, <3>3, <3>4
  <2>2. ~Has(w, "index")' => write'[w].made \in index'
    BY <1>1, <1>3, <1>4, <1>5
  <2>3. QED  BY <1>5, <2>1, <2>2 DEF WriterOf
<1>10. Quiet => at[w] = "in"
  <2>1. at[w] \in {"out", "waiting", "in"}
    BY WriteFacts
  <2>2. QED  BY <1>1, <2>1, WriteFacts DEF QuietWrites, todo
<1>11. Quiet' = Quiet
  BY <1>1 DEF Quiet, Elems
<1>12. QuietWrites'
  <2> SUFFICES ASSUME Quiet
               PROVE  /\ \A u \in Writers : /\ write'[u].todo # <<>> => at'[u] # "out"
                                            /\ write'[u].made # 0 => at'[u] = "in"
                      /\ \A v \in 1..db' : \/ v \in index'
                           \/ \E u \in Writers : write'[u].made = v /\ Has(u, "index")'
    BY <1>11 DEF QuietWrites
  <2>1. \A u \in Writers : /\ write'[u].todo # <<>> => at'[u] # "out"
                           /\ write'[u].made # 0 => at'[u] = "in"
    BY <1>1, <1>5, <1>10, WriteFacts DEF QuietWrites
  <2>2. ASSUME NEW v \in 1..db'
        PROVE  v \in index' \/ \E u \in Writers : write'[u].made = v /\ Has(u, "index")'
    <3>1. CASE v = db + 1
      BY <1>1, <1>3, <1>4, <1>5, <3>1
    <3>2. CASE v # db + 1
      <4>1. v \in 1..db /\ v # 0
        BY <1>1, <3>2, WriteFacts
      <4>2. v \in index \/ \E u \in Writers : write[u].made = v /\ Has(u, "index")
        BY <4>1, WriteFacts DEF QuietWrites
      <4>3. QED  BY <1>3, <1>5, <1>8, <4>1, <4>2
    <3>3. QED  BY <3>1, <3>2
  <2>3. QED  BY <2>1, <2>2
<1>13. ASSUME NEW v \in 1..db', Unseen(v) \/ v > db  PROVE Unseen(v)'
  <2>1. CASE v = db + 1
    <3>1. ~Told(v)'
      <4>1. v \notin done'
        BY <1>1, <2>1, WriteFacts DEF IndexInv
      <4>2. \A u \in Writers : u # w => write'[u].made # v
        <5>1. \A u \in Writers : write[u].made <= db /\ write[u].made \in Nat
          BY WriteFacts DEF WriteTypes
        <5>2. QED  BY <1>5, <2>1, <5>1, WriteFacts
      <4>3. Has(w, "invalidate")'
        BY <1>3, <1>5
      <4>4. QED  BY <4>1, <4>2, <4>3 DEF Told
    <3>2. Invalidates(v)'
      BY <1>2, <1>4, <1>5, <2>1 DEF Invalidates
    <3>3. QED  BY <3>1, <3>2 DEF Unseen
  <2>2. CASE v # db + 1
    <3>1. Unseen(v) /\ v # 0 /\ r.made # v /\ write[w].made # v
      BY <1>1, <1>3, <1>4, <1>13, <2>2, WriteFacts
    <3>2. v \in done' => Told(v)
      BY <1>1 DEF Told
    <3>3. Elems(upsets)' = Elems(upsets)
      BY <1>1 DEF Elems
    <3>4. QED  BY <1>4, <3>1, <3>2, <3>3, UnseenKeeps
  <2>3. QED  BY <2>1, <2>2
<1>14. Quiet' => \A c \in Clients : at[c] # "in"
  BY <1>10, <1>11, WriteFacts DEF Apart
<1>15. /\ upsets' \in Seq(Upsets) /\ Len(upsets') <= MaxUpsets
       /\ begun' \in 0..MaxWrites /\ db' \in Nat /\ gen' \in Nat /\ db <= db'
       /\ done \subseteq done' /\ gen' = gen /\ UNCHANGED <<search, drain, cache>>
  BY <1>1, WriteFacts
<1>16. QED
  BY <1>1, <1>4, <1>6, <1>7, <1>8, <1>9, <1>11, <1>12, <1>13, <1>14, <1>15, WriteAlone
\* The lock and the index for a write that does not commit.
LEMMA QuietKeeps ==
  ASSUME SearchesAssumption, IInv, NEW w \in Writers, NEW r,
         write' = [write EXCEPT ![w] = r], Quiet' => Quiet,
         \A u \in Writers : u # w => at'[u] = at[u], db' = db, index \subseteq index',
         Quiet' => (r.todo # <<>> => at'[w] # "out") /\ (r.made # 0 => at'[w] = "in"),
         Quiet' /\ write[w].made \in 1..db /\ Has(w, "index") =>
           \/ write[w].made \in index'
           \/ r.made = write[w].made /\ "index" \in Elems(r.todo)
  PROVE  QuietWrites'
<1>1. /\ write'[w] = r
      /\ \A u \in Writers : u # w => write'[u] = write[u]
      /\ \A s : Has(w, s)' <=> s \in Elems(r.todo)
      /\ \A u \in Writers : \A s : u # w => (Has(u, s)' <=> Has(u, s))
  BY HasFacts
<1> SUFFICES ASSUME Quiet'
             PROVE  /\ \A u \in Writers : /\ write'[u].todo # <<>> => at'[u] # "out"
                                          /\ write'[u].made # 0 => at'[u] = "in"
                    /\ \A v \in 1..db' : \/ v \in index'
                         \/ \E u \in Writers : write'[u].made = v /\ Has(u, "index")'
  BY DEF QuietWrites
<1>2. QuietWrites
  BY DEF IInv
<1>3. ASSUME NEW u \in Writers
      PROVE  /\ write'[u].todo # <<>> => at'[u] # "out"
             /\ write'[u].made # 0 => at'[u] = "in"
  BY <1>1, <1>2 DEF QuietWrites
<1>4. ASSUME NEW v \in 1..db
      PROVE  v \in index' \/ \E u \in Writers : write'[u].made = v /\ Has(u, "index")'
  <2>1. CASE v \in index
    BY <2>1
  <2>2. CASE v \notin index
    <3>1. PICK u \in Writers : write[u].made = v /\ Has(u, "index")
      BY <1>2, <2>2 DEF QuietWrites
    <3>2. QED  BY <1>1, <3>1
  <2>3. QED  BY <2>1, <2>2
<1>5. QED  BY <1>3, <1>4

\* The index takes up a write.
LEMMA ChangeIndexKeeps ==
  ASSUME SearchesAssumption, IInv, NEW w \in Writers, ChangeIndex(w)
  PROVE  IInv'
<1> DEFINE todo == write[w].todo
           r == [write[w] EXCEPT !.todo = Tail(todo)]
<1>1. /\ todo # <<>> /\ Head(todo) = "index" /\ at[w] # "waiting"
      /\ index' = index \cup {write[w].made}
      /\ UNCHANGED <<lockVars, db, gen, cache, search, drain, done, begun, upsets>>
      /\ at' = at /\ LP!LockInv'
  BY WriteFacts, LockSame DEF ChangeIndex, Does, bounds, lockVars
<1>2. /\ Tail(todo) \in Todos /\ Elems(Tail(todo)) = Elems(todo) \ {"index"}
      /\ "commit" \notin Elems(todo)
      /\ Tail(todo) \in Seq({"commit", "index", "invalidate"})
  BY <1>1, WriteFacts, TodoFacts DEF WriterOf
<1>3. write[w].made \in 1..db
  <2>1. write[w].made # 0 /\ write[w].made <= db /\ write[w].made \in Nat
    BY <1>1, <1>2, WriteFacts DEF WriterOf, WriteTypes, Has
  <2>2. QED  BY <2>1, WriteFacts
<1>4. /\ write' = [write EXCEPT ![w] = r]
      /\ r.todo = Tail(todo) /\ r.made = write[w].made /\ r.kind = write[w].kind
      /\ r \in WriteTypes
  <2>1. write[w] \in WriteTypes /\ write \in [Writers -> WriteTypes]
    BY WriteFacts
  <2>2. write' = [write EXCEPT ![w] = r]
    BY <2>1 DEF ChangeIndex, Does
  <2>3. QED  BY <1>2, <2>1, <2>2 DEF WriteTypes
<1> HIDE DEF todo, r
<1>5. /\ write'[w] = r
      /\ \A s : Has(w, s)' <=> Has(w, s) /\ s # "index"
      /\ \A u \in Writers : \A s : u # w => (Has(u, s)' <=> Has(u, s))
  <2>1. /\ write'[w] = r /\ \A s : Has(w, s)' <=> s \in Elems(r.todo)
        /\ \A u \in Writers : \A s : u # w => (Has(u, s)' <=> Has(u, s))
    BY <1>4, HasFacts
  <2>2. \A s : Has(w, s) <=> s \in Elems(todo)
    BY DEF Has, todo
  <2>3. QED  BY <1>2, <1>4, <2>1, <2>2
<1>6. CountInv'
  <2>1. /\ Cardinality(Left("commit")') = Cardinality(Left("commit"))
        /\ Cardinality(Left("invalidate")') = Cardinality(Left("invalidate"))
    BY <1>5, LeftFacts
  <2>2. QED  BY <1>1, <2>1, WriteFacts DEF CountInv
<1>7. IndexInv'
  BY <1>1, <1>3, WriteFacts DEF IndexInv
<1>8. WriterOf(w)'
  <2>1. write'[w].made = write[w].made /\ write'[w].todo = Tail(todo) /\ ~Has(w, "commit")'
    BY <1>2, <1>4, <1>5 DEF Has, todo
  <2>2. write[w].made # 0 /\ write[w].made <= db
    BY <1>3, WriteFacts
  <2>3. QED  BY <1>1, <1>2, <2>1, <2>2 DEF WriterOf
<1>9. Elems(upsets)' = Elems(upsets) /\ Quiet' = Quiet
  BY <1>1 DEF Quiet, Elems
<1>10. QuietWrites'
  <2>1. Quiet => at'[w] = "in"
    BY <1>1, <1>3, WriteFacts DEF QuietWrites
  <2>2. QED  BY <1>1, <1>4, <1>9, <2>1, QuietKeeps
<1>11. ASSUME NEW v \in 1..db', Unseen(v) \/ v > db  PROVE Unseen(v)'
  <2>1. Unseen(v)
    BY <1>1, <1>11, WriteFacts
  <2>2. v \in done' => Told(v)
    BY <1>1 DEF Told
  <2>3. "invalidate" \in Elems(r.todo) <=> Has(w, "invalidate")
    BY <1>2, <1>4 DEF Has, todo
  <2>4. r.made = v /\ "invalidate" \notin Elems(r.todo) => Told(v)
    BY <1>4, <2>3 DEF Told
  <2>5. QED  BY <1>4, <1>9, <2>1, <2>2, <2>3, <2>4, UnseenKeeps
<1>12. /\ upsets' \in Seq(Upsets) /\ Len(upsets') <= MaxUpsets
       /\ begun' \in 0..MaxWrites /\ db' \in Nat /\ gen' \in Nat /\ db <= db'
       /\ done \subseteq done' /\ gen' = gen /\ UNCHANGED <<search, drain, cache>>
       /\ index \subseteq index' /\ db' = db
  BY <1>1, WriteFacts
<1>13. QED
  BY <1>1, <1>4, <1>6, <1>7, <1>8, <1>9, <1>10, <1>11, <1>12, WriteAlone

\* The cache is emptied, and what was selected before will not be stored.
LEMMA InvalidateKeeps ==
  ASSUME SearchesAssumption, IInv, NEW w \in Writers, Invalidate(w)
  PROVE  IInv'
<1> DEFINE todo == write[w].todo
           r == [write[w] EXCEPT !.todo = Tail(todo)]
<1>1. /\ todo # <<>> /\ Head(todo) = "invalidate" /\ at[w] # "waiting"
      /\ gen' = gen + 1 /\ cache' = <<>>
      /\ UNCHANGED <<lockVars, db, index, search, drain, done, begun, upsets>>
      /\ at' = at /\ LP!LockInv'
  BY WriteFacts, LockSame DEF Invalidate, Does, bounds, lockVars
<1>2. /\ Tail(todo) \in Todos /\ Elems(Tail(todo)) = Elems(todo) \ {"invalidate"}
      /\ "commit" \notin Elems(todo)
      /\ Tail(todo) \in Seq({"commit", "index", "invalidate"})
      /\ "invalidate" \in Elems(todo)
  BY <1>1, WriteFacts, TodoFacts DEF WriterOf
<1>3. write[w].made # 0 /\ write[w].made <= db
  BY <1>1, <1>2, WriteFacts DEF WriterOf, Has
<1>4. /\ write' = [write EXCEPT ![w] = r]
      /\ r.todo = Tail(todo) /\ r.made = write[w].made /\ r.kind = write[w].kind
      /\ r \in WriteTypes
  <2>1. write[w] \in WriteTypes /\ write \in [Writers -> WriteTypes]
    BY WriteFacts
  <2>2. write' = [write EXCEPT ![w] = r]
    BY <2>1 DEF Invalidate, Does
  <2>3. QED  BY <1>2, <2>1, <2>2 DEF WriteTypes
<1> HIDE DEF todo, r
<1>5. /\ write'[w] = r
      /\ \A s : Has(w, s)' <=> Has(w, s) /\ s # "invalidate"
      /\ \A u \in Writers : \A s : u # w => (Has(u, s)' <=> Has(u, s))
  <2>1. /\ write'[w] = r /\ \A s : Has(w, s)' <=> s \in Elems(r.todo)
        /\ \A u \in Writers : \A s : u # w => (Has(u, s)' <=> Has(u, s))
    BY <1>4, HasFacts
  <2>2. \A s : Has(w, s) <=> s \in Elems(todo)
    BY DEF Has, todo
  <2>3. QED  BY <1>2, <1>4, <2>1, <2>2
<1>6. CountInv'
  <2>1. /\ Cardinality(Left("commit")') = Cardinality(Left("commit"))
        /\ Cardinality(Left("invalidate")') = Cardinality(Left("invalidate")) - 1
        /\ Cardinality(Left("invalidate")) \in Nat
    BY <1>2, <1>5, LeftFacts DEF Has, todo
  <2>2. QED  BY <1>1, <2>1, WriteFacts DEF CountInv
<1>7. IndexInv'
  BY <1>1, WriteFacts DEF IndexInv
<1>8. WriterOf(w)'
  <2>1. write'[w].made = write[w].made /\ write'[w].todo = Tail(todo) /\ ~Has(w, "commit")'
        /\ (Has(w, "index")' <=> Has(w, "index"))
    BY <1>2, <1>4, <1>5 DEF Has, todo
  <2>2. ~Has(w, "index") => write[w].made \in index
    BY <1>3, WriteFacts DEF WriterOf
  <2>3. QED  BY <1>1, <1>2, <1>3, <2>1, <2>2 DEF WriterOf
<1>9. Quiet' = Quiet
  BY <1>1 DEF Quiet, Elems
<1>10. QuietWrites'
  <2>1. Quiet => at'[w] = "in"
    BY <1>1, <1>3, WriteFacts DEF QuietWrites
  <2>2. Has(w, "index") => "index" \in Elems(r.todo)
    BY <1>2, <1>4 DEF Has, todo
  <2>3. QED  BY <1>1, <1>4, <1>9, <2>1, <2>2, QuietKeeps
<1>11. /\ upsets' \in Seq(Upsets) /\ Len(upsets') <= MaxUpsets
       /\ begun' \in 0..MaxWrites /\ db' \in Nat /\ gen' \in Nat /\ db <= db'
       /\ done \subseteq done' /\ gen' # gen /\ UNCHANGED <<search, drain>>
       /\ index \subseteq index' /\ db' = db
  BY <1>1, WriteFacts
<1>12. QED
  BY <1>1, <1>4, <1>6, <1>7, <1>8, <1>9, <1>10, <1>11, WriteAlone

\* A write of which nothing is left to do, or nothing will be done: the others and
\* what is cached stay as they are.
LEMMA ResetKeeps ==
  ASSUME SearchesAssumption, IInv, NEW w \in Writers, write' = [write EXCEPT ![w] = NoWrite],
         UNCHANGED <<data, search, drain, begun>>,
         \A t \in Clients \cup Writers : t # w => at'[t] = at[t], LP!LockInv',
         upsets' \in Seq(Upsets), Len(upsets') <= MaxUpsets, Quiet' => Quiet,
         "raise" \in Elems(upsets) => "raise" \in Elems(upsets)',
         done' \in {done, done \cup {write[w].made}}, done' # done =>
           write[w].todo = <<>> /\ write[w].made # 0,
         \/ write[w].made = 0 \/ write[w].todo = <<>>
         \/ "raise" \in Elems(upsets)'
  PROVE  IInv'
<1>1. /\ UNCHANGED <<db, gen, cache, index>>
      /\ write'[w] = NoWrite /\ \A s : ~Has(w, s)'
      /\ \A u \in Writers : \A s : u # w => (Has(u, s)' <=> Has(u, s))
  BY HasFacts, WriteFacts DEF data
<1>2. write[w].todo = <<>> => \A s : ~Has(w, s)
  BY WriteFacts DEF Has
<1>3. CountInv'
  <2>1. /\ Cardinality(Left("commit")') <= Cardinality(Left("commit"))
        /\ Cardinality(Left("invalidate")') <= Cardinality(Left("invalidate"))
        /\ Cardinality(Left("invalidate")) \in Nat /\ Cardinality(Left("commit")) \in Nat
        /\ Cardinality(Left("invalidate")') \in Nat /\ Cardinality(Left("commit")') \in Nat
    <3>1. ASSUME NEW s
          PROVE  /\ Cardinality(Left(s)') <= Cardinality(Left(s))
                 /\ Cardinality(Left(s)) \in Nat /\ Cardinality(Left(s)') \in Nat
      BY <1>1, LeftFacts
    <3>2. QED  BY <3>1
  <2>2. QED  BY <1>1, <2>1, WriteFacts, SMTT(30) DEF CountInv
<1>4. IndexInv'
  <2>1. done' # done => write[w].made \in index
    BY <1>2, WriteFacts DEF WriterOf
  <2>2. QED  BY <1>1, <2>1, WriteFacts DEF IndexInv
<1>5. WriterOf(w)'
  BY <1>1, WriteFacts DEF WriterOf
<1>6. QuietWrites'
  <2>1. ASSUME Quiet', write[w].made \in 1..db, Has(w, "index")  PROVE FALSE
    <3>1. write[w].made # 0 /\ write[w].todo # <<>>
      BY <1>2, <2>1, WriteFacts
    <3>2. QED  BY <2>1, <3>1 DEF Quiet
  <2>2. QED  BY <1>1, <2>1, WriteFacts, QuietKeeps
<1>7. ASSUME NEW v \in 1..db', Unseen(v) \/ v > db  PROVE Unseen(v)'
  <2>1. Unseen(v) /\ v # 0
    BY <1>1, <1>7, WriteFacts
  <2>2. v \in done' => Told(v)
    BY <1>2 DEF Told
  <2>3. \/ "raise" \in Elems(upsets)'
        \/ ~(write[w].made = v /\ Has(w, "invalidate"))
    BY <1>2, <2>1
  <2>4. QED  BY <2>1, <2>2, <2>3, WriteFacts, UnseenKeeps
<1>8. /\ begun' \in 0..MaxWrites /\ db' \in Nat /\ gen' \in Nat /\ db <= db'
      /\ done \subseteq done' /\ gen' = gen /\ index \subseteq index' /\ db' = db
      /\ NoWrite \in WriteTypes
  BY <1>1, WriteFacts
<1>9. QED
  BY <1>1, <1>3, <1>4, <1>5, <1>6, <1>7, <1>8, WriteAlone

\* A write raises, returns or is cancelled.
LEMMA EndKeeps ==
  ASSUME SearchesAssumption, IInv, NEW w \in Writers,
         WriteRaises(w) \/ WriteReturns(w) \/ WriteCancel(w)
  PROVE  IInv'
<1>1. WriterOf(w) /\ LP!LockInv /\ upsets \in Seq(Upsets) /\ MaxUpsets \in Nat
      /\ at \in [Clients \cup Writers -> {"out", "waiting", "in"}]
  BY WriteFacts
<1>2. ASSUME NEW e \in Upsets, Spend(e)
      PROVE  /\ upsets' \in Seq(Upsets) /\ Len(upsets') <= MaxUpsets
             /\ Elems(upsets)' = Elems(upsets) \cup {e} /\ UNCHANGED begun
             /\ Quiet' => Quiet
             /\ "raise" \in Elems(upsets) => "raise" \in Elems(upsets)'
  <2>1. /\ upsets' \in Seq(Upsets) /\ Len(upsets') <= MaxUpsets
        /\ Elems(upsets)' = Elems(upsets) \cup {e} /\ UNCHANGED begun
    BY <1>2, WriteFacts, UpsetFacts DEF Spend
  <2>2. QED  BY <2>1 DEF Quiet
<1>3. CASE WriteRaises(w)
  <2>1. /\ write' = [write EXCEPT ![w] = NoWrite]
        /\ UNCHANGED <<lockVars, at, data, search, drain, done>>
        /\ write[w].todo # <<>>
        /\ \/ Head(write[w].todo) = "commit" /\ Spend("fail")
           \/ Spend("raise")
    BY <1>3 DEF WriteRaises, lockVars
  <2>2. write[w].made = 0 \/ Spend("raise")
    BY <1>1, <2>1, TodoFacts DEF WriterOf, Has
  <2>3. PICK e \in {"fail", "raise"} : Spend(e) /\ (write[w].made = 0 \/ e = "raise")
    BY <2>1, <2>2
  <2>4. e \in Upsets
    BY DEF Upsets
  <2>5. LP!LockInv'
    BY <1>1, <2>1, LockSame
  <2>6. QED  BY <1>2, <2>1, <2>3, <2>4, <2>5, ResetKeeps
<1>4. CASE WriteReturns(w)
  <2>1. /\ write' = [write EXCEPT ![w] = NoWrite]
        /\ UNCHANGED <<data, search, drain, begun, upsets>>
        /\ write[w].todo = <<>> /\ done' = done \cup ({write[w].made} \ {0})
    BY <1>4 DEF WriteReturns, bounds
  <2>2. LP!LockInv' /\ \A t \in Clients \cup Writers : t # w => at'[t] = at[t]
    BY <1>1, <1>4, WriterLock DEF WriteReturns
  <2>3. done' \in {done, done \cup {write[w].made}} /\ (done' # done => write[w].made # 0)
    BY <2>1
  <2>4. /\ upsets' \in Seq(Upsets) /\ Len(upsets') <= MaxUpsets
        /\ Elems(upsets)' = Elems(upsets) /\ (Quiet' => Quiet)
    BY <2>1, WriteFacts DEF Quiet, Elems
  <2>5. QED  BY <2>1, <2>2, <2>3, <2>4, ResetKeeps
<1>5. CASE WriteCancel(w)
  <2>1. LP!LockInv' /\ \A t \in Clients \cup Writers : t # w => at'[t] = at[t]
    BY <1>1, <1>5, WriterLock DEF WriteCancel
  <2>2. UNCHANGED <<data, search, drain, done>>
    BY <1>5 DEF WriteCancel
  <2>3. PICK e \in {"cancel", "abandon"} :
          /\ Spend(e)
          /\ \/ write' = [write EXCEPT ![w] = NoWrite] /\ write[w].made = 0
             \/ UNCHANGED write /\ e = "abandon" /\ at'[w] = "out"
    <3>1. CASE Lock!WriteCancel(w) /\ Spend("cancel") /\ write' = [write EXCEPT ![w] = NoWrite]
      BY <1>1, <3>1 DEF Lock!WriteCancel, WriterOf
    <3>2. CASE Lock!WriteExit(w) /\ Spend("abandon") /\ UNCHANGED write
      <4>1. at'[w] = "out"
        BY <1>1, <3>2 DEF Lock!WriteExit, Lock!Goes
      <4>2. QED  BY <3>2, <4>1
    <3>3. CASE Spend("abandon") /\ write[w].made = 0 /\ write' = [write EXCEPT ![w] = NoWrite]
      BY <3>3
    <3>4. QED  BY <1>5, <3>1, <3>2, <3>3 DEF WriteCancel
  <2>4. e \in Upsets
    BY DEF Upsets
  <2>5. CASE write' = [write EXCEPT ![w] = NoWrite] /\ write[w].made = 0
    BY <1>2, <2>1, <2>2, <2>3, <2>4, <2>5, ResetKeeps
  <2>6. CASE UNCHANGED write /\ e = "abandon" /\ at'[w] = "out"
    <3>1. ~Quiet'
      BY <1>2, <2>3, <2>4, <2>6 DEF Quiet
    <3>2. write' = [write EXCEPT ![w] = write[w]] /\ write[w] \in WriteTypes
      BY <2>6, WriteFacts
    <3>3. UNCHANGED <<db, gen, cache, index, done, begun>>
      BY <1>2, <2>2, <2>3, <2>4 DEF data
    <3>4. \A u \in Writers : \A s : Has(u, s)' <=> Has(u, s)
      BY <2>6 DEF Has, Elems
    <3>5. CountInv'
      <4>1. \A s : Left(s)' = Left(s)
        BY <3>4 DEF Left
      <4>2. QED  BY <3>3, <4>1, WriteFacts DEF CountInv
    <3>6. WriterOf(w)' /\ IndexInv' /\ QuietWrites'
      BY <1>1, <2>6, <3>1, <3>3, <3>4, WriteFacts DEF WriterOf, IndexInv, QuietWrites
    <3>7. ASSUME NEW v \in 1..db', Unseen(v) \/ v > db  PROVE Unseen(v)'
      <4>1. Unseen(v)
        BY <3>3, <3>7, WriteFacts
      <4>2. "invalidate" \in Elems(write[w].todo) <=> Has(w, "invalidate")
        BY DEF Has
      <4>3. write[w].made = v /\ ~Has(w, "invalidate") => Told(v)
        BY DEF Told
      <4>4. v \in done' => Told(v)
        BY <3>3 DEF Told
      <4>5. "raise" \in Elems(upsets) => "raise" \in Elems(upsets)'
        BY <1>2, <2>3, <2>4
      <4>6. QED  BY <3>2, <4>1, <4>2, <4>3, <4>4, <4>5, UnseenKeeps
    <3>8. /\ upsets' \in Seq(Upsets) /\ Len(upsets') <= MaxUpsets
          /\ begun' \in 0..MaxWrites /\ db' \in Nat /\ gen' \in Nat /\ db <= db'
          /\ done \subseteq done' /\ gen' = gen /\ index \subseteq index'
      BY <1>2, <2>3, <2>4, <3>3, WriteFacts
    <3>9. QED
      BY <2>1, <2>2, <3>1, <3>2, <3>3, <3>5, <3>6, <3>7, <3>8, WriteAlone
  <2>7. QED  BY <2>3, <2>5, <2>6
<1>6. QED  BY <1>3, <1>4, <1>5

\* A write begins or gets the lock.
LEMMA BeginKeeps ==
  ASSUME SearchesAssumption, IInv, NEW w \in Writers,
         (\E kind \in Kinds : WriteStart(w, kind)) \/ WriteResume(w)
  PROVE  IInv'
<1>1. LP!LockInv' /\ \A t \in Clients \cup Writers : t # w => at'[t] = at[t]
  BY WriterLock, WriteFacts DEF WriteStart, WriteResume
<1>2. PICK r \in WriteTypes :
        /\ write' = [write EXCEPT ![w] = r]
        /\ r.made = 0 /\ at'[w] \in {"waiting", "in"}
        /\ \/ r = write[w] /\ begun' = begun
           \/ /\ write[w].todo = <<>> /\ r.todo = Steps(r.kind)
              /\ begun' = begun + 1 /\ begun < MaxWrites
  <2>1. CASE \E kind \in Kinds : WriteStart(w, kind)
    <3>1. PICK kind \in Kinds : WriteStart(w, kind)
      BY <2>1
    <3> DEFINE r == [kind |-> kind, todo |-> Steps(kind), made |-> 0]
    <3>2. kind \in {"upsert", "delete", "patch"}
      BY DEF SearchesAssumption
    <3>3. Steps(kind) \in Seq({"commit", "index", "invalidate"})
      <4>1. CASE kind = "upsert"
        BY <4>1 DEF Steps, UpsertSteps
      <4>2. CASE kind = "delete"
        BY <4>2 DEF Steps, DeleteSteps
      <4>3. CASE kind = "patch"
        BY <4>3 DEF Steps, PatchSteps
      <4>4. QED  BY <3>2, <4>1, <4>2, <4>3
    <3>4. r \in WriteTypes
      BY <3>2, <3>3, WriteFacts DEF WriteTypes
    <3>5. at'[w] \in {"waiting", "in"}
      BY <3>1, WriteFacts DEF WriteStart, Lock!WriteEnter, Lock!WriteWait, Lock!Goes
    <3>6. QED  BY <3>1, <3>4, <3>5 DEF WriteStart
  <2>2. CASE WriteResume(w)
    <3>1. at[w] = "waiting"
      BY <2>2, WriteFacts, LockFacts DEF WriteResume, Lock!WriteResume, Lock!TypeOK
    <3>2. at'[w] \in {"waiting", "in"}
      BY <2>2, <3>1, WriteFacts DEF WriteResume, Lock!WriteResume, Lock!Goes
    <3>3. write' = [write EXCEPT ![w] = write[w]] /\ write[w] \in WriteTypes
          /\ write[w].made = 0 /\ begun' = begun
      BY <2>2, <3>1, WriteFacts DEF WriteResume, WriterOf, bounds
    <3>4. QED  BY <3>2, <3>3
  <2>3. QED  BY <2>1, <2>2
<1>3. UNCHANGED <<db, index, gen, cache, search, drain, done, upsets>>
  BY DEF WriteStart, WriteResume, data, bounds
<1>4. /\ write'[w] = r /\ \A s : Has(w, s)' <=> s \in Elems(r.todo)
      /\ \A u \in Writers : \A s : u # w => (Has(u, s)' <=> Has(u, s))
  BY <1>2, HasFacts
<1>5. \/ r = write[w] /\ begun' = begun /\ \A s : Has(w, s)' <=> Has(w, s)
      \/ /\ \A s : ~Has(w, s)
         /\ begun' = begun + 1 /\ begun < MaxWrites
         /\ r.todo \in Todos /\ Has(w, "commit")' /\ Has(w, "invalidate")'
         /\ ~Has(w, "index")' => r.kind = "patch"
  <2>1. CASE r = write[w] /\ begun' = begun
    BY <1>4, <2>1 DEF Has
  <2>2. CASE /\ write[w].todo = <<>> /\ r.todo = Steps(r.kind)
             /\ begun' = begun + 1 /\ begun < MaxWrites
    <3>1. \A s : ~Has(w, s)
      BY <2>2, WriteFacts DEF Has
    <3>2. r.kind \in {"upsert", "delete", "patch"}
      BY DEF WriteTypes
    <3>3. r.todo \in Todos /\ "commit" \in Elems(r.todo) /\ "invalidate" \in Elems(r.todo)
          /\ ("index" \notin Elems(r.todo) => r.kind = "patch")
      <4>1. CASE r.kind = "upsert"
        BY <2>2, <4>1 DEF Steps, Todos, UpsertSteps, Elems
      <4>2. CASE r.kind = "delete"
        BY <2>2, <4>2 DEF Steps, Todos, DeleteSteps, Elems
      <4>3. CASE r.kind = "patch"
        BY <2>2, <4>3 DEF Steps, Todos, PatchSteps, Elems
      <4>4. QED  BY <3>2, <4>1, <4>2, <4>3
    <3>4. QED  BY <1>4, <2>2, <3>1, <3>3
  <2>3. QED  BY <1>2, <2>1, <2>2
<1>6. CountInv'
  <2>1. CASE begun' = begun /\ \A s : Has(w, s)' <=> Has(w, s)
    <3>1. /\ Cardinality(Left("commit")') = Cardinality(Left("commit"))
          /\ Cardinality(Left("invalidate")') = Cardinality(Left("invalidate"))
      BY <1>4, <2>1, LeftFacts
    <3>2. QED  BY <1>3, <2>1, <3>1, WriteFacts DEF CountInv
  <2>2. CASE /\ begun' = begun + 1 /\ \A s : ~Has(w, s)
             /\ Has(w, "commit")' /\ Has(w, "invalidate")'
    <3>1. /\ Cardinality(Left("commit")') = Cardinality(Left("commit")) + 1
          /\ Cardinality(Left("invalidate")') = Cardinality(Left("invalidate")) + 1
          /\ Cardinality(Left("commit")) \in Nat /\ Cardinality(Left("invalidate")) \in Nat
      BY <1>4, <2>2, LeftFacts
    <3>2. QED  BY <1>3, <2>2, <3>1, WriteFacts, SMTT(30) DEF CountInv
  <2>3. QED  BY <1>5, <2>1, <2>2
<1>7. WriterOf(w)'
  <2>1. CASE r = write[w] /\ \A s : Has(w, s)' <=> Has(w, s)
    BY <1>2, <1>3, <1>4, <2>1, WriteFacts DEF WriterOf
  <2>2. CASE /\ r.todo \in Todos /\ Has(w, "commit")' /\ (~Has(w, "index")' => r.kind = "patch")
    BY <1>2, <1>3, <1>4, <2>2, WriteFacts DEF WriterOf
  <2>3. QED  BY <1>5, <2>1, <2>2
<1>8. IndexInv' /\ Elems(upsets)' = Elems(upsets) /\ Quiet' = Quiet
  BY <1>3, WriteFacts DEF IndexInv, Quiet, Elems
<1>9. QuietWrites'
  <2>1. ~(write[w].made \in 1..db /\ Has(w, "index"))
    BY <1>2, <1>5, WriteFacts
  <2>2. QED  BY <1>1, <1>2, <1>3, <1>8, <2>1, QuietKeeps
<1>10. ASSUME NEW v \in 1..db', Unseen(v) \/ v > db  PROVE Unseen(v)'
  <2>1. Unseen(v) /\ v # 0
    BY <1>3, <1>10, WriteFacts
  <2>2. v \in done' => Told(v)
    BY <1>3 DEF Told
  <2>3. ~(write[w].made = v /\ Has(w, "invalidate"))
    BY <1>2, <1>5, <2>1
  <2>4. QED  BY <1>2, <1>8, <2>1, <2>2, <2>3, UnseenKeeps
<1>11. /\ upsets' \in Seq(Upsets) /\ Len(upsets') <= MaxUpsets
       /\ begun' \in 0..MaxWrites /\ db' \in Nat /\ gen' \in Nat /\ db <= db'
       /\ done \subseteq done' /\ gen' = gen /\ index \subseteq index' /\ db' = db
  BY <1>2, <1>3, WriteFacts
<1>12. QED
  BY <1>1, <1>2, <1>3, <1>6, <1>7, <1>8, <1>9, <1>10, <1>11, WriteAlone

-----------------------------------------------------------------------------
\* The theorems.

\* At first nothing is written, searched or cached.
LEMMA InitHolds ==
  ASSUME SearchesAssumption, Init
  PROVE  IInv
<1>1. LP!LockInv
  <2>1. LP!TasksAssumption
    BY SearchesAssumption DEF IsFiniteSet, LP!IsFiniteSet
  <2>2. LP!Init
    BY DEF Init, Lock!Init, LP!Init, Lock!Tasks, LP!Tasks
  <2>3. QED  BY <2>1, <2>2, LP!LockInit
<1>2. /\ search = [c \in Clients |-> NoSearch] /\ drain = [d \in Drains |-> NoDrain]
      /\ write = [w \in Writers |-> NoWrite] /\ db = 0 /\ gen = 0 /\ index = {} /\ done = {}
      /\ cache = <<>> /\ begun = 0 /\ upsets = <<>>
  BY DEF Init
<1>3. /\ NoSearch \in SearchTypes /\ NoDrain \in DrainTypes /\ NoWrite \in WriteTypes
      /\ MaxWrites \in Nat /\ MaxUpsets \in Nat /\ MaxCached \in Nat
      /\ Elems(<<>>) = {} /\ NoRepeats(<<>>) /\ <<>> \in Todos
  BY DEF SearchesAssumption, NoSearch, SearchTypes, Wants, NoDrain, DrainTypes, NoWrite,
         WriteTypes, Elems, NoRepeats, Todos
<1>4. TypeOK
  <2>1. Lock!TypeOK
    BY <1>1, LockFacts
  <2>2. /\ search \in [Clients -> SearchTypes] /\ drain \in [Drains -> DrainTypes]
        /\ write \in [Writers -> WriteTypes]
    BY <1>2, <1>3
  <2>3. QED
    BY <1>2, <1>3, <2>1, <2>2 DEF TypeOK, SearchTypes, DrainTypes, WriteTypes
<1>5. \A w \in Writers : \A s : ~Has(w, s)
  BY <1>2, <1>3 DEF Has, NoWrite
<1>6. CountInv
  <2>1. Left("commit") = {} /\ Left("invalidate") = {}
    BY <1>5 DEF Left
  <2>2. Cardinality(Left("commit")) = 0 /\ Cardinality(Left("invalidate")) = 0
    BY <2>1, FS_EmptySet
  <2>3. QED  BY <1>2, <2>2 DEF CountInv
<1>7. WriteInv
  BY <1>2, <1>3, <1>5 DEF WriteInv, WriterOf, NoWrite
<1>8. IndexInv /\ QuietWrites
  BY <1>2 DEF IndexInv, QuietWrites, NoWrite
<1>9. CacheInv
  BY <1>2 DEF CacheInv, Entries
<1>10. \A d \in Drains, c \in Clients : ~In(d, c)
  BY <1>2, <1>3 DEF In, NoDrain
<1>11. SearchInv /\ QuietSearches
  BY <1>2, <1>10 DEF SearchInv, SearchOf, QuietSearches, QuietOf, NoSearch
<1>12. DrainInv
  BY <1>2, <1>3, <1>10 DEF DrainInv, DrainOf, WaiterOf, NoDrain
<1>13. QED
  BY <1>1, <1>4, <1>6, <1>7, <1>8, <1>9, <1>11, <1>12 DEF IInv

\* The inductive invariant: for any clients, writers, scopes and filters, whatever
\* is cancelled or fails.
THEOREM SearchInvariant == Spec => []IInv
<1>1. Init => IInv
  BY InitHolds, SearchesAssumption
<1>2. IInv /\ [Next]_vars => IInv'
  <2> SUFFICES ASSUME IInv, [Next]_vars  PROVE IInv'
    OBVIOUS
  <2>1. ASSUME NEW c \in Clients,
               \/ \E k \in Wants : SearchStart(c, k)
               \/ SearchResume(c) \/ SearchEnds(c) \/ SearchCancel(c)
               \/ ThreadStep(c) \/ ThreadFails(c)
        PROVE  IInv'
    BY <2>1, SectionKeeps, ThreadKeeps, SearchesAssumption
  <2>2. ASSUME NEW d \in Drains, DrainStep(d) \/ DrainScanRaises(d)  PROVE IInv'
    BY <2>2, ScanKeeps, DrainKeeps, SearchesAssumption DEF DrainStep
  <2>3. ASSUME NEW w \in Writers,
               \/ \E k \in Kinds : WriteStart(w, k)
               \/ WriteResume(w) \/ WriteReturns(w) \/ WriteCancel(w)
               \/ WriteStep(w) \/ WriteRaises(w)
        PROVE  IInv'
    BY <2>3, BeginKeeps, EndKeeps, CommitKeeps, ChangeIndexKeeps, InvalidateKeeps,
       SearchesAssumption DEF WriteStep
  <2>4. CASE UNCHANGED vars
    <3>1. SearchStep /\ UNCHANGED <<lockVars, cache, search, drain>> /\ at' = at
      BY <2>4 DEF vars, data, bounds, SearchStep, lockVars
    <3>2. CacheInv' /\ TypeOK' /\ LP!LockInv'
      <4>1. LP!LockInv'
        BY <3>1, LockSame DEF IInv
      <4>2. (\A v : Unseen(v)' = Unseen(v)) /\ UNCHANGED <<db, upsets>>
        BY <2>4, <3>1, SearchFrame, SearchesAssumption DEF vars, data, bounds
      <4>3. TypeOK'
        BY <2>4, <4>1 DEF IInv, TypeOK, vars, data, bounds, lockVars, Lock!TypeOK,
            Lock!Tasks
      <4>4. CacheInv'
        BY <3>1, <4>2 DEF IInv, CacheInv, Entries, Current
      <4>5. QED  BY <4>1, <4>3, <4>4
    <3>3. (\A v : Unseen(v)' = Unseen(v)) /\ Quiet' = Quiet
          /\ \A d, c : In(d, c)' = In(d, c)
      BY <3>1, SearchFrame, SearchesAssumption DEF In, Elems
    <3>4. SearchInv' /\ QuietSearches'
      BY <3>1, <3>3 DEF IInv, SearchInv, SearchOf, QuietSearches, QuietOf, Current,
          SearchStep
    <3>5. DrainInv'
      <4>1. \A d \in Drains : DrainOf(d)' <=> DrainOf(d)
        BY <3>1 DEF DrainOf, NoRepeats, Elems
      <4>2. \A d \in Drains, c \in Clients : WaiterOf(d, c)' <=> WaiterOf(d, c)
        BY <3>1, <3>3 DEF WaiterOf
      <4>3. QED  BY <4>1, <4>2 DEF IInv, DrainInv
    <3>6. QED
      BY <3>1, <3>2, <3>4, <3>5, SearchFrame, SearchesAssumption DEF IInv
  <2>5. QED  BY <2>1, <2>2, <2>3, <2>4 DEF Next
<1>3. QED  BY <1>1, <1>2, PTL DEF Spec

\* The types, the bounds among them: no write is counted twice.
THEOREM SearchTypesHold == Spec => []TypeOK
<1>1. IInv => TypeOK
  BY DEF IInv
<1>2. QED  BY <1>1, SearchInvariant, PTL

\* What is in the cache misses only writes that are about to empty it: the thread of
\* a cancelled search stores nothing older (_allow_gen, read before the ids).
THEOREM CacheStaysCurrent == Spec => []CacheIsCurrent
<1>1. IInv => CacheIsCurrent
  BY DEF IInv, CacheInv, Current, Unseen, CacheIsCurrent
<1>2. QED  BY <1>1, SearchInvariant, PTL

\* A search sees whatever had returned before it began, through the cache, a shared
\* scan or its own thread.
THEOREM ReturnedWritesAreSeen == Spec => []SeesReturnedWrites
<1>1. IInv => SeesReturnedWrites
  BY DEF IInv, SearchInv, SearchOf, SeesReturnedWrites
<1>2. QED  BY <1>1, SearchInvariant, PTL

\* Under the read lock an allowlist and the index are of one state.
THEOREM SearchesSeeOneState == Spec => []OneState
<1>1. IInv => OneState
  <2> SUFFICES ASSUME IInv, Quiet
               PROVE  /\ \A c \in Clients : ~Orphan(c) /\ search[c].pc = "scan" =>
                           search[c].allow = db /\ index = 1..db
                      /\ \A d \in Drains \ {Full} :
                           drain[d].pc = "scan" /\ (\E c \in drain[d].batch : ~Orphan(c)) =>
                             d[2] = db /\ index = 1..db
    BY DEF OneState, Quiet
  <2>1. ASSUME NEW c \in Clients, ~Orphan(c), search[c].pc \in {"scan", "drain"}
        PROVE  at[c] = "in" /\ index = 1..db
    <3>1. /\ at \in [Clients \cup Writers -> {"out", "waiting", "in"}]
          /\ Apart /\ SearchOf(c) /\ db \in Nat /\ IndexInv /\ QuietWrites
      BY LockFacts DEF IInv, SearchInv, TypeOK
    <3>2. at[c] = "in"
      BY <2>1, <3>1 DEF Orphan, SearchOf
    <3>3. ASSUME NEW v \in 1..db, v \notin index  PROVE FALSE
      <4>1. PICK w \in Writers : write[w].made = v
        BY <3>1, <3>3 DEF QuietWrites
      <4>2. at[w] = "in"
        BY <3>1, <4>1 DEF QuietWrites
      <4>3. QED  BY <3>1, <3>2, <4>2 DEF Apart
    <3>4. QED  BY <3>1, <3>2, <3>3 DEF IndexInv
  <2>2. ASSUME NEW c \in Clients, ~Orphan(c), search[c].pc = "scan"
        PROVE  search[c].allow = db /\ index = 1..db
    BY <2>1, <2>2 DEF IInv, QuietSearches, QuietOf
  <2>3. ASSUME NEW d \in Drains \ {Full}, NEW c \in drain[d].batch, ~Orphan(c)
        PROVE  d[2] = db /\ index = 1..db
    <3>1. c \in Clients /\ In(d, c)
      BY DEF IInv, TypeOK, In
    <3>2. search[c].pc = "drain"
      BY <3>1 DEF IInv, DrainInv, WaiterOf
    <3>3. at[c] = "in" /\ index = 1..db
      BY <2>1, <2>3, <3>1, <3>2
    <3>4. QED  BY <3>1, <3>3 DEF IInv, QuietSearches, QuietOf
  <2>4. QED  BY <2>2, <2>3
<1>2. QED  BY <1>1, SearchInvariant, PTL

\* A search that waits for a shared scan is in one that is under way, and in one only.
THEOREM FuturesAreServed == Spec => []NoFutureForgotten
<1>1. IInv => NoFutureForgotten
  <2> SUFFICES ASSUME IInv, NEW c \in Clients, search[c].pc = "drain"
               PROVE  \E d \in Drains :
                        ServedBy(d, c) /\ \A e \in Drains : ServedBy(e, c) => e = d
    BY DEF NoFutureForgotten
  <2>1. PICK d \in Drains : In(d, c)
    BY DEF IInv, SearchInv, SearchOf
  <2>2. drain[d].pc # "none"
    <3>1. Elems(<<>>) = {}
      BY DEF Elems
    <3>2. QED  BY <2>1, <3>1 DEF IInv, DrainInv, DrainOf, In
  <2>3. \A e \in Drains : In(e, c) => e = d
    BY <2>1 DEF IInv, DrainInv, WaiterOf
  <2>4. QED  BY <2>1, <2>2, <2>3 DEF ServedBy, In
<1>2. QED  BY <1>1, SearchInvariant, PTL
=============================================================================
