----------------------------- MODULE Retrieval ------------------------------
(***************************************************************************)
(* What was posted is what is found: payloads go through the journal into  *)
(* the records of one collection, and searches of every mode are answered  *)
(* from them (store.py, Collection.search and what it calls).              *)
(*                                                                         *)
(* A vector is a direction, 1 to Dirs, and the cosine of two a number that *)
(* falls with their distance; the index sees half of it. An IVF shard is   *)
(* that of the nearest centroid. Documents, ids and metadata values are    *)
(* numbers; metadata has one key, and its values contain their digits.     *)
(***************************************************************************)
EXTENDS Payload, Scoring, FiniteSets

CONSTANTS
  Texts,      \* the texts there are
  Payloads,   \* what may be posted
  Questions,  \* what may be asked
  Old,        \* rows from before vectors were retained
  Embed,      \* external: the direction the embedding endpoint gives each text
  Dirs,       \* directions
  Centroids,  \* the centroid of each shard
  Nprobe,     \* index_config.nprobe
  Posts,      \* bound: payloads posted
  Tears,      \* bound: journal rows damaged on disk
  RescoreMult, RescoreFloor, RescoreCap,  \* RESCORE_MULT, RESCORE_FLOOR, RESCORE_CAP
  Tiny,       \* 128 in _IvfIndex.search
  OrCand, AndCand, DirectMax,  \* TEXT_OR_CAND, TEXT_AND_CAND, TEXT_DIRECT_MAX
  HybridDepth,                 \* HYBRID_DEPTH
  ChurnMax    \* 1000 in _prune_common

ASSUME RetrievalAssumption ==
  /\ {Dirs, Nprobe, Posts, Tears, RescoreMult, RescoreFloor, RescoreCap, Tiny, OrCand, AndCand,
      DirectMax, HybridDepth, ChurnMax} \subseteq Nat
  /\ Nprobe \in 1..Len(Centroids)

\* How deep a leg goes, so that the fusion sees the tail.
Depth(q) == IF q.mode = "hybrid" THEN Max({HybridDepth, q.k}) ELSE q.k

\* Scores are fine enough that no token of a text is worth 0.
ASSUME TextsAssumption ==
  /\ Texts \subseteq Seq(DOMAIN Fold)
  /\ \A text \in Texts : Len(Tokens(text)) <= Scale
ASSUME VectorsAssumption == Embed \in [Texts -> Int] /\ Centroids \in Seq(Int)
ASSUME PayloadsAssumption == Payloads \subseteq Seq(Documents(Texts))
\* An external id is unique among the rows that are there.
ASSUME OldAssumption ==
  /\ Old \in Seq(RowRecords(Texts))
  /\ \A i, j \in DOMAIN Old : Old[i].ext = Old[j].ext => i = j
\* What of a question counts is there; no leg goes deeper than the rows with every token.
ASSUME QuestionsAssumption ==
  \A q \in Questions :
    /\ q.mode \in {"vector", "hybrid"} => q.vec \in Int /\ (q.vec = NoVector => q.text \in Texts)
    /\ q.mode \in {"text", "hybrid"} => q.text \in Texts
    /\ q.mode \in {"vector", "text", "hybrid"} => q.k \in Nat \ {0} /\ Depth(q) <= AndCand
ASSUME CandidatesAssumption == OrCand > 0

VARIABLES
  jobs,      \* the jobs so far: what was posted, its journal row, its status
  rows,      \* records and vecs
  ivf,       \* is the IVF index attached?
  dfs,       \* _df_cache
  churn,     \* _df_cache_churn
  avgdl,     \* _avgdl_cache
  question,  \* what is being answered
  legs,      \* what the legs of the search have found
  answer     \* the hits

vars == <<jobs, rows, ivf, dfs, churn, avgdl, question, legs, answer>>

Unasked == [mode |-> "none"]
Pending == [ranking |-> <<>>, done |-> FALSE, raised |-> FALSE]
NoLegs == [vec |-> Pending, text |-> Pending]
Leg(ranking) == [ranking |-> ranking, done |-> TRUE, raised |-> FALSE]
Raised == [ranking |-> <<>>, done |-> TRUE, raised |-> TRUE]

\* No mean length is cached.
NoMean == -1

\* An old row's vector is in the index, but not in vecs.
Stored(i, r, blob) == [id |-> i, row |-> r, blob |-> blob]

Init ==
  /\ jobs = <<>> /\ rows = {Stored(i, Old[i], FALSE) : i \in DOMAIN Old}
  /\ ivf \in BOOLEAN
  /\ dfs = NoCounts /\ churn = 0 /\ avgdl = NoMean
  /\ question = Unasked /\ legs = NoLegs /\ answer = <<>>

-----------------------------------------------------------------------------
\* _filter_sql: scope and clauses, all ANDed. A missing key is NULL, which no clause
\* holds of. doc_id is a column of its own, for equality and `in` only.
Null == -1
InScope(r, scope) ==
  CASE scope = "chunks" -> r.row.type = "chunk" [] scope = "summaries" -> r.row.type = "summary"
    [] OTHER -> TRUE
Part(v, w) == w \in {v, v % 10, v \div 10}
Holds(r, c) ==
  LET v == IF c.key = "doc_id" THEN r.row.doc ELSE r.row.meta
  IN  v # Null /\ CASE c.op = "eq" -> v = c.bound
                    [] c.op = "gte" -> v >= c.bound
                    [] c.op = "lte" -> v <= c.bound
                    [] c.op = "gt" -> v > c.bound
                    [] c.op = "lt" -> v < c.bound
                    [] c.op = "in" -> v \in c.bound
                    [] c.op = "contains" -> Part(v, c.bound)
                    [] c.op = "contains_any" -> \E w \in c.bound : Part(v, w)
Valid(filt) ==
  \A c \in filt : /\ c.op \in {"eq", "gte", "lte", "gt", "lt", "in", "contains", "contains_any"}
                  /\ c.key = "doc_id" => c.op \in {"eq", "in"}
                  /\ c.op \in {"in", "contains_any"} => c.bound # {}
Filtered(scope, filt) == {r \in rows : InScope(r, scope) /\ \A c \in filt : Holds(r, c)}
Has(type) == \E r \in rows : r.row.type = type
\* Nothing to exclude: no filter, and no rows of the type the scope leaves out.
Plain(q) ==
  /\ q.filt = {}
  /\ ~(q.scope = "chunks" /\ Has("summary")) /\ ~(q.scope = "summaries" /\ Has("chunk"))

-----------------------------------------------------------------------------
\* Cosines, exact and as the index has them.
Cosine(v, w) == 2 * (Dirs - (IF v > w THEN v - w ELSE w - v))
Quantized(v, w) == 4 * (Cosine(v, w) \div 4)
NearestFirst(v) ==
  LET Nearer(i, j) == \/ Cosine(v, Centroids[i]) > Cosine(v, Centroids[j])
                      \/ Cosine(v, Centroids[i]) = Cosine(v, Centroids[j]) /\ i < j
  IN  Sorted(DOMAIN Centroids, Nearer)
Shard(j) == {r \in rows : NearestFirst(r.row.vector)[1] = j}

\* external: turbovec's search of an index for the k best of an allowlist.
Scan(index, qvec, k) == Best({[id |-> r.id, score |-> Quantized(qvec, r.row.vector)] : r \in index}, k)

\* _IvfIndex.search: a small allowlist is looked up in the shards that own it, whichever
\* they are; anything else in the nprobe nearest. The parts are merged.
ProbedNearest(qvec, allow, masked, nprobe) ==  \* fault: an allowlist is looked up in the nearest, too
  SubSeq(NearestFirst(qvec), 1, Min({nprobe, Len(Centroids)}))
Probed(qvec, allow, masked, nprobe) ==
  IF masked /\ Cardinality(allow) <= Tiny
  THEN Sorted({j \in DOMAIN Centroids : allow \cap Shard(j) # {}}, <)
  ELSE SubSeq(NearestFirst(qvec), 1, Min({nprobe, Len(Centroids)}))
IvfSearch(qvec, k, allow, masked, nprobe) ==
  LET probed == Probed(qvec, allow, masked, nprobe)
      parts == FlattenSeq([i \in DOMAIN probed |-> Scan(allow \cap Shard(probed[i]), qvec, k)])
      Better(i, j) == parts[i].score > parts[j].score \/ (parts[i].score = parts[j].score /\ i < j)
      order == Sorted(DOMAIN parts, Better)
  IN  [i \in 1..Min({k, Len(parts)}) |-> parts[order[i]]]
IndexSearch(qvec, k, allow, masked, nprobe) ==
  IF ivf THEN IvfSearch(qvec, k, allow, masked, nprobe) ELSE Scan(allow, qvec, k)

\* _rescore_k, _rescore_rows: the index is asked for more than is wanted, and what it
\* finds is ranked by the retained vectors, where there are some.
RescoreK(n) ==
  Max({1, Min({Max({RescoreFloor, RescoreMult * n}), RescoreCap, Cardinality(rows)})})
Row(id) == CHOOSE r \in rows : r.id = id
Rescored(qvec, found, n) ==
  Best({[id |-> x.id, score |-> IF Row(x.id).blob THEN Cosine(qvec, Row(x.id).row.vector)
                                ELSE x.score] : x \in Range(found)}, n)
SearchRescored(qvec, n, depth, allow, masked, nprobe) ==
  Rescored(qvec, IndexSearch(qvec, RescoreK(depth), allow, masked, nprobe), n)

\* _search_allowed: an allowlist no larger than that is ranked without the index.
SearchAllowed(qvec, n, allow, nprobe) ==
  IF Cardinality(allow) <= RescoreK(n) /\ \A r \in allow : r.blob
  THEN Best({[id |-> r.id, score |-> Cosine(qvec, r.row.vector)] : r \in allow}, n)
  ELSE SearchRescored(qvec, n, n, allow, TRUE, nprobe)

\* An explicit query vector skips the embedding.
QueryVector(q) == IF q.vec # NoVector THEN q.vec ELSE Embed[q.text]
ProbeOf(q) == IF q.nprobe = 0 THEN Nprobe ELSE q.nprobe

\* _vector_ids. A scan of the whole index is shared with the requests that came with it:
\* the widest nprobe and the greatest depth go for all.
VectorIds(q, nprobe, depth) ==
  IF rows = {} THEN <<>>
  ELSE IF Plain(q) THEN SearchRescored(QueryVector(q), Depth(q), depth, rows, FALSE, nprobe)
  ELSE SearchAllowed(QueryVector(q), Depth(q), Filtered(q.scope, q.filt), ProbeOf(q))

-----------------------------------------------------------------------------
\* The full text index, which the triggers keep equal to the records.
Matching(toks) == {r \in rows : TokenSet(r.row.text) \cap toks # {}}
MatchingAll(toks) == {r \in rows : toks \subseteq TokenSet(r.row.text)}
Df(t) == Cardinality(Matching({t}))

\* _prune_common drops the caches when enough rows have changed, if the query has a token
\* at all; _df fills one.
CacheKept(toks) == toks = <<>> \/ churn <= Max({ChurnMax, Cardinality(rows) \div 4})
DfsFor(toks) ==
  LET kept == IF CacheKept(toks) THEN dfs ELSE NoCounts
  IN  [t \in DOMAIN kept \cup Range(toks) |-> IF t \in DOMAIN kept THEN kept[t] ELSE Df(t)]

\* _avgdl, rounded up: the mean of a sample of the texts that are not empty, somewhere
\* between the shortest and the longest of them; 1 if no probe met one. It is cached.
Lengths == {Len(Tokens(r.row.text)) : r \in {s \in rows : s.row.text # <<>>}}
Means == {1} \cup UNION {p[1]..p[2] : p \in Lengths \X Lengths}
MeanKept(toks) == IF CacheKept(toks) THEN avgdl ELSE NoMean
MeansFor(toks) == IF MeanKept(toks) = NoMean THEN Means ELSE {MeanKept(toks)}

\* _bm25_rescore: ln((N - df + 0.5) / (df + 0.5)), clamped from below.
Idf(df) ==
  LET total == Cardinality(rows)
      n == Min({df, total})
  IN  Max({1, (4 * (total - n) + 2) \div (2 * n + 1)})
IdfsFor(toks, df) == [t \in Range(toks) |-> Idf(df[t])]
Candidates(set) == {[id |-> r.id, text |-> r.row.text] : r \in set}
Bm25Rescore(toks, df, set, mean, n) ==
  IF set = {} THEN <<>> ELSE Bm25TopN(toks, IdfsFor(toks, df), Candidates(set), mean, n)

\* external: FTS5's own ranking, which knows no proximity; its mean is of the whole table.
FtsAvgDl ==
  LET total == SumFunction([r \in rows |-> Len(Tokens(r.row.text))])
  IN  IF rows = {} THEN 1 ELSE Max({1, total \div Cardinality(rows)})
FtsRank(toks, set, n) ==
  LET df == [t \in Range(toks) |-> Df(t)]
      Score(r) ==
        SumFunction([t \in Range(toks) \cap TokenSet(r.row.text) |->
                       Term(Idf(df[t]), Frequency(t, Tokens(r.row.text)),
                            AtLeast1(Len(Tokens(r.row.text))), FtsAvgDl)])
  IN  Best({[id |-> r.id, score |-> Score(r)] : r \in set}, n)

\* _text_ids: one ranked query, unless tokens were dropped; then its candidates and the
\* rows with every token are ranked by the whole query. A small document is ranked
\* without FTS5.
FirstRows(set, n) == {r \in set : Cardinality({s \in set : s.id < r.id}) < n}
ByDocument(q) == \E c \in q.filt : c.key = "doc_id"
Direct(q) == ByDocument(q) /\ Cardinality(Filtered(q.scope, q.filt)) <= DirectMax
TwoStage(toks, kept) == Len(kept) < Len(toks)
Stage2(q, toks, kept) ==
  LET allowed == Filtered(q.scope, q.filt)
      ranked == FtsRank(kept, Matching(Range(kept)) \cap allowed, OrCand)
  IN  {Row(i) : i \in Range(Ids(ranked))}
      \cup FirstRows(MatchingAll(Range(toks)) \cap allowed, AndCand)
TextIds(q, df, mean) ==
  LET toks == Tokens(q.text)
      kept == PruneCommon(toks, df)
      allowed == Filtered(q.scope, q.filt)
  IN  CASE kept = <<>> -> <<>>
        [] kept # <<>> /\ Direct(q) ->
             LET ranked == Bm25Rescore(toks, df, allowed, mean, Depth(q))
             IN  Selected(ranked, {x \in Range(ranked) : x.score > 0})
        [] kept # <<>> /\ ~Direct(q) /\ TwoStage(toks, kept) ->
             Bm25Rescore(toks, df, Stage2(q, toks, kept), mean, Depth(q))
        [] OTHER -> FtsRank(kept, Matching(Range(kept)) \cap allowed, Depth(q))

\* Has _bm25_rescore anything to score? Only then is a mean length wanted.
Rescores(q, df) ==
  LET toks == Tokens(q.text)
      kept == PruneCommon(toks, df)
  IN  /\ kept # <<>>
      /\ \/ Direct(q) /\ Filtered(q.scope, q.filt) # {}
         \/ ~Direct(q) /\ TwoStage(toks, kept) /\ Stage2(q, toks, kept) # {}

-----------------------------------------------------------------------------
\* _expand: the other chunks of a hit's document, the best of them or all in their
\* order, and its summary.
Others(h) == {r \in rows : /\ r.row.doc = h.row.doc /\ r.row.type = "chunk"
                           /\ h.row.type = "chunk" => r.id # h.id}
InOrder(set) ==
  Ids(Sorted(set, LAMBDA a, b : \/ a.row.position < b.row.position
                                \/ a.row.position = b.row.position /\ a.id < b.id))
Siblings(q, h) ==
  LET kept == PruneCommon(Tokens(q.text), dfs)
  IN  CASE q.expand.topk > 0 /\ q.mode = "text" ->
             Ids(FtsRank(kept, Matching(Range(kept)) \cap Others(h), q.expand.topk))
        [] q.expand.topk > 0 /\ q.mode # "text" ->
             Ids(SearchAllowed(QueryVector(q), q.expand.topk, Others(h), Nprobe))
        [] q.expand.topk = 0 /\ q.expand.all -> InOrder(Others(h))
        [] OTHER -> <<>>
SummaryOf(q, h) ==
  IF q.expand.summary /\ h.row.type # "summary"
  THEN {r.id : r \in {s \in rows : s.row.doc = h.row.doc /\ s.row.type = "summary"}} ELSE {}
Hit(q, x) ==
  [id |-> x.id, siblings |-> Siblings(q, Row(x.id)), summary |-> SummaryOf(q, Row(x.id))]

\* list_records: a page of what matches, by a metadata key or by id, NULLs first.
Listed(q) ==
  LET Earlier(a, b) == IF q.sort = "desc" THEN a.row.meta > b.row.meta ELSE a.row.meta < b.row.meta
      Before(a, b) == IF q.sort = "none" \/ a.row.meta = b.row.meta THEN a.id < b.id ELSE Earlier(a, b)
      sorted == Ids(Sorted(Filtered(q.scope, q.filt), Before))
  IN  SubSeq(sorted, q.offset + 1, Min({q.offset + q.limit, Len(sorted)}))

\* get_document: the summary, then the chunks in their order.
DocumentOf(doc) ==
  LET Of(type) == {r \in rows : r.row.doc = doc /\ r.row.type = type}
  IN  InOrder(Of("summary")) \o InOrder(Of("chunk"))

-----------------------------------------------------------------------------
Idle == question = Unasked /\ answer = <<>>

\* POST documents: the route refuses a record without text and vector.
Post(docs) ==
  /\ Idle /\ Len(jobs) < Posts
  /\ \A i \in DOMAIN docs : \A r \in Range(docs[i].summary) \cup Range(docs[i].chunks) :
       r.text # <<>> \/ r.vector # NoVector
  /\ jobs' = Append(jobs, [docs |-> docs, data |-> Encode(docs), status |-> "pending"])
  /\ UNCHANGED <<rows, ivf, dfs, churn, avgdl, question, legs, answer>>

\* The file system loses the end of a journal row.
Tear ==
  /\ Idle
  /\ Cardinality({j \in DOMAIN jobs : jobs[j].data # Encode(jobs[j].docs)}) < Tears
  /\ \E i \in DOMAIN jobs :
       /\ jobs[i].status = "pending" /\ jobs[i].data.block # <<>>
       /\ jobs' = [jobs EXCEPT ![i].data.block = Front(@)]
  /\ UNCHANGED <<rows, ivf, dfs, churn, avgdl, question, legs, answer>>

\* The worker: a payload that cannot be read or normalized is an error; otherwise its
\* rows replace those of the same ids, under new record ids.
Work ==
  /\ Idle
  /\ \E i \in DOMAIN jobs :
       LET data == jobs[i].data
           new == Vectored(PayloadRows(Decode(data)), Embed)
           top == Max({0} \cup {r.id : r \in rows})
           gone == {r \in rows : \E j \in DOMAIN new : new[j].ext = r.row.ext}
       IN  /\ jobs[i].status = "pending" /\ \A j \in 1..(i - 1) : jobs[j].status # "pending"
           /\ IF Decodable(data) /\ Normalizable(new)
              THEN /\ rows' = (rows \ gone) \cup {Stored(top + j, new[j], TRUE) : j \in DOMAIN new}
                   /\ churn' = churn + Len(new)
                   /\ jobs' = [jobs EXCEPT ![i].status = "done"]
              ELSE /\ jobs' = [jobs EXCEPT ![i].status = "error"]
                   /\ UNCHANGED <<rows, churn>>
  /\ UNCHANGED <<ivf, dfs, avgdl, question, legs, answer>>

\* A question; a search holds the read lock until it is answered.
Ask(q) ==
  /\ Idle
  /\ question' = q
  /\ UNCHANGED <<jobs, rows, ivf, dfs, churn, avgdl, legs, answer>>

\* Relative fusion skips a leg that weighs nothing.
Needs(q, leg) ==
  CASE q.mode = "vector" -> leg = "vec" [] q.mode = "text" -> leg = "text"
    [] q.mode = "hybrid" -> q.fusion = "rrf" \/ (IF leg = "vec" THEN q.alpha > 0 ELSE q.alpha < 10)
    [] OTHER -> FALSE
Refused(q) == q.mode # "document" /\ ~Valid(q.filt)
Ready == \A leg \in {"vec", "text"} : Needs(question, leg) => legs[leg].done

VectorLeg ==
  /\ Needs(question, "vec") /\ ~legs.vec.done /\ ~Refused(question)
  /\ \E nprobe \in ProbeOf(question)..Len(Centroids), depth \in {Depth(question), RescoreCap} :
       legs' = [legs EXCEPT !.vec = Leg(VectorIds(question, nprobe, depth))]
  /\ UNCHANGED <<jobs, rows, ivf, dfs, churn, avgdl, question, answer>>

\* Writes count towards new caches only while they are not emptied. The scorers divide by
\* the mean length.
TextLeg ==
  /\ Needs(question, "text") /\ ~legs.text.done /\ ~Refused(question)
  /\ LET toks == Tokens(question.text)
         rescores == Rescores(question, dfs')
     IN  /\ dfs' = DfsFor(toks)
         /\ churn' = IF CacheKept(toks) THEN churn ELSE 0
         /\ avgdl' \in IF rescores THEN MeansFor(toks) ELSE {MeanKept(toks)}
         /\ legs' = [legs EXCEPT !.text = IF rescores /\ avgdl' = 0 THEN Raised
                                          ELSE Leg(TextIds(question, dfs', avgdl'))]
  /\ UNCHANGED <<jobs, rows, ivf, question, answer>>

Fuse(q) ==
  LET v == legs.vec.ranking  t == legs.text.ranking
  IN  CASE q.mode = "vector" -> v [] q.mode = "text" -> t
        [] q.fusion = "rrf" -> Rrf(q.k, v, t)
        [] OTHER -> Relative(q.k, q.alpha, IF Needs(q, "vec") THEN v ELSE <<>>,
                             IF Needs(q, "text") THEN t ELSE <<>>)

\* A leg that raises is an error of the whole search, whatever the other leg does.
Answer ==
  /\ question # Unasked /\ (Ready \/ Refused(question) \/ legs.text.raised)
  /\ answer' =
       CASE Refused(question) \/ legs.text.raised -> <<>>
         [] question.mode = "list" -> Listed(question)
         [] question.mode = "document" -> DocumentOf(question.doc)
         [] OTHER -> LET fused == Fuse(question)
                     IN  [i \in DOMAIN fused |-> Hit(question, fused[i])]
  /\ question' = Unasked /\ legs' = NoLegs
  /\ UNCHANGED <<jobs, rows, ivf, dfs, churn, avgdl>>

Sent ==
  /\ answer # <<>>
  /\ answer' = <<>>
  /\ UNCHANGED <<jobs, rows, ivf, dfs, churn, avgdl, question, legs>>

Next ==
  \/ \E docs \in Payloads : Post(docs)
  \/ \E q \in Questions : Ask(q)
  \/ Tear \/ Work \/ VectorLeg \/ TextLeg \/ Answer \/ Sent

Spec == Init /\ [][Next]_vars

-----------------------------------------------------------------------------
\* After any jobs, torn ones among them, the records are, for each external id, what the
\* last job that was done said of it last.
DoneRows ==
  FlattenSeq([i \in DOMAIN jobs |->
    IF jobs[i].status # "done" THEN <<>>
    ELSE Vectored(FlattenSeq([d \in DOMAIN jobs[i].docs |-> DocumentRows(jobs[i].docs[d])]), Embed)])
RecordsAreThePosted ==
  LET all == Old \o DoneRows
      last == {i \in DOMAIN all : \A j \in (i + 1)..Len(all) : all[j].ext # all[i].ext}
  IN  {r.row : r \in rows} = {all[i] : i \in last} /\ Cardinality(rows) = Cardinality(last)

\* The native scorer returns the ids and scores of the Python reference for whatever
\* text is asked of the records, and whatever mean length was sampled; neither has an
\* answer for 0.
ScorersAgree ==
  question # Unasked /\ Needs(question, "text") /\ ~legs.text.done =>
    LET toks == Tokens(question.text)
        idf == IdfsFor(toks, DfsFor(toks))
    IN  \A mean \in MeansFor(toks) \ {0} :
          NativeTopN(toks, idf, Candidates(rows), mean, question.k)
            = Bm25TopN(toks, idf, Candidates(rows), mean, question.k)

\* A filtered search loses no row to a shard that was not probed, nor ranks by the
\* index's coarse scores a row whose vector is retained: as long as the allowlist is no
\* larger than the over-fetch (and, with an IVF index, small), its best are the best.
FilteredIsExact ==
  question # Unasked /\ legs.vec.done /\ ~Plain(question) /\ rows # {} =>
    LET q == question
        allow == Filtered(q.scope, q.filt)
        Score(r) == IF r.blob THEN Cosine(QueryVector(q), r.row.vector)
                    ELSE Quantized(QueryVector(q), r.row.vector)
    IN  Cardinality(allow) <= RescoreK(Depth(q)) /\ (ivf => Cardinality(allow) <= Tiny)
          => legs.vec.ranking = Best({[id |-> r.id, score |-> Score(r)] : r \in allow}, Depth(q))

\* The collection has at some time been given a text of nothing but punctuation.
PunctuationPosted == \E r \in Range(Old \o DoneRows) : r.text # <<>> /\ Tokens(r.text) = <<>>

\* Text search finds what there is to find, for all its pruning: every hit is allowed
\* and has a token of the query; a row with every token is left out only when there are
\* as many hits as are wanted; a query of which anything is in a record finds something,
\* if nothing is filtered out and the cached frequencies are those of the records. It
\* raises only where a text of nothing but punctuation was posted, ever.
MatchesAreFound ==
  question # Unasked /\ legs.text.done =>
    LET q == question
        toks == Range(Tokens(q.text))
        ids == Range(Ids(legs.text.ranking))
        allowed == Filtered(q.scope, q.filt)
        fresh == \A t \in toks : dfs[t] = Df(t)
    IN  IF legs.text.raised THEN PunctuationPosted
        ELSE /\ ids \subseteq {r.id : r \in allowed \cap Matching(toks)}
             /\ toks # {} /\ Len(legs.text.ranking) < Depth(q)
                  => {r.id : r \in MatchingAll(toks) \cap allowed} \subseteq ids
             /\ fresh /\ allowed = rows /\ Matching(toks) # {} => ids # {}
=============================================================================
