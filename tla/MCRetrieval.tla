---------------------------- MODULE MCRetrieval -----------------------------
(* Small instances of Retrieval for TLC. *)
EXTENDS Retrieval, TLC

\* Words that fold to one token, to two, and to none.
MCFold == [w \in {"a", "b", "c", "z", "a_b", "-"} |->
             CASE w = "a_b" -> <<"a", "b">> [] w = "-" -> <<>> [] OTHER -> <<w>>]

MCCentroids == <<1, 4>>

Rec(text, vector, meta) == [text |-> text, vector |-> vector, meta |-> meta]
Chunk(id, position, r) == [id |-> id, position |-> position, text |-> r.text,
                           vector |-> r.vector, meta |-> r.meta]
Doc(doc, summary, chunks) == [doc_id |-> doc, summary |-> summary, chunks |-> chunks]

AB == <<"a", "b">>  A == <<"a">>  B == <<"b">>  ACB == <<"a", "c", "b">>  A_B == <<"a_b">>
MCTexts == {AB, A, B, ACB, A_B, <<"c">>, <<"-">>, <<>>,
            <<"z", "a">>}
MCEmbed == [t \in MCTexts |->
              CASE t = A -> 1 [] t = B -> 4 [] t = AB -> 2 [] t = A_B -> 2 [] OTHER -> 3]

\* Two documents with vectors and without, and a summary; new versions of their chunks,
\* the same id twice, an id that is a document's, a zero vector, no token at all.
Posted ==
  {<<Doc(1, <<Rec(A, 1, 12)>>, <<Chunk(11, -1, Rec(AB, NoVector, Null)), Chunk(12, -1, Rec(ACB, 4, 23))>>),
     Doc(2, <<>>, <<Chunk(21, 1, Rec(A, 3, 12)), Chunk(22, 0, Rec(<<"c">>, 2, 31))>>)>>,
   <<Doc(1, <<>>, <<Chunk(11, -1, Rec(B, 4, 12)), Chunk(11, -1, Rec(A_B, 1, 31)),
                    Chunk(1, -1, Rec(B, NoVector, 23))>>)>>,
   <<Doc(2, <<>>, <<Chunk(22, -1, Rec(A, 2, Null)), Chunk(21, -1, Rec(ACB, ZeroVector, 31))>>)>>,
   <<Doc(1, <<Rec(<<"-">>, 4, 31)>>, <<Chunk(12, -1, Rec(<<>>, 1, 23))>>)>>,
   <<Doc(2, <<>>, <<Chunk(31, -1, Rec(<<>>, NoVector, 12))>>)>>}
\* Compared, so that TLC has brought their records into its normal form before its workers
\* share them.
MCPayloads == {docs \in Posted : docs = docs}
MCOld == <<[ext |-> 12, doc |-> 1, type |-> "chunk", position |-> 0, text |-> A, meta |-> 23,
            vector |-> 3]>>

Where(key, op, bound) == [key |-> key, op |-> op, bound |-> bound]
Filters == {{}, {Where("doc_id", "eq", 1)}, {Where("doc_id", "in", {2, 3})},
            {Where("k", "gt", 12), Where("k", "lte", 23)}, {Where("k", "contains", 1)},
            {Where("k", "contains_any", {2, 3})}, {Where("k", "eq", 12), Where("doc_id", "gte", 1)}}
NoExpand == [topk |-> 0, all |-> FALSE, summary |-> FALSE]
Expands == {NoExpand, [NoExpand EXCEPT !.topk = 1, !.summary = TRUE], [NoExpand EXCEPT !.all = TRUE]}
Base == [mode |-> "vector", vec |-> 1, text |-> <<>>, k |-> 2, scope |-> "chunks", filt |-> {},
         expand |-> NoExpand, nprobe |-> 0, fusion |-> "rrf", alpha |-> 0]

MCQuestions ==
  {[Base EXCEPT !.vec = p[1], !.k = p[2], !.filt = f] : p \in {<<1, 1>>, <<4, 2>>}, f \in Filters}
  \cup {[Base EXCEPT !.nprobe = 2, !.scope = s, !.expand = e] : s \in {"both", "summaries"}, e \in Expands}
  \cup {[Base EXCEPT !.mode = "text", !.vec = NoVector, !.text = t, !.k = p[1], !.filt = p[2]] :
          t \in {<<"z", "a">>, A_B, <<"-">>},
          p \in {<<1, {}>>, <<3, {}>>, <<1, {Where("doc_id", "eq", 1)}>>, <<3, {Where("k", "gte", 13)}>>}}
  \cup {[Base EXCEPT !.mode = "text", !.vec = NoVector, !.text = A_B, !.scope = "both", !.expand = e] :
          e \in Expands}
  \cup {[Base EXCEPT !.mode = "hybrid", !.vec = p[1], !.text = A_B, !.fusion = "relative", !.alpha = p[2]] :
          p \in {<<NoVector, 5>>, <<4, 0>>, <<4, 10>>}}
  \cup {[Base EXCEPT !.mode = "hybrid", !.text = A_B]}
  \cup {[mode |-> "list", scope |-> "both", filt |-> f, sort |-> s, limit |-> 2, offset |-> 1] :
          f \in {{}, {Where("k", "contains", 3)}}, s \in {"none", "desc"}}
  \cup {[mode |-> "document", doc |-> d] : d \in {1, 2}}
=============================================================================
