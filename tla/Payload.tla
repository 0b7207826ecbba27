------------------------------ MODULE Payload -------------------------------
(***************************************************************************)
(* A job's payload on its way through the journal (store.py): encoded by   *)
(* the request, decoded and flattened into rows by the worker.             *)
(*                                                                         *)
(* A document is [doc_id, summary, chunks]; a summary is a sequence of at  *)
(* most one record, the chunks a sequence of them. A vector stands for the *)
(* direction it points in; the zero vector and a missing one are values of *)
(* their own. The JSON is kept as the payload it stands for, the float32   *)
(* block vector by vector, which is as fine as it can be torn here.        *)
(***************************************************************************)
EXTENDS Integers, Sequences, SequencesExt

NoVector == -1
ZeroVector == 0

\* What may be posted, and the rows of it, for a set of texts.
SummaryRecords(texts) == [text : texts, vector : Int, meta : Int]
ChunkRecords(texts) == [id : Int, position : Int, text : texts, vector : Int, meta : Int]
Documents(texts) ==
  [doc_id : Int, summary : Seq(SummaryRecords(texts)), chunks : Seq(ChunkRecords(texts))]
RowRecords(texts) ==
  [ext : Int, doc : Int, type : {"summary", "chunk"}, position : Int, text : texts, meta : Int,
   vector : Int]

\* take() in _encode_payload: a vector becomes its row in the block so far.
TakeAll(recs, block) ==
  FoldLeft(LAMBDA acc, r :
             IF r.vector = NoVector THEN [acc EXCEPT !.recs = Append(@, r)]
             ELSE [recs |-> Append(acc.recs, [r EXCEPT !.vector = Len(acc.block)]),
                   block |-> Append(acc.block, r.vector)],
           [recs |-> <<>>, block |-> block], recs)

EncodeDocument(acc, d) ==
  LET s == TakeAll(d.summary, acc.block)
      c == TakeAll(d.chunks, s.block)
  IN  [docs |-> Append(acc.docs, [d EXCEPT !.summary = s.recs, !.chunks = c.recs]),
       block |-> c.block]

\* _encode_payload: the header says how long the JSON and the block are.
Encode(docs) ==
  LET e == FoldLeft(EncodeDocument, [docs |-> <<>>, block |-> <<>>], docs)
  IN  [magic |-> TRUE, n |-> Len(e.block), docs |-> e.docs, block |-> e.block]

\* _decode_payload: the rows of the block back in their places, or a ValueError.
Restored(recs, block) ==
  [i \in DOMAIN recs |->
     IF recs[i].vector = NoVector THEN recs[i]
     ELSE [recs[i] EXCEPT !.vector = block[recs[i].vector + 1]]]
InRange(recs, n) == \A i \in DOMAIN recs : recs[i].vector \in {NoVector} \cup 0..(n - 1)
Decodable(data) ==
  /\ data.magic /\ Len(data.block) = data.n
  /\ \A i \in DOMAIN data.docs : /\ InRange(data.docs[i].summary, data.n)
                                 /\ InRange(data.docs[i].chunks, data.n)
Decode(data) ==
  [i \in DOMAIN data.docs |->
     [data.docs[i] EXCEPT !.summary = Restored(@, data.block), !.chunks = Restored(@, data.block)]]

\* _payload_rows: a summary goes by its document's id; a chunk without a position gets
\* its place. Of rows of one id the last is kept, in the place of the first.
RowOf(id, doc, type, position, r) ==
  [ext |-> id, doc |-> doc, type |-> type, position |-> position, text |-> r.text,
   meta |-> r.meta, vector |-> r.vector]
DocumentRows(d) ==
  [i \in DOMAIN d.summary |-> RowOf(d.doc_id, d.doc_id, "summary", -1, d.summary[i])]
  \o [i \in DOMAIN d.chunks |->
        RowOf(d.chunks[i].id, d.doc_id, "chunk",
              IF d.chunks[i].position = -1 THEN i - 1 ELSE d.chunks[i].position, d.chunks[i])]
PutFirst(rows, r) ==  \* fault: the first row of an id is kept
  IF \E i \in DOMAIN rows : rows[i].ext = r.ext THEN rows ELSE Append(rows, r)
Put(rows, r) ==
  IF \E i \in DOMAIN rows : rows[i].ext = r.ext
  THEN [i \in DOMAIN rows |-> IF rows[i].ext = r.ext THEN r ELSE rows[i]]
  ELSE Append(rows, r)
PayloadRows(docs) == FoldLeft(Put, <<>>, FlattenSeq([i \in DOMAIN docs |-> DocumentRows(docs[i])]))

\* _process_job: rows without a vector are embedded; _rows_matrix refuses a zero vector.
Vectored(rows, embed) ==
  [i \in DOMAIN rows |-> IF rows[i].vector = NoVector
                         THEN [rows[i] EXCEPT !.vector = embed[rows[i].text]] ELSE rows[i]]
Normalizable(rows) == \A i \in DOMAIN rows : rows[i].vector # ZeroVector
=============================================================================
