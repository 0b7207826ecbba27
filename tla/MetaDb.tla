------------------------------- MODULE MetaDb -------------------------------
(***************************************************************************)
(* meta.db of one collection, as open_meta_db (store.py) finds it and      *)
(* brings it up to date: one SQLite transaction after the other, between   *)
(* any two of which the process may be killed.                             *)
(*                                                                         *)
(* The records are one record with a text and a metadata version. The full *)
(* text index is external content: `entry` is what it holds of the record, *)
(* kept by triggers that are made in the transaction that makes it.        *)
(***************************************************************************)
EXTENDS Naturals, Sequences

CONSTANT Tokenizer   \* cfg.tokenizer

ASSUME MetaDbAssumption == Tokenizer \in {"unicode61", "trigram"}

\* The tokenizer and the column of the full text index; with fts_keys it is keyed.
Wanted(db) == <<Tokenizer, IF db.keyed THEN "bm25_text" ELSE "text">>
NoFts == <<"none", "none">>

\* A directory without a meta.db, for a collection with fts_keys or without.
Nothing(keyed) ==
  [keyed |-> keyed, tables |-> FALSE, suffixed |-> FALSE, indexes |-> {}, fts |-> NoFts,
   vocab |-> FALSE, text |-> 0, metadata |-> 0, suffix |-> 0, entry |-> <<0, 0>>,
   jobs |-> FALSE]

\* What a full text index of this layout should hold: bm25_text is the text and the
\* stored metadata suffix.
Indexed(db, layout) ==
  IF db.text = 0 THEN <<0, 0>>
  ELSE <<db.text, IF layout[2] = "bm25_text" THEN db.suffix ELSE 0>>

\* _ensure_fts: the index is made, or made anew, from the records.
EnsureFts(db) ==
  IF db.fts = Wanted(db) THEN db
  ELSE [db EXCEPT !.fts = Wanted(db), !.entry = Indexed(db, Wanted(db))]

\* open_meta_db, in the order of its transactions.
OpenStepsDropFirst ==  \* fault: the old index is dropped before the new one is built
  <<"tables", "columns", "drop doc", "doc_type", "jobs_open", "fts", "vocab">>
OpenSteps == <<"tables", "columns", "doc_type", "drop doc", "jobs_open", "fts", "vocab">>

Run(db, step) ==
  CASE step = "tables"    -> [db EXCEPT !.tables = TRUE]
    [] step = "columns"   -> [db EXCEPT !.suffixed = @ \/ db.keyed]
    [] step = "doc_type"  -> [db EXCEPT !.indexes = @ \cup {"doc_type"}]
    [] step = "drop doc"  -> [db EXCEPT !.indexes = @ \ {"doc"}]
    [] step = "jobs_open" -> [db EXCEPT !.indexes = @ \cup {"jobs_open"}]
    [] step = "fts"       -> EnsureFts(db)
    [] step = "vocab"     -> [db EXCEPT !.vocab = TRUE]

\* A new database that open_meta_db is through with: what its steps, one after the
\* other, make of no database.
Fresh(keyed) ==
  EnsureFts([Nothing(keyed) EXCEPT !.tables = TRUE, !.suffixed = keyed,
                                   !.indexes = {"doc_type", "jobs_open"}, !.vocab = TRUE])

\* _upsert_rows on the record: insert and delete triggers bring the index along.
Upserted(db) ==
  LET new == [db EXCEPT !.text = @ + 1, !.metadata = @ + 1, !.jobs = FALSE,
                        !.suffix = IF db.keyed THEN db.metadata + 1 ELSE 0]
  IN  [new EXCEPT !.entry = IF db.fts = NoFts THEN @ ELSE Indexed(new, db.fts)]

\* _patch_rows: with fts_keys the same statement rewrites the suffix, and the update
\* trigger, which only a keyed index has, the entry.
Suffixed(db) ==
  [db EXCEPT !.metadata = @ + 1, !.suffix = IF db.keyed THEN db.metadata + 1 ELSE 0]
PatchedUntriggered(db) ==  \* fault: a keyed index without an update trigger
  IF db.text = 0 THEN db ELSE Suffixed(db)
Patched(db) ==
  IF db.text = 0 THEN db
  ELSE [Suffixed(db) EXCEPT
          !.entry = IF db.fts[2] = "bm25_text" THEN Indexed(Suffixed(db), db.fts) ELSE @]

\* Layouts an earlier version or an interrupted open left: without a full text index,
\* with the old document index (alone, or beside the new one), of another tokenizer.
Legacy ==
  LET old == [Nothing(FALSE) EXCEPT !.tables = TRUE, !.indexes = {"doc"},
                                    !.text = 1, !.metadata = 1]
      other == [old EXCEPT !.fts = <<"another", "text">>, !.vocab = TRUE]
  IN  {old, [old EXCEPT !.indexes = {"doc", "doc_type"}],
       [other EXCEPT !.entry = Indexed(other, other.fts)]}

\* What queries rely on: the indexes their plans name, and a full text index of the
\* right layout that holds the records as they are.
DocIndexed(db) == db.indexes \cap {"doc", "doc_type"} # {}
Current(db) ==
  /\ db.tables /\ (db.keyed => db.suffixed) /\ db.vocab
  /\ db.indexes = {"doc_type", "jobs_open"}
  /\ db.fts = Wanted(db)
Mirrored(db) ==
  db.entry = Indexed([db EXCEPT !.suffix = IF db.keyed THEN db.metadata ELSE 0], db.fts)
=============================================================================
