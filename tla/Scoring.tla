------------------------------ MODULE Scoring -------------------------------
(***************************************************************************)
(* Ranking: pruning of a query's common tokens, the stage-2 BM25 scorer as *)
(* Python (store.py) and as the native module (native/src/lib.rs) compute  *)
(* it, and the two fusions of a hybrid search's legs.                      *)
(*                                                                         *)
(* A text is a sequence of words, each of which folds to tokens. Scores    *)
(* are whole numbers: Scale times the formula of the code, with k1 = b = 1 *)
(* and an inverse frequency that falls as the code's does. What floats add *)
(* to that, the order of their sums, is left out. A ranking is a sequence  *)
(* of [id, score].                                                         *)
(***************************************************************************)
EXTENDS Integers, Sequences, SequencesExt, FiniteSetsExt

CONSTANTS
  Fold,        \* what each word folds to, a sequence of tokens
  ScanBudget,  \* FTS_SCAN_BUDGET in rows: the postings a query may walk
  RRF_K,
  Scale        \* bound: how fine scores are

ASSUME ScoringAssumption ==
  ScanBudget \in Nat /\ RRF_K \in Nat /\ Scale \in Nat \ {0}
\* The tokens there are.
Toks == UNION {Range(Fold[w]) : w \in DOMAIN Fold}
ASSUME FoldAssumption == Fold \in [DOMAIN Fold -> Seq(Toks)]

\* _fold_tokens.
Tokens(text) == FlattenSeq([i \in DOMAIN text |-> Fold[text[i]]])
TokenSet(text) == Range(Tokens(text))

\* Each element once, where it is first.
Distinct(s) == FoldLeft(LAMBDA acc, x : IF Contains(acc, x) THEN acc ELSE Append(acc, x), <<>>, s)

\* f with n more at x.
Plus(f, x, n) ==
  [y \in DOMAIN f \cup {x} |-> (IF y \in DOMAIN f THEN f[y] ELSE 0) + (IF y = x THEN n ELSE 0)]
NoCounts == [x \in {} |-> 0]

\* The elements of s that are in S.
Selected(s, S) == FoldLeft(LAMBDA acc, x : IF x \in S THEN Append(acc, x) ELSE acc, <<>>, s)

\* The elements of S in their order; what SetToSortSeq gives, which provers know nothing of.
Sorted(S, Before(_, _)) ==
  LET rank == [x \in S |-> Cardinality({y \in S : Before(y, x)})]
  IN  [i \in 1..Cardinality(S) |-> CHOOSE x \in S : rank[x] = i - 1]

\* sorted(..., key=(-score, id))[:n].
Best(scored, n) ==
  LET Before(a, b) == a.score > b.score \/ (a.score = b.score /\ a.id < b.id)
      sorted == Sorted(scored, Before)
  IN  SubSeq(sorted, 1, Min({n, Len(sorted)}))
Ids(ranking) == [i \in DOMAIN ranking |-> ranking[i].id]

-----------------------------------------------------------------------------
\* _prune_common: tokens are taken rarest first until the budget is spent, but the
\* rarest that matches anything in any case. df is per token.
Taken(acc, x) == [acc EXCEPT !.spent = @ + x.df, !.kept = @ \cup {x.token}, !.any = @ \/ x.df > 0]
TakeCountsTypos(acc, x) ==  \* fault: a token that matches nothing is the one kept
  IF acc.stop \/ (x.df > 0 /\ acc.kept # {} /\ acc.spent + x.df > ScanBudget)
  THEN [acc EXCEPT !.stop = TRUE] ELSE Taken(acc, x)
Take(acc, x) ==
  IF acc.stop \/ (x.df > 0 /\ acc.any /\ acc.spent + x.df > ScanBudget)
  THEN [acc EXCEPT !.stop = TRUE] ELSE Taken(acc, x)
PruneCommon(toks, df) ==
  LET once == Distinct(toks)
      Rarer(i, j) == df[once[i]] < df[once[j]] \/ (df[once[i]] = df[once[j]] /\ i < j)
      order == Sorted(DOMAIN once, Rarer)
      kept == FoldLeft(LAMBDA acc, i : Take(acc, [token |-> once[i], df |-> df[once[i]]]),
                       [spent |-> 0, kept |-> {}, any |-> FALSE, stop |-> FALSE], order).kept
  IN  Selected(toks, kept)

-----------------------------------------------------------------------------
\* One term of BM25, tf times idf, saturated, over the length of the text; the length
\* of an empty one counts as 1.
Term(idf, tf, dl, avgdl) == (2 * Scale * idf * tf * avgdl) \div (tf * avgdl + dl)
PairTerm(idf, x, y, tf, dl, avgdl) == Term(idf[x] + idf[y], tf, dl, avgdl) \div 2
AtLeast1(n) == IF n = 0 THEN 1 ELSE n

\* The bigrams of a query, and how often one stands in a sequence of tokens.
Adjacent(s) == {<<s[i], s[i + 1]>> : i \in 1..(Len(s) - 1)}
QueryPairs(qtoks) == {p \in Adjacent(qtoks) : p[1] # p[2]}
Frequency(t, toks) == Cardinality({i \in DOMAIN toks : toks[i] = t})
PairFrequency(p, toks) ==
  Cardinality({i \in 1..(Len(toks) - 1) : <<toks[i], toks[i + 1]>> = p})

\* _bm25_topn, the reference. cand is a set of [id, text].
Bm25Score(qtoks, idf, avgdl, text) ==
  LET toks == Tokens(text)
      dl == AtLeast1(Len(toks))
      terms == {t \in Range(qtoks) : Frequency(t, toks) > 0}
      pairs == {p \in QueryPairs(qtoks) : PairFrequency(p, toks) > 0}
  IN  SumFunction([t \in terms |-> Term(idf[t], Frequency(t, toks), dl, avgdl)])
      + SumFunction([p \in pairs |-> PairTerm(idf, p[1], p[2], PairFrequency(p, toks), dl, avgdl)])
        \div 5
Bm25TopN(qtoks, idf, cand, avgdl, n) ==
  IF qtoks = <<>> THEN <<>>
  ELSE Best({[id |-> c.id, score |-> Bm25Score(qtoks, idf, avgdl, c.text)] : c \in cand}, n)

\* bm25_topn, the native scorer: query terms by number, one pass over the tokens of a
\* text that counts terms and pairs as it meets them. 0 is NOT_A_TERM.
OnTokenSkipsOthers(acc, cur, isPair) ==  \* fault: a token of no term does not break a pair
  IF cur = 0 THEN [acc EXCEPT !.dl = @ + 1]
  ELSE [acc EXCEPT !.dl = @ + 1, !.tf = Plus(@, cur, 1), !.prev = cur,
                   !.tf2 = IF <<acc.prev, cur>> \in isPair THEN Plus(@, <<acc.prev, cur>>, 1) ELSE @]
OnToken(acc, cur, isPair) ==
  [dl |-> acc.dl + 1, prev |-> cur,
   tf |-> IF cur # 0 THEN Plus(acc.tf, cur, 1) ELSE acc.tf,
   tf2 |-> IF <<acc.prev, cur>> \in isPair THEN Plus(acc.tf2, <<acc.prev, cur>>, 1) ELSE acc.tf2]

\* A token's place among the terms.
TermIx(terms, t) == IF Contains(terms, t) THEN CHOOSE i \in DOMAIN terms : terms[i] = t ELSE 0
NotYet == [dl |-> 0, prev |-> 0, tf |-> NoCounts, tf2 |-> NoCounts]
Counted(isPair, ixs) == FoldLeft(LAMBDA acc, cur : OnToken(acc, cur, isPair), NotYet, ixs)
NativeScore(qtoks, idf, avgdl, text) ==
  LET terms == Distinct(qtoks)
      isPair == {<<TermIx(terms, p[1]), TermIx(terms, p[2])>> : p \in QueryPairs(qtoks)}
      termIdf == [i \in DOMAIN terms |-> idf[terms[i]]]
      toks == Tokens(text)
      end == Counted(isPair, [i \in DOMAIN toks |-> TermIx(terms, toks[i])])
      dl == AtLeast1(end.dl)
  IN  SumFunction([i \in DOMAIN end.tf |-> Term(termIdf[i], end.tf[i], dl, avgdl)])
      + SumFunction([p \in DOMAIN end.tf2 |->
                       PairTerm(termIdf, p[1], p[2], end.tf2[p], dl, avgdl)])
        \div 5
NativeTopN(qtoks, idf, cand, avgdl, n) ==
  IF qtoks = <<>> THEN <<>>
  ELSE Best({[id |-> c.id, score |-> NativeScore(qtoks, idf, avgdl, c.text)] : c \in cand}, n)

-----------------------------------------------------------------------------
\* The k best of the sums of the legs' scores; of equals the one seen first.
Fused(k, legs) ==
  LET all == FlattenSeq(legs)
      seen == Distinct(Ids(all))
      total == FoldLeft(LAMBDA acc, x : Plus(acc, x.id, x.score), NoCounts, all)
      Before(i, j) == total[seen[i]] > total[seen[j]] \/ (total[seen[i]] = total[seen[j]] /\ i < j)
      order == Sorted(DOMAIN seen, Before)
  IN  [i \in 1..Min({k, Len(seen)}) |-> [id |-> seen[order[i]], score |-> total[seen[order[i]]]]]

\* _rrf.
Rrf(k, vec, text) ==
  LET Ranked(leg) == [i \in DOMAIN leg |-> [id |-> leg[i].id, score |-> (100 * Scale) \div (RRF_K + i)]]
  IN  Fused(k, <<Ranked(vec), Ranked(text)>>)

\* _relative: each leg from 0 to 1 by its own scores, weighed; all equal is 1. alpha is
\* in tenths.
Relative(k, alpha, vec, text) ==
  LET Weighed(leg, weight) ==
        LET scores == {leg[i].score : i \in DOMAIN leg}
            lo == Min(scores)  hi == Max(scores)
        IN  [i \in DOMAIN leg |->
               [id |-> leg[i].id,
                score |-> IF hi > lo THEN (weight * Scale * (leg[i].score - lo)) \div (hi - lo)
                          ELSE weight * Scale]]
  IN  Fused(k, <<Weighed(vec, alpha), Weighed(text, 10 - alpha)>>)
=============================================================================
