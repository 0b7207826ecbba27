-------------------------- MODULE RetrievalProofs --------------------------
(***************************************************************************)
(* What holds of Retrieval for every set of payloads and questions, every  *)
(* direction the endpoint gives and every number of posts and torn rows:   *)
(* the records are what the last job that was done said of each external   *)
(* id, the two scorers agree, a filtered vector search is exact, and text  *)
(* search finds what there is to find.                                     *)
(*                                                                         *)
(* The operators of Payload fold over sequences. The first part says what  *)
(* a fold is, step by step: a fold over a set is a function on its subsets *)
(* (FoldExists), and on the prefixes of a sequence its values follow from  *)
(* each other (FoldPrefixes). From the steps come, in turn, that decoding  *)
(* is the inverse of encoding, what flattening into rows keeps of a job,   *)
(* and what a job leaves of the records. JobsKept and RowsKept are the     *)
(* inductive invariant: a payload is whole or known to be torn, and jobs   *)
(* are done in order.                                                      *)
(*                                                                         *)
(* The second part is of the scorers: a sum does not depend on the order   *)
(* in which it is taken (SumRenamed), and the native scorer's one pass     *)
(* counts under numbers what the reference counts under tokens.            *)
(*                                                                         *)
(* The third is of rankings: those before an element are counted, so that  *)
(* sorting by the count lists each element once (ByRankLists); then shards *)
(* that are merged lose nothing of an allowlist, and the exact scores rank *)
(* it (FilteredAlwaysExact). The fourth is of text search: pruning keeps a *)
(* token that matches, if one does (PruneCommonKeeps), scores are positive *)
(* where a token is (Bm25ScoreIs), and a ranking leaves out only for want  *)
(* of room (RankedBy), whichever way the search goes (TextIdsFind). MInv   *)
(* is the invariant of all.                                                *)
(***************************************************************************)
EXTENDS Retrieval, FiniteSetTheorems, FunctionTheorems, NaturalsInduction, WellFoundedInduction,
        SequenceTheorems, TLAPS

\* A function on the sets of the first n numbers that takes the greatest last; and its values
\* on the prefixes.
IsFold(f, n, base, G) ==
  \A t \in SUBSET (1..n) : f[t] = IF t = {} THEN base ELSE G[Max(t)][f[t \ {Max(t)}]]
Steps(g, n, base, G) == g[0] = base /\ \A i \in 1..n : g[i] = G[i][g[i - 1]]

\* Induction, for a set of numbers.
LEMMA Reached ==
  ASSUME NEW S, 0 \in S, \A k \in Nat : k \in S => k + 1 \in S
  PROVE  Nat \subseteq S
<1> DEFINE T == Nat \ S
<1> SUFFICES ASSUME T # {} PROVE FALSE
  OBVIOUS
<1>1. PICK x \in T : \A y \in T : ~(<<y, x>> \in OpToRel(<, Nat))
  BY WFMin, NatLessThanWellFounded
<1>2. x \in Nat /\ x # 0 /\ x - 1 \in Nat
  OBVIOUS
<1>3. <<x - 1, x>> \in OpToRel(<, Nat)
  BY <1>2 DEF OpToRel
<1>4. x - 1 \in S
  BY <1>1, <1>2, <1>3
<1>. QED
  BY <1>2, <1>4

\* The same up to n.
LEMMA ReachedTo ==
  ASSUME NEW n \in Nat, NEW S, 0 \in S, \A k \in 0..(n - 1) : k \in S => k + 1 \in S
  PROVE  0..n \subseteq S
<1> DEFINE T == {k \in Nat : k <= n => k \in S}
<1>1. 0 \in T /\ \A k \in Nat : k \in T => k + 1 \in T
  OBVIOUS
<1> HIDE DEF T
<1>2. Nat \subseteq T
  BY <1>1, Reached
<1>. QED
  BY <1>2 DEF T

\* A set of some of the first n numbers has a greatest.
LEMMA MaxOf ==
  ASSUME NEW n \in Nat, NEW t \in SUBSET (1..n), t # {}
  PROVE  Max(t) \in t /\ \A y \in t : y <= Max(t)
<1> DEFINE Topped(u) == \E x \in u : \A y \in u : x >= y
           S == {k \in Nat : \A u \in SUBSET (1..k) : u # {} => Topped(u)}
<1>1. 0 \in S
  <2>1. 1..0 = {}
    OBVIOUS
  <2>. QED
    BY <2>1
<1>2. ASSUME NEW k \in Nat, k \in S
      PROVE  k + 1 \in S
  <2> SUFFICES ASSUME NEW u \in SUBSET (1..(k + 1)), u # {}
               PROVE  Topped(u)
    OBVIOUS
  <2>1. CASE k + 1 \in u
    BY <2>1
  <2>2. CASE k + 1 \notin u
    BY <2>2, <1>2
  <2>. QED
    BY <2>1, <2>2
<1> HIDE DEF S
<1>3. n \in S
  BY <1>1, <1>2, Reached
<1>4. \E x \in t : \A y \in t : x >= y
  BY <1>3 DEF S
<1>. QED
  BY <1>4 DEF Max

\* It is n, if n is one of them.
LEMMA MaxTo ==
  ASSUME NEW n \in Nat, NEW t \in SUBSET (1..n), n \in t
  PROVE  Max(t) = n
<1>1. Max(t) \in t /\ n <= Max(t)
  BY MaxOf
<1>2. Max(t) \in 1..n
  BY <1>1
<1>. QED
  BY <1>1, <1>2

\* What a fold over 1..i takes last, and what is left then.
LEMMA MaxUpTo ==
  ASSUME NEW n \in Nat, NEW i \in 1..n
  PROVE  /\ Max(1..i) = i /\ (1..i) \ {i} = 1..(i - 1)
         /\ 1..i # {} /\ 1..i \in SUBSET (1..n)
<1>1. i \in Nat /\ 1..i \in SUBSET (1..i) /\ i \in 1..i
  OBVIOUS
<1>2. Max(1..i) = i
  BY <1>1, MaxTo
<1>3. (1..i) \ {i} = 1..(i - 1)
  OBVIOUS
<1>. QED
  BY <1>1, <1>2, <1>3

\* There is a fold, by induction on the greatest number.
LEMMA FoldExists ==
  ASSUME NEW n \in Nat, NEW V, NEW base \in V, NEW G \in [1..n -> [V -> V]]
  PROVE  \E f \in [SUBSET (1..n) -> V] : IsFold(f, n, base, G)
<1> DEFINE Step(f, t) == IF t = {} THEN base ELSE G[Max(t)][f[t \ {Max(t)}]]
           Good(k, f) == \A t \in SUBSET (1..k) : f[t] = Step(f, t)
           Some(k) == \E f \in [SUBSET (1..k) -> V] : Good(k, f)
           S == {k \in Nat : k <= n => Some(k)}
<1>1. 0 \in S
  <2>1. 1..0 = {}
    OBVIOUS
  <2> DEFINE f == [t \in SUBSET (1..0) |-> base]
  <2>2. f \in [SUBSET (1..0) -> V]
    OBVIOUS
  <2>3. Good(0, f)
    BY <2>1
  <2>. QED
    BY <2>2, <2>3
<1>2. ASSUME NEW k \in Nat, k + 1 <= n, Some(k)
      PROVE  Some(k + 1)
  <2>1. PICK f \in [SUBSET (1..k) -> V] : Good(k, f)
    BY <1>2
  <2> DEFINE h == [t \in SUBSET (1..(k + 1)) |->
                     IF k + 1 \in t THEN G[k + 1][f[t \ {k + 1}]] ELSE f[t]]
  <2>2. h \in [SUBSET (1..(k + 1)) -> V]
    <3> SUFFICES ASSUME NEW t \in SUBSET (1..(k + 1))
                 PROVE  (IF k + 1 \in t THEN G[k + 1][f[t \ {k + 1}]] ELSE f[t]) \in V
      OBVIOUS
    <3>1. t \ {k + 1} \in SUBSET (1..k)
      OBVIOUS
    <3>2. G[k + 1] \in [V -> V]
      BY <1>2
    <3>. QED
      BY <3>1, <3>2
  <2>3. ASSUME NEW t \in SUBSET (1..(k + 1))
        PROVE  h[t] = Step(h, t)
    <3>1. CASE k + 1 \in t
      <4>1. Max(t) = k + 1
        BY <3>1, MaxTo
      <4>2. h[t \ {k + 1}] = f[t \ {k + 1}]
        OBVIOUS
      <4>. QED
        BY <3>1, <4>1, <4>2
    <3>2. CASE k + 1 \notin t
      <4>1. t \in SUBSET (1..k)
        BY <3>2
      <4>2. h[t] = Step(f, t)
        BY <3>2, <4>1, <2>1
      <4>3. h[t \ {Max(t)}] = f[t \ {Max(t)}]
        BY <3>2
      <4>. QED
        BY <4>2, <4>3
    <3>. QED
      BY <3>1, <3>2
  <2> HIDE DEF Step, h
  <2>. QED
    BY <2>2, <2>3
<1>3. n \in S
  <2> HIDE DEF Some
  <2>1. ASSUME NEW k \in Nat, k \in S
        PROVE  k + 1 \in S
    BY <1>2, <2>1
  <2> HIDE DEF S
  <2>. QED
    BY <1>1, <2>1, Reached
<1>4. Some(n)
  <2> HIDE DEF Some
  <2>. QED
    BY <1>3
<1>. QED
  BY <1>4 DEF IsFold

\* Its values on the prefixes are what the steps give.
LEMMA FoldPrefixes ==
  ASSUME NEW n \in Nat, NEW V, NEW base \in V, NEW G \in [1..n -> [V -> V]], NEW f,
         f[{}] = base,
         \A i \in 1..n : f[1..(i - 1)] \in V => f[1..i] = G[i][f[1..(i - 1)]]
  PROVE  \E g \in [0..n -> V] : g[n] = f[1..n] /\ Steps(g, n, base, G)
<1> DEFINE g == [i \in 0..n |-> f[1..i]]
           S == {k \in Nat : k <= n => f[1..k] \in V}
<1>1. 1..0 = {}
  OBVIOUS
<1>2. 0 \in S
  BY <1>1
<1>3. ASSUME NEW k \in Nat, k \in S
      PROVE  k + 1 \in S
  <2> SUFFICES ASSUME k + 1 <= n
               PROVE  f[1..(k + 1)] \in V
    OBVIOUS
  <2>1. f[1..k] \in V
    BY <1>3
  <2>2. f[1..(k + 1)] = G[k + 1][f[1..k]]
    BY <2>1
  <2>3. G[k + 1] \in [V -> V]
    OBVIOUS
  <2>. QED
    BY <2>1, <2>2, <2>3
<1>4. Nat \subseteq S
  <2> HIDE DEF S
  <2>. QED
    BY <1>2, <1>3, Reached
<1>5. \A k \in 0..n : f[1..k] \in V
  BY <1>4
<1>6. g \in [0..n -> V]
  BY <1>5
<1>7. g[0] = base /\ g[n] = f[1..n]
  BY <1>1
<1>8. \A i \in 1..n : g[i] = G[i][g[i - 1]]
  BY <1>5
<1>. QED
  BY <1>6, <1>7, <1>8 DEF Steps

-----------------------------------------------------------------------------
\* The concatenation of the first sequences of ss.
Joined(g, ss) == g[0] = <<>> /\ \A i \in 1..Len(ss) : g[i] = g[i - 1] \o ss[i]

\* There is one, for each number of them.
LEMMA JoinedExists ==
  ASSUME NEW R, NEW ss \in Seq(Seq(R))
  PROVE  \E g \in [0..Len(ss) -> Seq(R)] : Joined(g, ss)
<1> DEFINE n == Len(ss)
           G == [i \in 1..n |-> [q \in Seq(R) |-> q \o ss[i]]]
           base == <<>>
<1>1. n \in Nat /\ base \in Seq(R)
  OBVIOUS
<1>2. ASSUME NEW i \in 1..n
      PROVE  G[i] \in [Seq(R) -> Seq(R)]
  <2>1. ss[i] \in Seq(R)
    OBVIOUS
  <2>. QED
    BY <2>1
<1>3. G \in [1..n -> [Seq(R) -> Seq(R)]]
  BY <1>2
<1>4. \E h \in [SUBSET (1..n) -> Seq(R)] : IsFold(h, n, base, G)
  <2> HIDE DEF n, G, base
  <2>. QED
    BY <1>1, <1>3, FoldExists
<1>5. PICK h \in [SUBSET (1..n) -> Seq(R)] : IsFold(h, n, base, G)
  BY <1>4
<1>6. h[{}] = base
  BY <1>5 DEF IsFold
<1>7. ASSUME NEW i \in 1..n
      PROVE  h[1..i] = G[i][h[1..(i - 1)]]
  <2> HIDE DEF n, G, base
  <2>. QED
    BY <1>1, <1>5, MaxUpTo DEF IsFold
<1>8. \E g \in [0..n -> Seq(R)] : g[n] = h[1..n] /\ Steps(g, n, base, G)
  <2>1. \A i \in 1..n : h[1..(i - 1)] \in Seq(R) => h[1..i] = G[i][h[1..(i - 1)]]
    BY <1>7
  <2> HIDE DEF n, G, base
  <2>. QED
    BY <1>1, <1>3, <1>6, <2>1, FoldPrefixes
<1>9. PICK g \in [0..n -> Seq(R)] : Steps(g, n, base, G)
  BY <1>8
<1>10. ASSUME NEW i \in 1..n
       PROVE  g[i] = g[i - 1] \o ss[i]
  <2>1. g[i] = G[i][g[i - 1]] /\ g[i - 1] \in Seq(R)
    <3> HIDE DEF G, n
    <3>1. g[i] = G[i][g[i - 1]]
      BY <1>9 DEF Steps
    <3>2. i - 1 \in 0..n
      BY DEF n
    <3>. QED
      BY <3>1, <3>2
  <2>. QED
    BY <2>1
<1>11. g[0] = <<>>
  BY <1>9 DEF Steps
<1>. QED
  BY <1>10, <1>11 DEF Joined

\* As far as k, ss and tt are the same.
Alike(ss, tt, k) ==
  /\ {k, Len(ss), Len(tt)} \subseteq Nat /\ k <= Len(ss) /\ k <= Len(tt)
  /\ \A i \in 1..k : ss[i] = tt[i]

\* Then so are their concatenations.
LEMMA JoinedAgree ==
  ASSUME NEW ss, NEW tt, NEW g, NEW h, Joined(g, ss), Joined(h, tt), NEW k, Alike(ss, tt, k)
  PROVE  g[k] = h[k]
<1> k \in Nat /\ {Len(ss), Len(tt)} \subseteq Nat /\ k <= Len(ss) /\ k <= Len(tt)
  BY DEF Alike
<1> DEFINE S == {i \in 0..k : g[i] = h[i]}
<1>1. 0 \in S
  BY DEF Joined
<1>2. ASSUME NEW i \in 0..(k - 1), i \in S
      PROVE  i + 1 \in S
  <2>1. i + 1 \in 1..Len(ss) /\ i + 1 \in 1..Len(tt) /\ i + 1 \in 1..k /\ (i + 1) - 1 = i
    OBVIOUS
  <2>2. g[i + 1] = g[i] \o ss[i + 1] /\ h[i + 1] = h[i] \o tt[i + 1]
    BY <2>1, Zenon DEF Joined
  <2>3. g[i] = h[i]
    BY <1>2
  <2>4. ss[i + 1] = tt[i + 1]
    BY <2>1 DEF Alike
  <2>5. g[i + 1] = h[i + 1]
    BY <2>2, <2>3, <2>4, Zenon
  <2>. QED
    BY <2>1, <2>5
<1> HIDE DEF S
<1>3. 0..k \subseteq S
  BY <1>1, <1>2, ReachedTo
<1>4. k \in S
  BY <1>3
<1>. QED
  BY <1>4 DEF S

\* FlattenSeq is the concatenation of all.
LEMMA FlattenJoined ==
  ASSUME NEW R, NEW ss \in Seq(Seq(R)), NEW g \in [0..Len(ss) -> Seq(R)], Joined(g, ss)
  PROVE  FlattenSeq(ss) = g[Len(ss)]
<1> DEFINE n == Len(ss)
           Step(f, i) == IF i = 1 THEN ss[i] ELSE f[i - 1] \o ss[i]
           f == CHOOSE f : f = [i \in 1..n |-> Step(f, i)]
           e == [i \in 1..n |-> g[i]]
<1>1. ASSUME NEW i \in 1..n
      PROVE  g[i] = IF i = 1 THEN ss[i] ELSE g[i - 1] \o ss[i]
  <2>1. g[i] = g[i - 1] \o ss[i] /\ ss[i] \in Seq(R)
    BY DEF Joined
  <2>2. CASE i = 1
    <3>1. g[0] = <<>>
      BY DEF Joined
    <3>2. <<>> \o ss[i] = ss[i]
      BY <2>1
    <3>3. i - 1 = 0
      BY <2>2
    <3>. QED
      BY <2>1, <2>2, <3>1, <3>2, <3>3, Zenon
  <2>. QED
    BY <2>1, <2>2
<1>2. f = [i \in 1..n |-> Step(f, i)]
  <2>1. e = [i \in 1..n |-> Step(e, i)]
    <3>1. ASSUME NEW i \in 1..n
          PROVE  g[i] = Step(e, i)
      <4>1. CASE i = 1
        BY <4>1, <1>1
      <4>2. CASE i # 1
        <5>1. e[i - 1] = g[i - 1]
          BY <4>2
        <5>. QED
          BY <4>2, <5>1, <1>1
      <4>. QED
        BY <4>1, <4>2
    <3> HIDE DEF Step
    <3>. QED
      BY <3>1
  <2> HIDE DEF Step, e
  <2>. QED
    BY <2>1
<1>3. n # 0 => FlattenSeq(ss) = f[n]
  BY DEF FlattenSeq
<1> HIDE DEF f
<1>4. CASE n = 0
  <2>1. FlattenSeq(ss) = ss /\ ss = <<>>
    BY <1>4 DEF FlattenSeq
  <2>. QED
    BY <1>4, <2>1 DEF Joined
<1>5. CASE n # 0
  <2>1. PICK m \in Nat : n = m + 1
    <3>1. n - 1 \in Nat /\ n = (n - 1) + 1
      BY <1>5
    <3>. QED
      BY <3>1
  <2> DEFINE S == {k \in Nat : f[k + 1] = g[k + 1]}
  <2>2. 0 \in S
    <3>1. 1 \in 1..n
      BY <1>5
    <3>2. f[1] = ss[1]
      BY <3>1, <1>2
    <3>3. g[1] = ss[1]
      BY <3>1, <1>1
    <3>. QED
      BY <3>2, <3>3
  <2>3. ASSUME NEW k \in 0..(m - 1), k \in S
        PROVE  k + 1 \in S
    <3>1. k + 1 + 1 \in 1..n /\ k + 1 + 1 # 1 /\ (k + 1 + 1) - 1 = k + 1 /\ k + 1 \in Nat
      BY <2>1
    <3>2. f[k + 1 + 1] = f[k + 1] \o ss[k + 1 + 1]
      BY <1>2, <3>1
    <3>3. g[k + 1 + 1] = g[k + 1] \o ss[k + 1 + 1]
      BY <1>1, <3>1
    <3>4. f[k + 1] = g[k + 1]
      BY <2>3
    <3>5. f[k + 1 + 1] = g[k + 1 + 1]
      BY <3>2, <3>3, <3>4, Zenon
    <3>. QED
      BY <3>1, <3>5
  <2> HIDE DEF S
  <2>4. m \in S
    <3>1. 0..m \subseteq S
      BY <2>2, <2>3, ReachedTo
    <3>. QED
      BY <3>1
  <2>. QED
    BY <1>3, <1>5, <2>1, <2>4 DEF S
<1>. QED
  BY <1>4, <1>5

\* Its elements are those of the parts.
LEMMA FlattenType ==
  ASSUME NEW R, NEW ss \in Seq(Seq(R))
  PROVE  FlattenSeq(ss) \in Seq(R)
<1>1. PICK g \in [0..Len(ss) -> Seq(R)] : Joined(g, ss)
  BY JoinedExists
<1>2. FlattenSeq(ss) = g[Len(ss)]
  BY <1>1, FlattenJoined
<1>3. Len(ss) \in 0..Len(ss)
  OBVIOUS
<1>. QED
  BY <1>2, <1>3

\* An empty part at the end adds nothing.
LEMMA FlattenAppendEmpty ==
  ASSUME NEW R, NEW ss \in Seq(Seq(R))
  PROVE  FlattenSeq(Append(ss, <<>>)) = FlattenSeq(ss)
<1> DEFINE n == Len(ss)
<1>1. PICK tt : tt = Append(ss, <<>>)
  OBVIOUS
<1>2. tt \in Seq(Seq(R)) /\ Len(tt) = n + 1 /\ tt[n + 1] = <<>> /\ \A i \in 1..n : ss[i] = tt[i]
  BY <1>1
<1>3. PICK g \in [0..Len(ss) -> Seq(R)] : Joined(g, ss)
  BY JoinedExists
<1>4. PICK h \in [0..Len(tt) -> Seq(R)] : Joined(h, tt)
  BY <1>2, JoinedExists
<1>5. n \in Nat /\ n \in 0..n /\ n \in 0..Len(tt) /\ n + 1 \in 1..Len(tt)
  BY <1>2
<1>6. g[n] = h[n]
  <2>1. n <= Len(ss) /\ n <= Len(tt) /\ Len(ss) \in Nat /\ Len(tt) \in Nat /\ n \in Nat
    BY <1>2
  <2>2. Alike(ss, tt, n)
    BY <1>2, <2>1 DEF Alike
  <2> HIDE DEF n
  <2>. QED
    BY <2>2, <1>3, <1>4, JoinedAgree
<1>7. h[n + 1] = h[n] \o <<>> /\ h[n] \in Seq(R)
  <2>1. h[n + 1] = h[(n + 1) - 1] \o tt[n + 1]
    BY <1>4, <1>5 DEF Joined
  <2>. QED
    BY <2>1, <1>2, <1>5
<1>8. FlattenSeq(ss) = g[n]
  BY <1>3, FlattenJoined
<1>9. FlattenSeq(tt) = h[n + 1]
  BY <1>2, <1>4, FlattenJoined
<1>. QED
  BY <1>1, <1>5, <1>6, <1>7, <1>8, <1>9

\* Nothing from p on.
Blank(ss, p) == \A i \in p..Len(ss) : ss[i] = <<>>

\* What is put where only empty parts follow comes last.
LEMMA FlattenAt ==
  ASSUME NEW R, NEW ss \in Seq(Seq(R)), NEW p \in 1..Len(ss), NEW q \in Seq(R),
         Blank(ss, p)
  PROVE  FlattenSeq([ss EXCEPT ![p] = q]) = FlattenSeq(ss) \o q
<1> DEFINE n == Len(ss)
<1>1. PICK tt : tt = [ss EXCEPT ![p] = q]
  OBVIOUS
<1>2. /\ tt \in Seq(Seq(R)) /\ Len(tt) = n /\ tt[p] = q
      /\ \A i \in 1..n : i # p => tt[i] = ss[i]
  BY <1>1
<1>3. PICK g \in [0..Len(ss) -> Seq(R)] : Joined(g, ss)
  BY JoinedExists
<1>4. PICK h \in [0..Len(tt) -> Seq(R)] : Joined(h, tt)
  BY <1>2, JoinedExists
<1>5. n \in Nat /\ p \in Nat /\ p - 1 \in Nat /\ p - 1 <= n /\ p \in 1..n /\ n - p \in Nat
  OBVIOUS
<1>6. g[p - 1] = h[p - 1]
  <2>1. PICK m \in Nat : m = p - 1
    BY <1>5
  <2>2. m \in Nat /\ m <= Len(ss) /\ m <= Len(tt) /\ Len(ss) \in Nat /\ Len(tt) \in Nat
    BY <2>1, <1>2, <1>5
  <2>3. Alike(ss, tt, m)
    BY <2>1, <2>2, <1>2, <1>5 DEF Alike
  <2>4. g[m] = h[m]
    BY <1>3, <1>4, <2>3, JoinedAgree
  <2>. QED
    BY <2>1, <2>2, <2>4
<1>7. ASSUME NEW i \in 1..n
      PROVE  g[i] = g[i - 1] \o ss[i] /\ h[i] = h[i - 1] \o tt[i]
  BY <1>2, <1>3, <1>4 DEF Joined
<1> DEFINE S == {j \in Nat : g[p + j] = g[p - 1] /\ h[p + j] = g[p - 1] \o q}
<1>8. 0 \in S
  <2>1. g[p] = g[p - 1] \o ss[p] /\ h[p] = h[p - 1] \o tt[p]
    BY <1>5, <1>7
  <2>2. ss[p] = <<>>
    BY <1>5 DEF Blank
  <2>3. g[p - 1] \in Seq(R)
    <3>1. p - 1 \in 0..Len(ss)
      BY <1>5
    <3>. QED
      BY <3>1
  <2>4. g[p - 1] \o <<>> = g[p - 1]
    BY <2>3
  <2>5. p + 0 = p
    OBVIOUS
  <2>6. g[p] = g[p - 1] /\ h[p] = g[p - 1] \o q
    BY <2>1, <2>2, <2>4, <1>2, <1>6, Zenon
  <2>. QED
    BY <2>5, <2>6
<1>14. PICK m : m = n - p
  OBVIOUS
<1>9. ASSUME NEW j \in 0..(m - 1), j \in S
      PROVE  j + 1 \in S
  <2>1. PICK i : i = p + (j + 1)
    OBVIOUS
  <2>2. i \in 1..n /\ i - 1 = p + j /\ i # p /\ i \in p..n /\ p + j \in 0..n /\ j + 1 \in Nat
    BY <2>1, <1>5, <1>14
  <2>3. g[i] = g[p + j] \o ss[i] /\ h[i] = h[p + j] \o tt[i]
    BY <1>7, <2>2
  <2>4. ss[i] = <<>>
    BY <2>2 DEF Blank
  <2>5. tt[i] = <<>>
    BY <1>2, <2>2, <2>4
  <2>6. g[p + j] \in Seq(R) /\ h[p + j] \in Seq(R)
    BY <1>2, <2>2
  <2>7. g[p + j] \o <<>> = g[p + j] /\ h[p + j] \o <<>> = h[p + j]
    BY <2>6
  <2>8. g[i] = g[p + j] /\ h[i] = h[p + j]
    BY <2>3, <2>4, <2>5, <2>7
  <2>9. g[p + j] = g[p - 1] /\ h[p + j] = g[p - 1] \o q
    BY <1>9
  <2>. QED
    BY <2>1, <2>2, <2>8, <2>9
<1> HIDE DEF S
<1>10. n - p \in S
  <2>1. m \in Nat
    BY <1>5, <1>14
  <2>2. 0..m \subseteq S
    BY <2>1, <1>8, <1>9, ReachedTo
  <2>. QED
    <3>1. m \in S
      BY <2>1, <2>2
    <3>. QED
      BY <3>1, <1>14, Zenon
<1>11. g[n] = g[p - 1] /\ h[n] = g[p - 1] \o q
  <2>1. p + (n - p) = n
    BY <1>5
  <2>. QED
    BY <1>10, <2>1 DEF S
<1>12. FlattenSeq(ss) = g[n]
  BY <1>3, FlattenJoined
<1>13. FlattenSeq(tt) = h[n]
  BY <1>2, <1>4, FlattenJoined
<1>. QED
  BY <1>1, <1>11, <1>12, <1>13

-----------------------------------------------------------------------------
\* One step of take(), for a record r.
Take1(acc, r) ==
  IF r.vector = NoVector THEN [acc EXCEPT !.recs = Append(@, r)]
  ELSE [recs |-> Append(acc.recs, [r EXCEPT !.vector = Len(acc.block)]),
        block |-> Append(acc.block, r.vector)]

\* Records whose vector may be exchanged for a number, and back.
HasVector(R) ==
  \A r \in R : /\ r.vector \in Int
                /\ \A v \in Int : /\ [r EXCEPT !.vector = v] \in R
                                   /\ [r EXCEPT !.vector = v].vector = v
                                   /\ [[r EXCEPT !.vector = v] EXCEPT !.vector = r.vector] = r

\* A step takes one record and at most one vector.
LEMMA Take1Type ==
  ASSUME NEW R, HasVector(R), NEW recs \in Seq(R), NEW b \in Seq(Int), NEW r \in R
  PROVE  Take1([recs |-> recs, block |-> b], r) \in [recs : Seq(R), block : Seq(Int)]
<1>1. CASE r.vector = NoVector
  <2>1. Take1([recs |-> recs, block |-> b], r) = [recs |-> Append(recs, r), block |-> b]
    BY <1>1 DEF Take1
  <2>2. Append(recs, r) \in Seq(R)
    BY AppendProperties
  <2>3. [recs |-> Append(recs, r), block |-> b] \in [recs : Seq(R), block : Seq(Int)]
    BY <2>2
  <2>. QED
    BY <2>1, <2>3, Zenon
<1>2. CASE r.vector # NoVector
  <2>1. Len(b) \in Int
    OBVIOUS
  <2>2. PICK e \in R : e = [r EXCEPT !.vector = Len(b)]
    BY <2>1 DEF HasVector
  <2>3. PICK x \in Int : x = r.vector
    BY DEF HasVector
  <2>4. Take1([recs |-> recs, block |-> b], r) = [recs |-> Append(recs, e), block |-> Append(b, x)]
    BY <1>2, <2>2, <2>3 DEF Take1
  <2>5. Append(recs, e) \in Seq(R)
    BY AppendProperties
  <2>6. Append(b, x) \in Seq(Int)
    BY AppendProperties
  <2>7. [recs |-> Append(recs, e), block |-> Append(b, x)] \in [recs : Seq(R), block : Seq(Int)]
    BY <2>5, <2>6
  <2>. QED
    BY <2>4, <2>7, Zenon
<1>. QED
  BY <1>1, <1>2

\* The rows of a payload, one after the other.
LEMMA PutSteps ==
  ASSUME NEW R, NEW s \in Seq(R)
  PROVE  \E g \in [0..Len(s) -> Seq(R)] :
           /\ g[0] = <<>> /\ g[Len(s)] = FoldLeft(Put, <<>>, s)
           /\ \A i \in 1..Len(s) : g[i] = Put(g[i - 1], s[i])
<1> DEFINE n == Len(s)
           V == Seq(R)
           base == <<>>
           Step(f, t) == IF t = {} THEN base ELSE Put(f[t \ {Max(t)}], s[Max(t)])
           G == [i \in 1..n |-> [v \in V |-> Put(v, s[i])]]
           f == CHOOSE f : f = [t \in SUBSET DOMAIN s |-> Step(f, t)]
<1>1. n \in Nat /\ DOMAIN s = 1..n
  OBVIOUS
<1>2. base \in V
  OBVIOUS
<1>3. ASSUME NEW v \in V, NEW i \in 1..n
      PROVE  Put(v, s[i]) \in V
  BY <1>3 DEF Put
<1>4. G \in [1..n -> [V -> V]]
  <2> HIDE DEF V
  <2>1. ASSUME NEW i \in 1..n
        PROVE  [v \in V |-> Put(v, s[i])] \in [V -> V]
    BY <1>3
  <2> HIDE DEF n
  <2>. QED
    BY <2>1
<1>5. FoldLeft(Put, <<>>, s) = f[1..n]
  BY <1>1 DEF FoldLeft, MapThenFoldSet
<1>6. PICK h \in [SUBSET (1..n) -> V] : IsFold(h, n, base, G)
  <2> HIDE DEF n, V, base, G
  <2>. QED
    BY <1>1, <1>2, <1>4, FoldExists
<1>7. ASSUME NEW t \in SUBSET (1..n)
      PROVE  h[t] = Step(h, t)
  <2> HIDE DEF n, V, base
  <2>1. CASE t = {}
    BY <1>6, <2>1 DEF IsFold
  <2>2. CASE t # {}
    <3>1. Max(t) \in 1..n
      BY <1>1, <2>2, MaxOf
    <3>2. h[t \ {Max(t)}] \in V
      OBVIOUS
    <3>3. h[t] = G[Max(t)][h[t \ {Max(t)}]]
      BY <1>6, <2>2 DEF IsFold
    <3>. QED
      BY <2>2, <3>1, <3>2, <3>3
  <2>. QED
    BY <2>1, <2>2
<1>8. f = [t \in SUBSET (1..n) |-> Step(f, t)]
  <2> HIDE DEF Step, n, V, base
  <2>1. h = [t \in SUBSET DOMAIN s |-> Step(h, t)]
    BY <1>1, <1>7
  <2>. QED
    BY <1>1, <2>1
<1> HIDE DEF f
<1>9. f[{}] = base
  <2> HIDE DEF base, n
  <2>. QED
    BY <1>8
<1>10. ASSUME NEW i \in 1..n, f[1..(i - 1)] \in V
       PROVE  f[1..i] = G[i][f[1..(i - 1)]]
  <2> HIDE DEF n, V, base
  <2>1. Max(1..i) = i /\ (1..i) \ {i} = 1..(i - 1) /\ 1..i # {} /\ 1..i \in SUBSET (1..n)
    BY <1>1, MaxUpTo
  <2>2. f[1..i] = Step(f, 1..i)
    <3> HIDE DEF Step
    <3>. QED
      BY <1>8, <2>1
  <2>3. f[1..i] = Put(f[1..(i - 1)], s[i])
    BY <2>1, <2>2
  <2>. QED
    BY <1>10, <2>3
<1>11. PICK g \in [0..n -> V] : g[n] = f[1..n] /\ Steps(g, n, base, G)
  <2> HIDE DEF n, V, base, G
  <2>. QED
    BY <1>1, <1>2, <1>4, <1>9, <1>10, FoldPrefixes
<1>12. ASSUME NEW i \in 1..n
       PROVE  g[i] = Put(g[i - 1], s[i])
  <2> HIDE DEF n, V, base
  <2>1. g[i - 1] \in V
    BY <1>1
  <2>2. g[i] = G[i][g[i - 1]]
    BY <1>11 DEF Steps
  <2>. QED
    BY <2>1, <2>2
<1>13. g[0] = base
  BY <1>11 DEF Steps
<1>. QED
  BY <1>5, <1>11, <1>12, <1>13, Zenon

\* The records of a payload and their vectors, one after the other.
LEMMA TakeSteps ==
  ASSUME NEW R, HasVector(R), NEW s \in Seq(R), NEW block \in Seq(Int)
  PROVE  \E g \in [0..Len(s) -> [recs : Seq(R), block : Seq(Int)]] :
           /\ g[0] = [recs |-> <<>>, block |-> block] /\ g[Len(s)] = TakeAll(s, block)
           /\ \A i \in 1..Len(s) : g[i] = Take1(g[i - 1], s[i])
<1> DEFINE n == Len(s)
           V == [recs : Seq(R), block : Seq(Int)]
           base == [recs |-> <<>>, block |-> block]
           Step(f, t) == IF t = {} THEN base ELSE Take1(f[t \ {Max(t)}], s[Max(t)])
           G == [i \in 1..n |-> [v \in V |-> Take1(v, s[i])]]
           f == CHOOSE f : f = [t \in SUBSET DOMAIN s |-> Step(f, t)]
<1>1. n \in Nat /\ DOMAIN s = 1..n
  OBVIOUS
<1>2. base \in V
  OBVIOUS
<1>3. ASSUME NEW v \in V, NEW i \in 1..n
      PROVE  Take1(v, s[i]) \in V
  <2>1. PICK r \in R : r = s[i]
    BY <1>3
  <2>2. PICK recs \in Seq(R), b \in Seq(Int) : v = [recs |-> recs, block |-> b]
    BY <1>3
  <2>. QED
    BY <2>1, <2>2, Take1Type
<1>4. G \in [1..n -> [V -> V]]
  <2> HIDE DEF V
  <2>1. ASSUME NEW i \in 1..n
        PROVE  [v \in V |-> Take1(v, s[i])] \in [V -> V]
    BY <1>3
  <2> HIDE DEF n
  <2>. QED
    BY <2>1
<1>5. TakeAll(s, block) = f[1..n]
  BY <1>1 DEF FoldLeft, MapThenFoldSet, TakeAll, Take1
<1>6. PICK h \in [SUBSET (1..n) -> V] : IsFold(h, n, base, G)
  <2> HIDE DEF n, V, base, G
  <2>. QED
    BY <1>1, <1>2, <1>4, FoldExists
<1>7. ASSUME NEW t \in SUBSET (1..n)
      PROVE  h[t] = Step(h, t)
  <2> HIDE DEF n, V, base
  <2>1. CASE t = {}
    BY <1>6, <2>1 DEF IsFold
  <2>2. CASE t # {}
    <3>1. Max(t) \in 1..n
      BY <1>1, <2>2, MaxOf
    <3>2. h[t \ {Max(t)}] \in V
      OBVIOUS
    <3>3. h[t] = G[Max(t)][h[t \ {Max(t)}]]
      BY <1>6, <2>2 DEF IsFold
    <3>. QED
      BY <2>2, <3>1, <3>2, <3>3
  <2>. QED
    BY <2>1, <2>2
<1>8. f = [t \in SUBSET (1..n) |-> Step(f, t)]
  <2> HIDE DEF Step, n, V, base
  <2>1. h = [t \in SUBSET DOMAIN s |-> Step(h, t)]
    BY <1>1, <1>7
  <2>. QED
    BY <1>1, <2>1
<1> HIDE DEF f
<1>9. f[{}] = base
  <2> HIDE DEF base, n
  <2>. QED
    BY <1>8
<1>10. ASSUME NEW i \in 1..n, f[1..(i - 1)] \in V
       PROVE  f[1..i] = G[i][f[1..(i - 1)]]
  <2> HIDE DEF n, V, base
  <2>1. Max(1..i) = i /\ (1..i) \ {i} = 1..(i - 1) /\ 1..i # {} /\ 1..i \in SUBSET (1..n)
    BY <1>1, MaxUpTo
  <2>2. f[1..i] = Step(f, 1..i)
    <3> HIDE DEF Step
    <3>. QED
      BY <1>8, <2>1
  <2>3. f[1..i] = Take1(f[1..(i - 1)], s[i])
    BY <2>1, <2>2
  <2>. QED
    BY <1>10, <2>3
<1>11. PICK g \in [0..n -> V] : g[n] = f[1..n] /\ Steps(g, n, base, G)
  <2> HIDE DEF n, V, base, G
  <2>. QED
    BY <1>1, <1>2, <1>4, <1>9, <1>10, FoldPrefixes
<1>12. ASSUME NEW i \in 1..n
       PROVE  g[i] = Take1(g[i - 1], s[i])
  <2> HIDE DEF n, V, base
  <2>1. g[i - 1] \in V
    BY <1>1
  <2>2. g[i] = G[i][g[i - 1]]
    BY <1>11 DEF Steps
  <2>. QED
    BY <2>1, <2>2
<1>13. g[0] = base
  BY <1>11 DEF Steps
<1>. QED
  BY <1>5, <1>11, <1>12, <1>13, Zenon

-----------------------------------------------------------------------------
\* The block c goes on where b ends.
Extends(b, c) == Len(b) <= Len(c) /\ \A j \in 1..Len(b) : c[j] = b[j]
\* With the block b, what is in the JSON (e) stands for the record r.
Kept(r, e, b) ==
  IF e.vector = NoVector THEN e = r
  ELSE e.vector \in 0..(Len(b) - 1) /\ [e EXCEPT !.vector = b[e.vector + 1]] = r
\* The same of a sequence of records.
AllKept(recs, enc, b) ==
  Len(enc) = Len(recs) /\ \A j \in 1..Len(recs) : Kept(recs[j], enc[j], b)

\* A block that goes on and goes on.
LEMMA ExtendsTransitive ==
  ASSUME NEW b \in Seq(Int), NEW c \in Seq(Int), NEW d \in Seq(Int), Extends(b, c), Extends(c, d)
  PROVE  Extends(b, d)
<1>1. Len(b) \in Nat /\ Len(c) \in Nat /\ Len(d) \in Nat
  OBVIOUS
<1>2. Len(b) <= Len(d)
  BY <1>1 DEF Extends
<1>3. ASSUME NEW j \in 1..Len(b)
      PROVE  d[j] = b[j]
  BY <1>1 DEF Extends
<1>. QED
  BY <1>2, <1>3 DEF Extends

\* What a block says of a record a longer one says, too.
LEMMA KeptOn ==
  ASSUME NEW b \in Seq(Int), NEW c \in Seq(Int), Extends(b, c), NEW r, NEW e, Kept(r, e, b)
  PROVE  Kept(r, e, c)
<1>1. CASE e.vector = NoVector
  BY <1>1 DEF Kept
<1>2. CASE e.vector # NoVector
  <2>1. e.vector \in 0..(Len(b) - 1) /\ [e EXCEPT !.vector = b[e.vector + 1]] = r
    BY <1>2 DEF Kept
  <2>2. Len(b) \in Nat /\ Len(c) \in Nat /\ Len(b) <= Len(c)
    BY DEF Extends
  <2>3. e.vector + 1 \in 1..Len(b) /\ e.vector \in 0..(Len(c) - 1)
    BY <2>1, <2>2
  <2>4. c[e.vector + 1] = b[e.vector + 1]
    BY <2>3 DEF Extends
  <2>. QED
    BY <1>2, <2>1, <2>3, <2>4 DEF Kept
<1>. QED
  BY <1>1, <1>2

\* And of a sequence of them.
LEMMA AllKeptOn ==
  ASSUME NEW b \in Seq(Int), NEW c \in Seq(Int), Extends(b, c), NEW recs, NEW enc, AllKept(recs, enc, b)
  PROVE  AllKept(recs, enc, c)
<1>1. Len(enc) = Len(recs)
  BY DEF AllKept
<1>2. ASSUME NEW j \in 1..Len(recs)
      PROVE  Kept(recs[j], enc[j], c)
  <2>1. Kept(recs[j], enc[j], b)
    BY DEF AllKept
  <2>. QED
    BY <2>1, KeptOn
<1>. QED
  BY <1>1, <1>2 DEF AllKept

\* take() leaves of a record and its vector what stands for it.
LEMMA Take1Keeps ==
  ASSUME NEW R, HasVector(R), NEW acc \in [recs : Seq(R), block : Seq(Int)], NEW r \in R
  PROVE  /\ Take1(acc, r) \in [recs : Seq(R), block : Seq(Int)]
         /\ Extends(acc.block, Take1(acc, r).block)
         /\ \E e \in R : /\ Take1(acc, r).recs = Append(acc.recs, e)
                         /\ Kept(r, e, Take1(acc, r).block)
<1>1. PICK recs \in Seq(R), b \in Seq(Int) : acc = [recs |-> recs, block |-> b]
  OBVIOUS
<1>2. Take1(acc, r) \in [recs : Seq(R), block : Seq(Int)]
  BY <1>1, Take1Type
<1>3. CASE r.vector = NoVector
  <2>1. Take1(acc, r) = [recs |-> Append(recs, r), block |-> b]
    BY <1>1, <1>3 DEF Take1
  <2>2. Kept(r, r, b)
    BY <1>3 DEF Kept
  <2>3. Extends(b, b)
    BY DEF Extends
  <2>4. Take1(acc, r).block = b /\ acc.block = b /\ Take1(acc, r).recs = Append(acc.recs, r)
    BY <1>1, <2>1
  <2>. QED
    BY <1>2, <2>2, <2>3, <2>4, Zenon
<1>4. CASE r.vector # NoVector
  <2>1. Len(b) \in Nat
    OBVIOUS
  <2>11. PICK k \in Int : k = Len(b)
    BY <2>1
  <2>12. [r EXCEPT !.vector = k] \in R /\ [r EXCEPT !.vector = k].vector = k
         /\ [[r EXCEPT !.vector = k] EXCEPT !.vector = r.vector] = r
    BY Zenon DEF HasVector
  <2>2. PICK e \in R : e = [r EXCEPT !.vector = k]
    BY <2>12, Zenon
  <2>3. PICK x \in Int : x = r.vector
    BY DEF HasVector
  <2>4. e.vector = Len(b) /\ [e EXCEPT !.vector = x] = r
    BY <2>2, <2>3, <2>11, <2>12, Zenon
  <2>5. PICK c : c = Append(b, x)
    OBVIOUS
  <2>6. /\ c \in Seq(Int) /\ Len(c) = Len(b) + 1 /\ c[Len(b) + 1] = x
        /\ \A j \in 1..Len(b) : c[j] = b[j]
    BY <2>5, AppendProperties
  <2>7. Take1(acc, r) = [recs |-> Append(recs, e), block |-> c]
    BY <1>1, <1>4, <2>2, <2>3, <2>5, <2>11 DEF Take1
  <2>8. Extends(b, c)
    BY <2>1, <2>6 DEF Extends
  <2>9. Kept(r, e, c)
    <3>1. e.vector # NoVector /\ e.vector \in 0..(Len(c) - 1)
      BY <2>1, <2>4, <2>6 DEF NoVector
    <3>2. c[e.vector + 1] = x
      BY <2>4, <2>6
    <3>. QED
      BY <2>4, <3>1, <3>2 DEF Kept
  <2>10. Take1(acc, r).block = c /\ acc.block = b /\ Take1(acc, r).recs = Append(acc.recs, e)
    BY <1>1, <2>7
  <2>. QED
    BY <1>2, <2>8, <2>9, <2>10, Zenon
<1>. QED
  BY <1>3, <1>4

\* For all records of a document.
LEMMA TakeAllKeeps ==
  ASSUME NEW R, HasVector(R), NEW s \in Seq(R), NEW block \in Seq(Int)
  PROVE  /\ TakeAll(s, block) \in [recs : Seq(R), block : Seq(Int)]
         /\ Extends(block, TakeAll(s, block).block)
         /\ AllKept(s, TakeAll(s, block).recs, TakeAll(s, block).block)
<1> DEFINE V == [recs : Seq(R), block : Seq(Int)]
           n == Len(s)
<1>1. PICK g \in [0..n -> V] :
        /\ g[0] = [recs |-> <<>>, block |-> block] /\ g[n] = TakeAll(s, block)
        /\ \A i \in 1..n : g[i] = Take1(g[i - 1], s[i])
  BY TakeSteps
<1> DEFINE Done(i) == /\ Extends(block, g[i].block) /\ Len(g[i].recs) = i
                      /\ \A j \in 1..i : Kept(s[j], g[i].recs[j], g[i].block)
           I == {i \in 0..n : Done(i)}
<1>2. n \in Nat
  OBVIOUS
<1>3. 0 \in I
  <2>1. g[0].recs = <<>> /\ g[0].block = block
    BY <1>1
  <2>2. Extends(block, block)
    BY DEF Extends
  <2>3. Len(g[0].recs) = 0
    BY <2>1
  <2>4. 1..0 = {}
    OBVIOUS
  <2>. QED
    BY <1>2, <2>1, <2>2, <2>3, <2>4
<1>4. ASSUME NEW i \in 0..(n - 1), i \in I
      PROVE  i + 1 \in I
  <2>1. i + 1 \in 1..n /\ i \in 0..n /\ (i + 1) - 1 = i /\ i \in Nat
    BY <1>2
  <2>2. PICK acc \in V : acc = g[i]
    BY <2>1
  <2>3. PICK t : t = g[i + 1]
    OBVIOUS
  <2>4. t = Take1(acc, s[i + 1])
    BY <1>1, <2>1, <2>2, <2>3
  <2>5. PICK r \in R : r = s[i + 1]
    BY <2>1
  <2>6. t \in V /\ Extends(acc.block, t.block)
    BY <2>4, <2>5, Take1Keeps
  <2>7. PICK e \in R : t.recs = Append(acc.recs, e) /\ Kept(r, e, t.block)
    BY <2>4, <2>5, Take1Keeps
  <2>8. /\ Extends(block, acc.block) /\ Len(acc.recs) = i
        /\ \A j \in 1..i : Kept(s[j], acc.recs[j], acc.block)
    BY <1>4, <2>2
  <2>9. acc.recs \in Seq(R) /\ acc.block \in Seq(Int) /\ t.block \in Seq(Int)
    BY <2>6
  <2>10. Extends(block, t.block)
    BY <2>6, <2>8, <2>9, ExtendsTransitive
  <2>11. /\ Len(t.recs) = i + 1 /\ t.recs[i + 1] = e
         /\ \A j \in 1..i : t.recs[j] = acc.recs[j]
    BY <2>7, <2>8, <2>9, AppendProperties
  <2>12. ASSUME NEW j \in 1..(i + 1)
         PROVE  Kept(s[j], t.recs[j], t.block)
    <3>1. CASE j = i + 1
      BY <3>1, <2>5, <2>7, <2>11
    <3>2. CASE j # i + 1
      <4>1. j \in 1..i
        BY <3>2, <2>1
      <4>2. Kept(s[j], acc.recs[j], acc.block)
        BY <4>1, <2>8
      <4>3. Kept(s[j], acc.recs[j], t.block)
        BY <4>2, <2>6, <2>9, KeptOn
      <4>. QED
        BY <4>1, <4>3, <2>11
    <3>. QED
      BY <3>1, <3>2
  <2>13. Done(i + 1)
    BY <2>3, <2>10, <2>11, <2>12
  <2>. QED
    BY <2>1, <2>13
<1>5. n \in I
  <2> HIDE DEF I, n
  <2>1. 0..n \subseteq I
    BY <1>2, <1>3, <1>4, ReachedTo
  <2>2. n \in 0..n
    BY <1>2
  <2>. QED
    BY <2>1, <2>2
<1>6. Done(n)
  BY <1>5
<1>7. g[n] \in V
  BY <1>2
<1>. QED
  BY <1>1, <1>6, <1>7 DEF AllKept

\* What stands for records, restored, is the records, and no number is out of range.
LEMMA RestoredIs ==
  ASSUME NEW R, NEW recs \in Seq(R), NEW enc \in Seq(R), NEW b, AllKept(recs, enc, b)
  PROVE  Restored(enc, b) = recs /\ InRange(enc, Len(b))
<1>1. DOMAIN enc = 1..Len(enc) /\ DOMAIN recs = 1..Len(recs) /\ Len(enc) = Len(recs)
  BY DEF AllKept
<1>2. ASSUME NEW j \in DOMAIN enc
      PROVE  /\ (IF enc[j].vector = NoVector THEN enc[j]
                 ELSE [enc[j] EXCEPT !.vector = b[enc[j].vector + 1]]) = recs[j]
             /\ enc[j].vector \in {NoVector} \cup 0..(Len(b) - 1)
  <2>1. Kept(recs[j], enc[j], b)
    BY <1>1 DEF AllKept
  <2>. QED
    BY <2>1 DEF Kept
<1>3. Restored(enc, b) = [j \in DOMAIN recs |-> recs[j]]
  BY <1>1, <1>2 DEF Restored
<1>4. recs = [j \in DOMAIN recs |-> recs[j]]
  OBVIOUS
<1>5. InRange(enc, Len(b))
  BY <1>2 DEF InRange
<1>. QED
  BY <1>3, <1>4, <1>5

-----------------------------------------------------------------------------
\* A set of documents, by the records of their summaries and of their chunks.
DocumentsOf(S, C) == [doc_id : Int, summary : Seq(S), chunks : Seq(C)]
\* Documents of records that have vectors.
AreDocuments(D) == \E S, C : HasVector(S) /\ HasVector(C) /\ D = DocumentsOf(S, C)

\* d with the records of its summary and of its chunks exchanged.
Exchanged(d, s, t) == [d EXCEPT !.summary = s, !.chunks = t]

\* What that leaves.
LEMMA ExchangedIs ==
  ASSUME NEW i, NEW s, NEW t, NEW s1, NEW t1, NEW d, d = [doc_id |-> i, summary |-> s, chunks |-> t],
         NEW x, x = [doc_id |-> i, summary |-> s1, chunks |-> t1]
  PROVE  Exchanged(d, s1, t1) = x
<1>1. PICK e : e = [doc_id |-> i, summary |-> s1, chunks |-> t]
  OBVIOUS
<1>2. Exchanged(d, s1, t1) = [[d EXCEPT !.summary = s1] EXCEPT !.chunks = t1]
  BY DEF Exchanged
<1>3. [d EXCEPT !.summary = s1] = e
  BY <1>1
<1>4. [e EXCEPT !.chunks = t1] = x
  BY <1>1
<1>. QED
  BY <1>2, <1>3, <1>4, Zenon

\* With the block b, the document e of the JSON stands for d.
DocumentKept(d, e, b) ==
  /\ e.doc_id = d.doc_id
  /\ AllKept(d.summary, e.summary, b) /\ AllKept(d.chunks, e.chunks, b)

\* One document of _encode_payload.
LEMMA EncodeDocumentKeeps ==
  ASSUME NEW D, AreDocuments(D), NEW d \in D,
         NEW docs \in Seq(D), NEW b \in Seq(Int)
  PROVE  \E e \in D, c \in Seq(Int) :
           /\ EncodeDocument([docs |-> docs, block |-> b], d) = [docs |-> Append(docs, e), block |-> c]
           /\ Extends(b, c) /\ DocumentKept(d, e, c)
<1>0. PICK S, C : HasVector(S) /\ HasVector(C) /\ D = DocumentsOf(S, C)
  BY DEF AreDocuments
<1>1. PICK i \in Int, s \in Seq(S), t \in Seq(C) : d = [doc_id |-> i, summary |-> s, chunks |-> t]
  BY <1>0 DEF DocumentsOf
<1>2. /\ TakeAll(s, b) \in [recs : Seq(S), block : Seq(Int)] /\ Extends(b, TakeAll(s, b).block)
      /\ AllKept(s, TakeAll(s, b).recs, TakeAll(s, b).block)
  BY <1>0, TakeAllKeeps
<1>3. PICK s1 \in Seq(S), b1 \in Seq(Int) : TakeAll(s, b) = [recs |-> s1, block |-> b1]
  BY <1>2
<1>4. Extends(b, b1) /\ AllKept(s, s1, b1)
  BY <1>2, <1>3
<1>5. /\ TakeAll(t, b1) \in [recs : Seq(C), block : Seq(Int)] /\ Extends(b1, TakeAll(t, b1).block)
      /\ AllKept(t, TakeAll(t, b1).recs, TakeAll(t, b1).block)
  BY <1>0, TakeAllKeeps
<1>6. PICK t1 \in Seq(C), c \in Seq(Int) : TakeAll(t, b1) = [recs |-> t1, block |-> c]
  BY <1>5
<1>7. Extends(b1, c) /\ AllKept(t, t1, c)
  BY <1>5, <1>6
<1>8. Extends(b, c) /\ AllKept(s, s1, c)
  BY <1>4, <1>7, ExtendsTransitive, AllKeptOn
<1>9. PICK e : e = [doc_id |-> i, summary |-> s1, chunks |-> t1]
  OBVIOUS
<1>10. e \in D /\ e.doc_id = i /\ e.summary = s1 /\ e.chunks = t1
  BY <1>0, <1>9 DEF DocumentsOf
<1>11. d.doc_id = i /\ d.summary = s /\ d.chunks = t
  BY <1>1
<1>12. [d EXCEPT !.summary = s1, !.chunks = t1] = e
  <2>1. Exchanged(d, s1, t1) = e
    BY <1>1, <1>9, ExchangedIs
  <2>. QED
    BY <2>1, Zenon DEF Exchanged
<1>13. EncodeDocument([docs |-> docs, block |-> b], d) = [docs |-> Append(docs, e), block |-> c]
  <2>1. PICK x : x = [docs |-> docs, block |-> b]
    OBVIOUS
  <2>2. x.docs = docs /\ x.block = b
    BY <2>1
  <2>3. PICK r1 : r1 = [recs |-> s1, block |-> b1]
    OBVIOUS
  <2>4. r1.recs = s1 /\ r1.block = b1 /\ TakeAll(d.summary, x.block) = r1
    BY <1>3, <1>11, <2>2, <2>3
  <2>5. PICK r2 : r2 = [recs |-> t1, block |-> c]
    OBVIOUS
  <2>6. r2.recs = t1 /\ r2.block = c /\ TakeAll(d.chunks, r1.block) = r2
    BY <1>6, <1>11, <2>4, <2>5
  <2>7. EncodeDocument(x, d) = [docs |-> Append(docs, e), block |-> c]
    BY <1>12, <2>2, <2>4, <2>6, Zenon DEF EncodeDocument
  <2>. QED
    BY <2>1, <2>7
<1>14. DocumentKept(d, e, c)
  BY <1>7, <1>8, <1>10, <1>11 DEF DocumentKept
<1>. QED
  BY <1>8, <1>10, <1>13, <1>14

\* What stands for a document stands for it in a longer block.
LEMMA DocumentKeptOn ==
  ASSUME NEW b \in Seq(Int), NEW c \in Seq(Int), Extends(b, c), NEW d, NEW e, DocumentKept(d, e, b)
  PROVE  DocumentKept(d, e, c)
BY AllKeptOn DEF DocumentKept

\* The documents of a payload, one after the other.
LEMMA EncodeSteps ==
  ASSUME NEW D, AreDocuments(D), NEW s \in Seq(D)
  PROVE  \E g \in [0..Len(s) -> [docs : Seq(D), block : Seq(Int)]] :
           /\ g[0] = [docs |-> <<>>, block |-> <<>>] /\ g[Len(s)] = FoldLeft(EncodeDocument, [docs |-> <<>>, block |-> <<>>], s)
           /\ \A i \in 1..Len(s) : g[i] = EncodeDocument(g[i - 1], s[i])
<1> DEFINE n == Len(s)
           V == [docs : Seq(D), block : Seq(Int)]
           base == [docs |-> <<>>, block |-> <<>>]
           Step(f, t) == IF t = {} THEN base ELSE EncodeDocument(f[t \ {Max(t)}], s[Max(t)])
           G == [i \in 1..n |-> [v \in V |-> EncodeDocument(v, s[i])]]
           f == CHOOSE f : f = [t \in SUBSET DOMAIN s |-> Step(f, t)]
<1>1. n \in Nat /\ DOMAIN s = 1..n
  OBVIOUS
<1>2. base \in V
  OBVIOUS
<1>3. ASSUME NEW v \in V, NEW i \in 1..n
      PROVE  EncodeDocument(v, s[i]) \in V
  <2>1. PICK d \in D : d = s[i]
    BY <1>3
  <2>2. PICK docs \in Seq(D), b \in Seq(Int) : v = [docs |-> docs, block |-> b]
    BY <1>3
  <2>3. PICK e \in D, c \in Seq(Int) :
          /\ EncodeDocument([docs |-> docs, block |-> b], d) = [docs |-> Append(docs, e), block |-> c]
          /\ Extends(b, c) /\ DocumentKept(d, e, c)
    BY EncodeDocumentKeeps
  <2>4. Append(docs, e) \in Seq(D)
    BY AppendProperties
  <2>5. [docs |-> Append(docs, e), block |-> c] \in V
    BY <2>4
  <2>. QED
    BY <2>1, <2>2, <2>3, <2>5, Zenon
<1>4. G \in [1..n -> [V -> V]]
  <2> HIDE DEF V
  <2>1. ASSUME NEW i \in 1..n
        PROVE  [v \in V |-> EncodeDocument(v, s[i])] \in [V -> V]
    BY <1>3
  <2> HIDE DEF n
  <2>. QED
    BY <2>1
<1>5. FoldLeft(EncodeDocument, [docs |-> <<>>, block |-> <<>>], s) = f[1..n]
  BY <1>1 DEF FoldLeft, MapThenFoldSet
<1>6. PICK h \in [SUBSET (1..n) -> V] : IsFold(h, n, base, G)
  <2> HIDE DEF n, V, base, G
  <2>. QED
    BY <1>1, <1>2, <1>4, FoldExists
<1>7. ASSUME NEW t \in SUBSET (1..n)
      PROVE  h[t] = Step(h, t)
  <2> HIDE DEF n, V, base
  <2>1. CASE t = {}
    BY <1>6, <2>1 DEF IsFold
  <2>2. CASE t # {}
    <3>1. Max(t) \in 1..n
      BY <1>1, <2>2, MaxOf
    <3>2. h[t \ {Max(t)}] \in V
      OBVIOUS
    <3>3. h[t] = G[Max(t)][h[t \ {Max(t)}]]
      BY <1>6, <2>2 DEF IsFold
    <3>. QED
      BY <2>2, <3>1, <3>2, <3>3
  <2>. QED
    BY <2>1, <2>2
<1>8. f = [t \in SUBSET (1..n) |-> Step(f, t)]
  <2> HIDE DEF Step, n, V, base
  <2>1. h = [t \in SUBSET DOMAIN s |-> Step(h, t)]
    BY <1>1, <1>7
  <2>. QED
    BY <1>1, <2>1
<1> HIDE DEF f
<1>9. f[{}] = base
  <2> HIDE DEF base, n
  <2>. QED
    BY <1>8
<1>10. ASSUME NEW i \in 1..n, f[1..(i - 1)] \in V
       PROVE  f[1..i] = G[i][f[1..(i - 1)]]
  <2> HIDE DEF n, V, base
  <2>1. Max(1..i) = i /\ (1..i) \ {i} = 1..(i - 1) /\ 1..i # {} /\ 1..i \in SUBSET (1..n)
    BY <1>1, MaxUpTo
  <2>2. f[1..i] = Step(f, 1..i)
    <3> HIDE DEF Step
    <3>. QED
      BY <1>8, <2>1
  <2>3. f[1..i] = EncodeDocument(f[1..(i - 1)], s[i])
    BY <2>1, <2>2
  <2>. QED
    BY <1>10, <2>3
<1>11. PICK g \in [0..n -> V] : g[n] = f[1..n] /\ Steps(g, n, base, G)
  <2> HIDE DEF n, V, base, G
  <2>. QED
    BY <1>1, <1>2, <1>4, <1>9, <1>10, FoldPrefixes
<1>12. ASSUME NEW i \in 1..n
       PROVE  g[i] = EncodeDocument(g[i - 1], s[i])
  <2> HIDE DEF n, V, base
  <2>1. g[i - 1] \in V
    BY <1>1
  <2>2. g[i] = G[i][g[i - 1]]
    BY <1>11 DEF Steps
  <2>. QED
    BY <2>1, <2>2
<1>13. g[0] = base
  BY <1>11 DEF Steps
<1>. QED
  BY <1>5, <1>11, <1>12, <1>13, Zenon

\* All of them: the header counts the block.
LEMMA EncodedKeeps ==
  ASSUME NEW D, AreDocuments(D), NEW docs \in Seq(D)
  PROVE  \E enc \in Seq(D), b \in Seq(Int) :
           /\ Encode(docs) = [magic |-> TRUE, n |-> Len(b), docs |-> enc, block |-> b]
           /\ Len(enc) = Len(docs) /\ \A i \in 1..Len(docs) : DocumentKept(docs[i], enc[i], b)
<1> DEFINE V == [docs : Seq(D), block : Seq(Int)]
           n == Len(docs)
<1>1. PICK g \in [0..n -> V] :
        /\ g[0] = [docs |-> <<>>, block |-> <<>>]
        /\ g[n] = FoldLeft(EncodeDocument, [docs |-> <<>>, block |-> <<>>], docs)
        /\ \A i \in 1..n : g[i] = EncodeDocument(g[i - 1], docs[i])
  BY EncodeSteps
<1> DEFINE Done(i) == /\ Len(g[i].docs) = i
                      /\ \A j \in 1..i : DocumentKept(docs[j], g[i].docs[j], g[i].block)
           I == {i \in 0..n : Done(i)}
<1>2. n \in Nat
  OBVIOUS
<1>3. 0 \in I
  <2>1. g[0].docs = <<>>
    BY <1>1
  <2>2. Len(g[0].docs) = 0
    BY <2>1
  <2>3. 1..0 = {}
    OBVIOUS
  <2>. QED
    BY <1>2, <2>2, <2>3
<1>4. ASSUME NEW i \in 0..(n - 1), i \in I
      PROVE  i + 1 \in I
  <2>1. i + 1 \in 1..n /\ i \in 0..n /\ (i + 1) - 1 = i /\ i \in Nat
    BY <1>2
  <2>2. PICK recs \in Seq(D), b \in Seq(Int) : g[i] = [docs |-> recs, block |-> b]
    <3>1. g[i] \in V
      BY <2>1
    <3>. QED
      BY <3>1
  <2>3. PICK t : t = g[i + 1]
    OBVIOUS
  <2>4. PICK d \in D : d = docs[i + 1]
    BY <2>1
  <2>5. t = EncodeDocument([docs |-> recs, block |-> b], d)
    BY <1>1, <2>1, <2>2, <2>3, <2>4
  <2>6. PICK e \in D, c \in Seq(Int) :
          /\ EncodeDocument([docs |-> recs, block |-> b], d) = [docs |-> Append(recs, e), block |-> c]
          /\ Extends(b, c) /\ DocumentKept(d, e, c)
    BY EncodeDocumentKeeps
  <2>7. PICK u : u = Append(recs, e)
    OBVIOUS
  <2>8. Len(recs) = i /\ \A j \in 1..i : DocumentKept(docs[j], recs[j], b)
    BY <1>4, <2>2
  <2>9. Len(u) = i + 1 /\ u[i + 1] = e /\ \A j \in 1..i : u[j] = recs[j]
    BY <2>7, <2>8, AppendProperties
  <2>10. ASSUME NEW j \in 1..(i + 1)
         PROVE  DocumentKept(docs[j], u[j], c)
    <3>1. CASE j = i + 1
      BY <3>1, <2>4, <2>6, <2>9
    <3>2. CASE j # i + 1
      <4>1. j \in 1..i
        BY <3>2, <2>1
      <4>2. DocumentKept(docs[j], recs[j], c)
        BY <4>1, <2>6, <2>8, DocumentKeptOn
      <4>. QED
        BY <4>1, <4>2, <2>9
    <3>. QED
      BY <3>1, <3>2
  <2>11. t.docs = u /\ t.block = c
    BY <2>5, <2>6, <2>7
  <2>12. Done(i + 1)
    BY <2>3, <2>9, <2>10, <2>11
  <2>. QED
    BY <2>1, <2>12
<1>5. n \in I
  <2> HIDE DEF I, n
  <2>1. 0..n \subseteq I
    BY <1>2, <1>3, <1>4, ReachedTo
  <2>2. n \in 0..n
    BY <1>2
  <2>. QED
    BY <2>1, <2>2
<1>6. Done(n)
  BY <1>5
<1>7. PICK enc \in Seq(D), b \in Seq(Int) : g[n] = [docs |-> enc, block |-> b]
  <2>1. g[n] \in V
    BY <1>2
  <2>. QED
    BY <2>1
<1>8. g[n].docs = enc /\ g[n].block = b
  BY <1>7
<1>9. Encode(docs) = [magic |-> TRUE, n |-> Len(b), docs |-> enc, block |-> b]
  BY <1>1, <1>8 DEF Encode
<1>10. Len(enc) = Len(docs) /\ \A i \in 1..Len(docs) : DocumentKept(docs[i], enc[i], b)
  BY <1>6, <1>8
<1>. QED
  BY <1>9, <1>10

\* _decode_payload gives back what _encode_payload was given, and refuses nothing of it.
LEMMA DecodeIsInverse ==
  ASSUME NEW D, AreDocuments(D), NEW docs \in Seq(D)
  PROVE  Decode(Encode(docs)) = docs /\ Decodable(Encode(docs))
<1>1. PICK enc \in Seq(D), b \in Seq(Int) :
        /\ Encode(docs) = [magic |-> TRUE, n |-> Len(b), docs |-> enc, block |-> b]
        /\ Len(enc) = Len(docs) /\ \A i \in 1..Len(docs) : DocumentKept(docs[i], enc[i], b)
  BY EncodedKeeps
<1>0. PICK S, C : HasVector(S) /\ HasVector(C) /\ D = DocumentsOf(S, C)
  BY DEF AreDocuments
<1>2. DOMAIN enc = 1..Len(docs) /\ DOMAIN docs = 1..Len(docs)
  BY <1>1
<1>3. ASSUME NEW i \in DOMAIN enc
      PROVE  /\ [enc[i] EXCEPT !.summary = Restored(@, b), !.chunks = Restored(@, b)] = docs[i]
             /\ InRange(enc[i].summary, Len(b)) /\ InRange(enc[i].chunks, Len(b))
  <2>1. PICK e \in D : e = enc[i]
    OBVIOUS
  <2>2. PICK d \in D : d = docs[i]
    BY <1>2
  <2>3. DocumentKept(d, e, b)
    BY <1>1, <1>2, <2>1, <2>2
  <2>4. /\ d.summary \in Seq(S) /\ e.summary \in Seq(S) /\ d.chunks \in Seq(C) /\ e.chunks \in Seq(C)
    BY <1>0 DEF DocumentsOf
  <2>5. AllKept(d.summary, e.summary, b) /\ AllKept(d.chunks, e.chunks, b) /\ e.doc_id = d.doc_id
    BY <2>3 DEF DocumentKept
  <2>6. Restored(e.summary, b) = d.summary /\ InRange(e.summary, Len(b))
    BY <2>4, <2>5, RestoredIs
  <2>7. Restored(e.chunks, b) = d.chunks /\ InRange(e.chunks, Len(b))
    BY <2>4, <2>5, RestoredIs
  <2>8. PICK i1 \in Int, s1 \in Seq(S), t1 \in Seq(C) : e = [doc_id |-> i1, summary |-> s1, chunks |-> t1]
    BY <1>0 DEF DocumentsOf
  <2>9. PICK i2 \in Int, s2 \in Seq(S), t2 \in Seq(C) : d = [doc_id |-> i2, summary |-> s2, chunks |-> t2]
    BY <1>0 DEF DocumentsOf
  <2>10. i1 = i2 /\ d.summary = s2 /\ d.chunks = t2
    BY <2>5, <2>8, <2>9
  <2>11. [e EXCEPT !.summary = Restored(@, b), !.chunks = Restored(@, b)]
           = [e EXCEPT !.summary = s2, !.chunks = t2]
    BY <2>6, <2>7, <2>10
  <2>12. [e EXCEPT !.summary = s2, !.chunks = t2] = d
    <3>1. Exchanged(e, s2, t2) = d
      BY <2>8, <2>9, <2>10, ExchangedIs
    <3>. QED
      BY <3>1, Zenon DEF Exchanged
  <2>. QED
    BY <2>1, <2>2, <2>6, <2>7, <2>11, <2>12
<1>7. PICK x : x = [magic |-> TRUE, n |-> Len(b), docs |-> enc, block |-> b]
  OBVIOUS
<1>8. x.magic /\ x.n = Len(b) /\ x.docs = enc /\ x.block = b
  BY <1>7
<1>4. Decode(x) = [i \in DOMAIN enc |-> docs[i]]
  BY <1>3, <1>8 DEF Decode
<1>5. docs = [i \in DOMAIN docs |-> docs[i]]
  OBVIOUS
<1>6. Decodable(x)
  BY <1>3, <1>8, Zenon DEF Decodable
<1>. QED
  BY <1>1, <1>2, <1>4, <1>5, <1>6, <1>7

-----------------------------------------------------------------------------
\* The places in s, and the rows there, after which no row of the same external id comes.
LastOf(s) == {i \in DOMAIN s : \A j \in (i + 1)..Len(s) : s[j].ext # s[i].ext}
LastRows(s) == {s[i] : i \in LastOf(s)}
ExtsOf(s) == {s[i].ext : i \in DOMAIN s}
DistinctExts(s) == \A i, j \in DOMAIN s : s[i].ext = s[j].ext => i = j
\* The same of the first n rows.
LastIn(s, n) == {s[i] : i \in {k \in 1..n : \A j \in (k + 1)..n : s[j].ext # s[k].ext}}
ExtsIn(s, n) == {s[i].ext : i \in 1..n}
\* Of a set of rows those x does not replace, and x.
Replaced(set, x) == {r \in set : r.ext # x.ext} \cup {x}

\* One row more replaces what was said of its id.
LEMMA LastInNext ==
  ASSUME NEW s, NEW n \in Nat
  PROVE  /\ LastIn(s, n + 1) = Replaced(LastIn(s, n), s[n + 1])
         /\ ExtsIn(s, n + 1) = ExtsIn(s, n) \cup {s[n + 1].ext}
<1> DEFINE After(m) == {k \in 1..m : \A j \in (k + 1)..m : s[j].ext # s[k].ext}
<1>1. After(n + 1) = {k \in After(n) : s[k].ext # s[n + 1].ext} \cup {n + 1}
  <2>1. ASSUME NEW k \in After(n + 1)
        PROVE  k \in {k1 \in After(n) : s[k1].ext # s[n + 1].ext} \cup {n + 1}
    <3>1. CASE k = n + 1
      BY <3>1
    <3>2. CASE k # n + 1
      <4>1. k \in 1..n /\ n + 1 \in (k + 1)..(n + 1)
        BY <3>2
      <4>2. s[n + 1].ext # s[k].ext
        BY <4>1
      <4>3. \A j \in (k + 1)..n : s[j].ext # s[k].ext
        BY <4>1
      <4>. QED
        BY <4>1, <4>2, <4>3
    <3>. QED
      BY <3>1, <3>2
  <2>2. ASSUME NEW k \in After(n), s[k].ext # s[n + 1].ext
        PROVE  k \in After(n + 1)
    <3>1. k \in 1..n /\ k \in 1..(n + 1)
      OBVIOUS
    <3>2. ASSUME NEW j \in (k + 1)..(n + 1)
          PROVE  s[j].ext # s[k].ext
      <4>1. CASE j = n + 1
        BY <2>2, <4>1
      <4>2. CASE j # n + 1
        <5>1. j \in (k + 1)..n
          BY <3>1, <4>2
        <5>. QED
          BY <5>1
      <4>. QED
        BY <4>1, <4>2
    <3>. QED
      BY <3>1, <3>2
  <2>3. n + 1 \in After(n + 1)
    OBVIOUS
  <2>. QED
    BY <2>1, <2>2, <2>3
<1>2. LastIn(s, n + 1) = {s[i] : i \in After(n + 1)} /\ LastIn(s, n) = {s[i] : i \in After(n)}
  BY DEF LastIn
<1>3. 1..(n + 1) = (1..n) \cup {n + 1}
  OBVIOUS
<1>4. LastIn(s, n + 1) = Replaced(LastIn(s, n), s[n + 1])
  <2> HIDE DEF After
  <2>. QED
    BY <1>1, <1>2 DEF Replaced
<1>5. ExtsIn(s, n + 1) = ExtsIn(s, n) \cup {s[n + 1].ext}
  BY <1>3 DEF ExtsIn
<1>. QED
  BY <1>4, <1>5

\* All rows.
LEMMA LastInAll ==
  ASSUME NEW R, NEW s \in Seq(R)
  PROVE  LastIn(s, Len(s)) = LastRows(s) /\ ExtsIn(s, Len(s)) = ExtsOf(s)
<1>1. DOMAIN s = 1..Len(s)
  OBVIOUS
<1>. QED
  BY <1>1 DEF LastIn, LastRows, LastOf, ExtsIn, ExtsOf

\* In a sequence of distinct external ids x replaces the row of its own, if there is one.
LEMMA PutReplaces ==
  ASSUME NEW R, NEW q \in Seq(R), NEW x \in R, DistinctExts(q)
  PROVE  /\ Range(Put(q, x)) = Replaced(Range(q), x)
         /\ ExtsOf(Put(q, x)) = ExtsOf(q) \cup {x.ext}
         /\ DistinctExts(Put(q, x))
<1>0. PICK p : p = Put(q, x)
  OBVIOUS
<1>1. CASE \E i \in DOMAIN q : q[i].ext = x.ext
  <2>1. p = [i \in DOMAIN q |-> IF q[i].ext = x.ext THEN x ELSE q[i]]
    BY <1>0, <1>1 DEF Put
  <2>2. DOMAIN p = DOMAIN q /\ \A i \in DOMAIN q : p[i] = IF q[i].ext = x.ext THEN x ELSE q[i]
    BY <2>1
  <2>3. \A i \in DOMAIN q : p[i].ext = q[i].ext
    BY <2>2
  <2>4. Range(p) = {p[i] : i \in DOMAIN p} /\ Range(q) = {q[i] : i \in DOMAIN q}
    BY DEF Range
  <2>5. ASSUME NEW y \in Range(p)
        PROVE  y \in Replaced(Range(q), x)
    BY <2>2, <2>4 DEF Replaced
  <2>6. ASSUME NEW y \in Replaced(Range(q), x)
        PROVE  y \in Range(p)
    <3>1. CASE y = x
      <4>1. PICK i \in DOMAIN q : q[i].ext = x.ext
        BY <1>1
      <4>2. p[i] = x /\ i \in DOMAIN p
        BY <2>2, <4>1
      <4>. QED
        BY <2>4, <3>1, <4>2
    <3>2. CASE y # x
      <4>1. PICK i \in DOMAIN q : y = q[i] /\ q[i].ext # x.ext
        BY <2>4, <3>2 DEF Replaced
      <4>2. p[i] = y /\ i \in DOMAIN p
        BY <2>2, <4>1
      <4>. QED
        BY <2>4, <4>2
    <3>. QED
      BY <3>1, <3>2
  <2>7. ExtsOf(p) = ExtsOf(q) \cup {x.ext}
    BY <1>1, <2>2, <2>3 DEF ExtsOf
  <2>8. DistinctExts(p)
    BY <2>2, <2>3 DEF DistinctExts
  <2>. QED
    BY <1>0, <2>5, <2>6, <2>7, <2>8
<1>2. CASE \A i \in DOMAIN q : q[i].ext # x.ext
  <2>1. p = Append(q, x)
    BY <1>0, <1>2 DEF Put
  <2>2. /\ DOMAIN p = 1..(Len(q) + 1) /\ DOMAIN q = 1..Len(q) /\ Len(q) \in Nat
        /\ p[Len(q) + 1] = x /\ \A i \in 1..Len(q) : p[i] = q[i]
    BY <2>1, AppendProperties
  <2>3. DOMAIN p = DOMAIN q \cup {Len(q) + 1}
    BY <2>2
  <2>4. Range(p) = {p[i] : i \in DOMAIN p} /\ Range(q) = {q[i] : i \in DOMAIN q}
    BY DEF Range
  <2>5. Range(p) = Range(q) \cup {x}
    BY <2>2, <2>3, <2>4
  <2>6. Replaced(Range(q), x) = Range(q) \cup {x}
    BY <1>2, <2>4 DEF Replaced
  <2>7. ExtsOf(p) = ExtsOf(q) \cup {x.ext}
    BY <2>2, <2>3 DEF ExtsOf
  <2>8. DistinctExts(p)
    BY <1>2, <2>2, <2>3 DEF DistinctExts
  <2>. QED
    BY <1>0, <2>5, <2>6, <2>7, <2>8
<1>. QED
  BY <1>1, <1>2

\* The rows of a payload are what it says last of each id, and have distinct ids.
LEMMA PutAll ==
  ASSUME NEW R, NEW s \in Seq(R)
  PROVE  /\ FoldLeft(Put, <<>>, s) \in Seq(R)
         /\ Range(FoldLeft(Put, <<>>, s)) = LastRows(s)
         /\ ExtsOf(FoldLeft(Put, <<>>, s)) = ExtsOf(s)
         /\ DistinctExts(FoldLeft(Put, <<>>, s))
<1> DEFINE n == Len(s)
<1>1. PICK g \in [0..n -> Seq(R)] :
        /\ g[0] = <<>> /\ g[n] = FoldLeft(Put, <<>>, s)
        /\ \A i \in 1..n : g[i] = Put(g[i - 1], s[i])
  BY PutSteps
<1> DEFINE Done(i) == Range(g[i]) = LastIn(s, i) /\ ExtsOf(g[i]) = ExtsIn(s, i) /\ DistinctExts(g[i])
           I == {i \in 0..n : Done(i)}
<1>2. n \in Nat
  OBVIOUS
<1>3. 0 \in I
  <2>1. 1..0 = {}
    OBVIOUS
  <2>2. LastIn(s, 0) = {} /\ ExtsIn(s, 0) = {}
    BY <2>1 DEF LastIn, ExtsIn
  <2>3. Range(<<>>) = {} /\ ExtsOf(<<>>) = {} /\ DistinctExts(<<>>)
    BY DEF Range, ExtsOf, DistinctExts
  <2>4. Done(0)
    BY <1>1, <2>2, <2>3
  <2>. QED
    BY <1>2, <2>4
<1>4. ASSUME NEW i \in 0..(n - 1), i \in I
      PROVE  i + 1 \in I
  <2>1. i + 1 \in 1..n /\ i \in 0..n /\ (i + 1) - 1 = i /\ i \in Nat /\ i + 1 \in 0..n
    BY <1>2
  <2>2. PICK q \in Seq(R) : q = g[i]
    BY <2>1
  <2>3. PICK x \in R : x = s[i + 1]
    BY <2>1
  <2>4. g[i + 1] = Put(q, x)
    BY <1>1, <2>1, <2>2, <2>3
  <2>5. Range(q) = LastIn(s, i) /\ ExtsOf(q) = ExtsIn(s, i) /\ DistinctExts(q)
    BY <1>4, <2>2
  <2>6. /\ Range(Put(q, x)) = Replaced(Range(q), x)
        /\ ExtsOf(Put(q, x)) = ExtsOf(q) \cup {x.ext}
        /\ DistinctExts(Put(q, x))
    BY <2>5, PutReplaces
  <2>7. LastIn(s, i + 1) = Replaced(LastIn(s, i), x) /\ ExtsIn(s, i + 1) = ExtsIn(s, i) \cup {x.ext}
    BY <2>1, <2>3, LastInNext
  <2>8. Done(i + 1)
    BY <2>4, <2>5, <2>6, <2>7
  <2>. QED
    BY <2>1, <2>8
<1>5. n \in I
  <2> HIDE DEF I, n
  <2>1. 0..n \subseteq I
    BY <1>2, <1>3, <1>4, ReachedTo
  <2>. QED
    BY <1>2, <2>1
<1>6. Done(n) /\ g[n] \in Seq(R)
  BY <1>2, <1>5
<1>. QED
  BY <1>1, <1>6, LastInAll

\* What t says replaces what s says of the same external ids.
LEMMA LastOfConcat ==
  ASSUME NEW R, NEW s \in Seq(R), NEW t \in Seq(R)
  PROVE  LastRows(s \o t) = {r \in LastRows(s) : r.ext \notin ExtsOf(t)} \cup LastRows(t)
<1>1. PICK m \in Nat : m = Len(s)
  OBVIOUS
<1>2. PICK n \in Nat : n = Len(t)
  OBVIOUS
<1>3. PICK c : c = s \o t
  OBVIOUS
<1>4. /\ DOMAIN c = 1..(m + n) /\ Len(c) = m + n /\ DOMAIN s = 1..m /\ DOMAIN t = 1..n
      /\ (\A i \in 1..m : c[i] = s[i]) /\ (\A i \in 1..n : c[m + i] = t[i])
  BY <1>1, <1>2, <1>3
<1>5. ASSUME NEW i \in 1..m
      PROVE  i \in LastOf(c) <=> (i \in LastOf(s) /\ s[i].ext \notin ExtsOf(t))
  <2>1. ASSUME i \in LastOf(c)
        PROVE  i \in LastOf(s) /\ s[i].ext \notin ExtsOf(t)
    <3>1. \A j \in (i + 1)..(m + n) : c[j].ext # c[i].ext
      BY <1>4, <2>1 DEF LastOf
    <3>2. \A j \in (i + 1)..m : s[j].ext # s[i].ext
      <4> TAKE j \in (i + 1)..m
      <4>1. j \in (i + 1)..(m + n) /\ j \in 1..m
        OBVIOUS
      <4>. QED
        BY <1>4, <3>1, <4>1
    <3>3. \A j \in 1..n : t[j].ext # s[i].ext
      <4> TAKE j \in 1..n
      <4>1. m + j \in (i + 1)..(m + n)
        OBVIOUS
      <4>. QED
        BY <1>4, <3>1, <4>1
    <3>. QED
      BY <1>1, <1>4, <3>2, <3>3 DEF LastOf, ExtsOf
  <2>2. ASSUME i \in LastOf(s), s[i].ext \notin ExtsOf(t)
        PROVE  i \in LastOf(c)
    <3>1. \A j \in (i + 1)..m : s[j].ext # s[i].ext
      BY <1>1, <1>4, <2>2 DEF LastOf
    <3>2. \A j \in 1..n : t[j].ext # s[i].ext
      BY <1>4, <2>2 DEF ExtsOf
    <3>3. \A j \in (i + 1)..(m + n) : c[j].ext # c[i].ext
      <4> TAKE j \in (i + 1)..(m + n)
      <4>1. CASE j <= m
        <5>1. j \in (i + 1)..m /\ j \in 1..m
          BY <4>1
        <5>. QED
          BY <1>4, <3>1, <5>1
      <4>2. CASE ~(j <= m)
        <5>1. PICK k \in 1..n : k = j - m
          BY <4>2
        <5>2. j = m + k
          BY <5>1
        <5>. QED
          BY <1>4, <3>2, <5>2
      <4>. QED
        BY <4>1, <4>2
    <3>. QED
      BY <1>4, <3>3 DEF LastOf
  <2>. QED
    BY <2>1, <2>2
<1>6. ASSUME NEW k \in 1..n
      PROVE  m + k \in LastOf(c) <=> k \in LastOf(t)
  <2>1. ASSUME m + k \in LastOf(c)
        PROVE  k \in LastOf(t)
    <3>1. \A j \in (m + k + 1)..(m + n) : c[j].ext # c[m + k].ext
      BY <1>4, <2>1 DEF LastOf
    <3>2. \A j \in (k + 1)..n : t[j].ext # t[k].ext
      <4> TAKE j \in (k + 1)..n
      <4>1. m + j \in (m + k + 1)..(m + n) /\ j \in 1..n
        OBVIOUS
      <4>. QED
        BY <1>4, <3>1, <4>1
    <3>. QED
      BY <1>2, <1>4, <3>2 DEF LastOf
  <2>2. ASSUME k \in LastOf(t)
        PROVE  m + k \in LastOf(c)
    <3>1. \A j \in (k + 1)..n : t[j].ext # t[k].ext
      BY <1>2, <1>4, <2>2 DEF LastOf
    <3>2. \A j \in (m + k + 1)..(m + n) : c[j].ext # c[m + k].ext
      <4> TAKE j \in (m + k + 1)..(m + n)
      <4>1. PICK l \in (k + 1)..n : l = j - m
        OBVIOUS
      <4>2. j = m + l /\ l \in 1..n
        BY <4>1
      <4>. QED
        BY <1>4, <3>1, <4>2
    <3>3. m + k \in 1..(m + n)
      OBVIOUS
    <3>. QED
      BY <1>4, <3>2, <3>3 DEF LastOf
  <2>. QED
    BY <2>1, <2>2
<1>7. ASSUME NEW y \in LastRows(c)
      PROVE  y \in {r \in LastRows(s) : r.ext \notin ExtsOf(t)} \cup LastRows(t)
  <2>1. PICK i \in LastOf(c) : y = c[i]
    BY DEF LastRows
  <2>2. i \in 1..(m + n)
    BY <1>4 DEF LastOf
  <2>3. CASE i \in 1..m
    BY <1>4, <1>5, <2>1, <2>3 DEF LastRows
  <2>4. CASE i \notin 1..m
    <3>1. PICK k \in 1..n : k = i - m
      BY <2>2, <2>4
    <3>2. i = m + k
      BY <2>2, <3>1
    <3>3. k \in LastOf(t) /\ y = t[k]
      BY <1>4, <1>6, <2>1, <3>2
    <3>. QED
      BY <3>3 DEF LastRows
  <2>. QED
    BY <2>3, <2>4
<1>8. ASSUME NEW y \in {r \in LastRows(s) : r.ext \notin ExtsOf(t)}
      PROVE  y \in LastRows(c)
  <2>1. PICK i \in LastOf(s) : y = s[i]
    BY DEF LastRows
  <2>2. i \in 1..m
    BY <1>4 DEF LastOf
  <2>. QED
    BY <1>4, <1>5, <2>1, <2>2 DEF LastRows
<1>9. ASSUME NEW y \in LastRows(t)
      PROVE  y \in LastRows(c)
  <2>1. PICK k \in LastOf(t) : y = t[k]
    BY DEF LastRows
  <2>2. k \in 1..n
    BY <1>4 DEF LastOf
  <2>3. m + k \in LastOf(c) /\ y = c[m + k]
    BY <1>4, <1>6, <2>1, <2>2
  <2>. QED
    BY <2>3 DEF LastRows
<1>. QED
  BY <1>3, <1>7, <1>8, <1>9

-----------------------------------------------------------------------------
\* What may be posted may be encoded.
LEMMA DocumentsHaveVectors ==
  ASSUME NEW T
  PROVE  AreDocuments(Documents(T))
<1>1. HasVector(SummaryRecords(T))
  <2>1. ASSUME NEW r \in SummaryRecords(T), NEW v \in Int
        PROVE  /\ r.vector \in Int /\ [r EXCEPT !.vector = v] \in SummaryRecords(T)
               /\ [r EXCEPT !.vector = v].vector = v
               /\ [[r EXCEPT !.vector = v] EXCEPT !.vector = r.vector] = r
    <3>1. PICK t \in T, w \in Int, m \in Int : r = [text |-> t, vector |-> w, meta |-> m]
      BY DEF SummaryRecords
    <3>2. PICK e : e = [text |-> t, vector |-> v, meta |-> m]
      OBVIOUS
    <3>3. [r EXCEPT !.vector = v] = e
      BY <3>1, <3>2
    <3>4. e \in SummaryRecords(T) /\ e.vector = v /\ r.vector = w
      BY <3>1, <3>2 DEF SummaryRecords
    <3>5. [e EXCEPT !.vector = w] = r
      BY <3>1, <3>2
    <3>. QED
      BY <3>3, <3>4, <3>5, Zenon
  <2>2. ASSUME NEW r \in SummaryRecords(T)
        PROVE  r.vector \in Int
    BY DEF SummaryRecords
  <2>. QED
    BY <2>1, <2>2, Zenon DEF HasVector
<1>2. HasVector(ChunkRecords(T))
  <2>1. ASSUME NEW r \in ChunkRecords(T), NEW v \in Int
        PROVE  /\ r.vector \in Int /\ [r EXCEPT !.vector = v] \in ChunkRecords(T)
               /\ [r EXCEPT !.vector = v].vector = v
               /\ [[r EXCEPT !.vector = v] EXCEPT !.vector = r.vector] = r
    <3>1. PICK i \in Int, p \in Int, t \in T, w \in Int, m \in Int :
            r = [id |-> i, position |-> p, text |-> t, vector |-> w, meta |-> m]
      BY DEF ChunkRecords
    <3>2. PICK e : e = [id |-> i, position |-> p, text |-> t, vector |-> v, meta |-> m]
      OBVIOUS
    <3>3. [r EXCEPT !.vector = v] = e
      BY <3>1, <3>2
    <3>4. e \in ChunkRecords(T) /\ e.vector = v /\ r.vector = w
      BY <3>1, <3>2 DEF ChunkRecords
    <3>5. [e EXCEPT !.vector = w] = r
      BY <3>1, <3>2
    <3>. QED
      BY <3>3, <3>4, <3>5, Zenon
  <2>2. ASSUME NEW r \in ChunkRecords(T)
        PROVE  r.vector \in Int
    BY DEF ChunkRecords
  <2>. QED
    BY <2>1, <2>2, Zenon DEF HasVector
<1>3. Documents(T) = DocumentsOf(SummaryRecords(T), ChunkRecords(T))
  BY Zenon DEF Documents, DocumentsOf
<1>. QED
  BY <1>1, <1>2, <1>3, Zenon DEF AreDocuments

\* The rows of a document.
LEMMA DocumentRowsType ==
  ASSUME NEW T, NEW d \in Documents(T)
  PROVE  DocumentRows(d) \in Seq(RowRecords(T))
<1>1. PICK i \in Int, s \in Seq(SummaryRecords(T)), c \in Seq(ChunkRecords(T)) :
        d = [doc_id |-> i, summary |-> s, chunks |-> c]
  BY DEF Documents
<1>2. d.doc_id = i /\ d.summary = s /\ d.chunks = c
  BY <1>1
<1> DEFINE P(k) == IF c[k].position = -1 THEN k - 1 ELSE c[k].position
           f == [k \in DOMAIN s |-> RowOf(i, i, "summary", -1, s[k])]
           g == [k \in DOMAIN c |-> RowOf(c[k].id, i, "chunk", P(k), c[k])]
<1>3. ASSUME NEW k \in DOMAIN s
      PROVE  RowOf(i, i, "summary", -1, s[k]) \in RowRecords(T)
  <2>1. PICK r \in SummaryRecords(T) : r = s[k]
    OBVIOUS
  <2>2. r.text \in T /\ r.meta \in Int /\ r.vector \in Int
    BY DEF SummaryRecords
  <2>3. RowOf(i, i, "summary", -1, r) \in RowRecords(T)
    BY <2>2 DEF RowOf, RowRecords
  <2>. QED
    BY <2>1, <2>3
<1>4. ASSUME NEW k \in DOMAIN c
      PROVE  RowOf(c[k].id, i, "chunk", P(k), c[k]) \in RowRecords(T)
  <2>1. PICK r \in ChunkRecords(T) : r = c[k]
    OBVIOUS
  <2>2. r.text \in T /\ r.meta \in Int /\ r.vector \in Int /\ r.position \in Int /\ r.id \in Int
    BY DEF ChunkRecords
  <2>3. PICK p \in Int : p = P(k)
    BY <2>1, <2>2
  <2>4. RowOf(r.id, i, "chunk", p, r) \in RowRecords(T)
    BY <2>2 DEF RowOf, RowRecords
  <2>. QED
    BY <2>1, <2>3, <2>4, Zenon
<1>5. f \in Seq(RowRecords(T))
  <2> HIDE DEF f
  <2>1. f = [k \in 1..Len(s) |-> RowOf(i, i, "summary", -1, s[k])]
    BY DEF f
  <2>. QED
    BY <1>3, <2>1
<1>6. g \in Seq(RowRecords(T))
  <2> HIDE DEF g, P
  <2>1. g = [k \in 1..Len(c) |-> RowOf(c[k].id, i, "chunk", P(k), c[k])]
    BY DEF g
  <2>. QED
    BY <1>4, <2>1
<1>7. DocumentRows(d) = f \o g
  BY <1>2, Zenon DEF DocumentRows
<1> HIDE DEF f, g
<1>. QED
  BY <1>5, <1>6, <1>7

\* One row, with a vector.
Vector1(r, embed) == IF r.vector = NoVector THEN [r EXCEPT !.vector = embed[r.text]] ELSE r

\* Whose id it keeps.
LEMMA Vector1Ext ==
  ASSUME NEW T, NEW r \in RowRecords(T), NEW embed
  PROVE  Vector1(r, embed).ext = r.ext
BY DEF Vector1, RowRecords

\* All of a set of rows, with vectors; and no id is changed by that.
VectorAll(set, embed) == {Vector1(r, embed) : r \in set}
KeepsExt(set, embed) == \A r \in set : Vector1(r, embed).ext = r.ext

\* A vector for each row leaves what is said last of each id where it was.
LEMMA VectoredKeepsLast ==
  ASSUME NEW R, NEW embed, KeepsExt(R, embed), NEW s \in Seq(R)
  PROVE  /\ Vectored(s, embed) \in Seq(VectorAll(R, embed))
         /\ Range(Vectored(s, embed)) = VectorAll(Range(s), embed)
         /\ LastRows(Vectored(s, embed)) = VectorAll(LastRows(s), embed)
         /\ ExtsOf(Vectored(s, embed)) = ExtsOf(s)
         /\ DistinctExts(s) => DistinctExts(Vectored(s, embed))
<1>1. PICK v : v = Vectored(s, embed)
  OBVIOUS
<1>2. v = [i \in DOMAIN s |-> Vector1(s[i], embed)]
  BY <1>1, Zenon DEF Vectored, Vector1
<1>3. DOMAIN v = DOMAIN s /\ \A i \in DOMAIN s : v[i] = Vector1(s[i], embed) /\ v[i].ext = s[i].ext
  BY <1>2 DEF KeepsExt
<1>4. v \in Seq(VectorAll(R, embed)) /\ Len(v) = Len(s)
  <2>1. v = [i \in 1..Len(s) |-> Vector1(s[i], embed)]
    BY <1>2
  <2>. QED
    BY <2>1 DEF VectorAll
<1>5. Range(v) = VectorAll(Range(s), embed)
  BY <1>3 DEF Range, VectorAll
<1>6. LastOf(v) = LastOf(s)
  <2>1. ASSUME NEW i \in DOMAIN s
        PROVE  i \in LastOf(v) <=> i \in LastOf(s)
    <3>1. \A j \in (i + 1)..Len(s) : v[j].ext = s[j].ext /\ v[i].ext = s[i].ext
      BY <1>3
    <3>. QED
      BY <1>3, <1>4, <3>1 DEF LastOf
  <2>2. LastOf(v) \subseteq DOMAIN s /\ LastOf(s) \subseteq DOMAIN s
    BY <1>3 DEF LastOf
  <2>. QED
    BY <2>1, <2>2
<1>7. LastRows(v) = VectorAll(LastRows(s), embed)
  <2>1. LastOf(s) \subseteq DOMAIN s
    BY DEF LastOf
  <2>. QED
    BY <1>3, <1>6, <2>1 DEF LastRows, VectorAll
<1>8. ExtsOf(v) = ExtsOf(s) /\ (DistinctExts(s) => DistinctExts(v))
  BY <1>3 DEF ExtsOf, DistinctExts
<1>. QED
  BY <1>1, <1>4, <1>5, <1>7, <1>8

\* What a job says of the records, row after row.
Said(docs, embed) == Vectored(FlattenSeq([d \in DOMAIN docs |-> DocumentRows(docs[d])]), embed)
\* Rows of a job's texts.
SaidRows(T, embed) == VectorAll(RowRecords(T), embed)

\* What a job inserts is what it says last, whether flattened before vectors are given or after.
LEMMA NewRowsSay ==
  ASSUME NEW T, NEW embed, NEW docs \in Seq(Documents(T))
  PROVE  LET new == Vectored(PayloadRows(docs), embed)
         IN  /\ new \in Seq(SaidRows(T, embed)) /\ Said(docs, embed) \in Seq(SaidRows(T, embed))
             /\ Range(new) = LastRows(Said(docs, embed)) /\ ExtsOf(new) = ExtsOf(Said(docs, embed))
             /\ DistinctExts(new)
<1> DEFINE ss == [d \in DOMAIN docs |-> DocumentRows(docs[d])]
<1>1. ss \in Seq(Seq(RowRecords(T)))
  <2>1. \A d \in DOMAIN docs : DocumentRows(docs[d]) \in Seq(RowRecords(T))
    BY DocumentRowsType
  <2>2. ss = [d \in 1..Len(docs) |-> DocumentRows(docs[d])]
    OBVIOUS
  <2> HIDE DEF ss
  <2>. QED
    BY <2>1, <2>2
<1>2. PICK s \in Seq(RowRecords(T)) : s = FlattenSeq(ss)
  <2> HIDE DEF ss
  <2>. QED
    BY <1>1, FlattenType
<1>3. PICK q : q = FoldLeft(Put, <<>>, s)
  OBVIOUS
<1>4. q \in Seq(RowRecords(T)) /\ Range(q) = LastRows(s) /\ ExtsOf(q) = ExtsOf(s) /\ DistinctExts(q)
  BY <1>3, PutAll
<1>5. PayloadRows(docs) = q /\ Said(docs, embed) = Vectored(s, embed)
  BY <1>2, <1>3, Zenon DEF PayloadRows, Said
<1>6. KeepsExt(RowRecords(T), embed)
  BY Vector1Ext DEF KeepsExt
<1>7. /\ Vectored(s, embed) \in Seq(SaidRows(T, embed))
      /\ LastRows(Vectored(s, embed)) = VectorAll(LastRows(s), embed)
      /\ ExtsOf(Vectored(s, embed)) = ExtsOf(s)
  BY <1>6, VectoredKeepsLast DEF SaidRows
<1>8. /\ Vectored(q, embed) \in Seq(SaidRows(T, embed))
      /\ Range(Vectored(q, embed)) = VectorAll(Range(q), embed)
      /\ ExtsOf(Vectored(q, embed)) = ExtsOf(q)
      /\ DistinctExts(Vectored(q, embed))
  BY <1>4, <1>6, VectoredKeepsLast DEF SaidRows
<1>. QED
  BY <1>4, <1>5, <1>7, <1>8, Zenon

\* A set with a row for each external id said, and only one, has as many as there are last rows.
LEMMA AsManyAsLast ==
  ASSUME NEW R, NEW s \in Seq(R), NEW set, {r.row : r \in set} = LastRows(s),
         \A a, b \in set : a.row.ext = b.row.ext => a = b
  PROVE  IsFiniteSet(set) /\ Cardinality(set) = Cardinality(LastOf(s))
<1> DEFINE f == [i \in LastOf(s) |-> CHOOSE r \in set : r.row = s[i]]
<1>1. LastOf(s) \subseteq 1..Len(s) /\ Len(s) \in Nat
  BY DEF LastOf
<1>2. IsFiniteSet(LastOf(s))
  <2>1. IsFiniteSet(1..Len(s))
    BY <1>1, FS_Interval
  <2>. QED
    BY <1>1, <2>1, FS_Subset
<1>3. ASSUME NEW i \in LastOf(s)
      PROVE  f[i] \in set /\ f[i].row = s[i]
  <2>1. s[i] \in LastRows(s)
    BY DEF LastRows
  <2>2. \E r \in set : r.row = s[i]
    BY <2>1
  <2>. QED
    BY <2>2
<1>4. f \in [LastOf(s) -> set]
  BY <1>3
<1>5. ASSUME NEW i \in LastOf(s), NEW j \in LastOf(s), f[i] = f[j]
      PROVE  i = j
  <2>1. s[i] = s[j]
    BY <1>3, <1>5
  <2>2. i \in 1..Len(s) /\ j \in 1..Len(s)
    BY <1>1
  <2>3. /\ \A k \in (i + 1)..Len(s) : s[k].ext # s[i].ext
        /\ \A k \in (j + 1)..Len(s) : s[k].ext # s[j].ext
    BY DEF LastOf
  <2>4. ~(i < j)
    <3>1. i < j => j \in (i + 1)..Len(s)
      BY <2>2
    <3>. QED
      BY <2>1, <2>3, <3>1
  <2>5. ~(j < i)
    <3>1. j < i => i \in (j + 1)..Len(s)
      BY <2>2
    <3>. QED
      BY <2>1, <2>3, <3>1
  <2>. QED
    BY <2>2, <2>4, <2>5
<1>6. ASSUME NEW r \in set
      PROVE  \E i \in LastOf(s) : f[i] = r
  <2>1. r.row \in LastRows(s)
    OBVIOUS
  <2>2. PICK i \in LastOf(s) : r.row = s[i]
    BY <2>1 DEF LastRows
  <2>3. f[i] \in set /\ f[i].row.ext = r.row.ext
    BY <1>3, <2>2
  <2>. QED
    BY <2>3
<1>7. f \in Bijection(LastOf(s), set)
  <2> HIDE DEF f
  <2>1. f \in Injection(LastOf(s), set)
    BY <1>4, <1>5, Fun_IsInj
  <2>2. f \in Surjection(LastOf(s), set)
    BY <1>4, <1>6 DEF Surjection
  <2>. QED
    BY <2>1, <2>2 DEF Bijection
<1>. QED
  <2> HIDE DEF f
  <2>1. ExistsBijection(LastOf(s), set)
    BY <1>7 DEF ExistsBijection
  <2>. QED
    BY <1>2, <1>7, <2>1, FS_Bijection

-----------------------------------------------------------------------------
\* Journal rows and jobs.
Data == [magic : BOOLEAN, n : Nat, docs : Seq(Documents(Texts)), block : Seq(Int)]
JobRecords == [docs : Seq(Documents(Texts)), data : Data, status : {"pending", "done", "error"}]
\* A payload is as it was encoded, or its block is too short.
DataKept(job) == job.data = Encode(job.docs) \/ Len(job.data.block) < job.data.n
\* After a job that waits, all wait.
JobsKept ==
  /\ jobs \in Seq(JobRecords)
  /\ \A i \in DOMAIN jobs : DataKept(jobs[i])
  /\ \A i, j \in DOMAIN jobs : i < j /\ jobs[i].status = "pending" => jobs[j].status = "pending"
\* What a set of records says; none says two things of one id.
RowsOf(set) == {r.row : r \in set}
OnePerExt(set) == \A a, b \in set : a.row.ext = b.row.ext => a = b
\* The records are what is said last.
Reflects(set, all) == RowsOf(set) = LastRows(all) /\ OnePerExt(set)
RowsKept == Reflects(rows, Old \o DoneRows)
IInv == JobsKept /\ RowsKept

\* The rows of what jobs have done.
Rows == SaidRows(Texts, Embed) \cup RowRecords(Texts)
DoneOf(job) == IF job.status # "done" THEN <<>> ELSE Said(job.docs, Embed)
DoneSeq(js) == [i \in DOMAIN js |-> DoneOf(js[i])]

\* What the jobs that are done said, as a function of the jobs.
LEMMA DoneRowsAre == DoneRows = FlattenSeq(DoneSeq(jobs))
BY Zenon DEF DoneRows, DoneSeq, DoneOf, Said

\* Types of that.
LEMMA SaidType ==
  ASSUME NEW docs \in Seq(Documents(Texts))
  PROVE  Said(docs, Embed) \in Seq(Rows)
<1>1. Said(docs, Embed) \in Seq(SaidRows(Texts, Embed))
  BY NewRowsSay
<1>. QED
  BY <1>1 DEF Rows

\* For one job.
LEMMA DoneOfType ==
  ASSUME NEW job \in JobRecords
  PROVE  DoneOf(job) \in Seq(Rows)
<1>1. job.docs \in Seq(Documents(Texts))
  BY DEF JobRecords
<1>. QED
  BY <1>1, SaidType DEF DoneOf

\* For all.
LEMMA DoneSeqType ==
  ASSUME NEW js \in Seq(JobRecords)
  PROVE  /\ DoneSeq(js) \in Seq(Seq(Rows)) /\ Len(DoneSeq(js)) = Len(js)
         /\ \A i \in 1..Len(js) : DoneSeq(js)[i] = DoneOf(js[i])
<1>1. DoneSeq(js) = [i \in 1..Len(js) |-> DoneOf(js[i])]
  BY DEF DoneSeq
<1>2. \A i \in 1..Len(js) : DoneOf(js[i]) \in Seq(Rows)
  BY DoneOfType
<1>. QED
  BY <1>1, <1>2

\* As rows of one id each, the same.
SaysTheSame(new, said) == Range(new) = LastRows(said) /\ ExtsOf(new) = ExtsOf(said) /\ DistinctExts(new)

\* A job that is posted says nothing yet.
LEMMA DonePosted ==
  ASSUME NEW js \in Seq(JobRecords), NEW job \in JobRecords, job.status = "pending"
  PROVE  FlattenSeq(DoneSeq(Append(js, job))) = FlattenSeq(DoneSeq(js))
<1>1. PICK ks : ks = Append(js, job)
  OBVIOUS
<1>2. PICK n \in Nat : n = Len(js)
  OBVIOUS
<1>3. ks \in Seq(JobRecords) /\ Len(ks) = n + 1 /\ ks[n + 1] = job /\ \A i \in 1..n : ks[i] = js[i]
  BY <1>1, <1>2, AppendProperties
<1>4. DoneOf(job) = <<>>
  BY DEF DoneOf
<1>5. PICK d \in Seq(Seq(Rows)) : d = DoneSeq(js)
  BY DoneSeqType
<1>6. Len(d) = n /\ \A i \in 1..n : d[i] = DoneOf(js[i])
  BY <1>2, <1>5, DoneSeqType
<1>7. DoneSeq(ks) = [i \in 1..(n + 1) |-> DoneOf(ks[i])]
  BY <1>3 DEF DoneSeq
<1>8. <<>> \in Seq(Rows)
  OBVIOUS
<1>9. PICK e : e = Append(d, <<>>)
  OBVIOUS
<1>10. Len(e) = n + 1 /\ e[n + 1] = <<>> /\ (\A i \in 1..n : e[i] = d[i]) /\ e \in Seq(Seq(Rows))
  BY <1>6, <1>8, <1>9, AppendProperties
<1>11. ASSUME NEW i \in 1..(n + 1)
       PROVE  DoneOf(ks[i]) = e[i]
  <2>1. CASE i = n + 1
    BY <1>3, <1>4, <1>10, <2>1
  <2>2. CASE i # n + 1
    <3>1. i \in 1..n
      BY <2>2
    <3>. QED
      BY <1>3, <1>6, <1>10, <3>1
  <2>. QED
    BY <2>1, <2>2
<1>12. e = [i \in 1..(n + 1) |-> e[i]]
  BY <1>10
<1>13. DoneSeq(ks) = e
  BY <1>7, <1>11, <1>12
<1>14. FlattenSeq(e) = FlattenSeq(d)
  BY <1>9, FlattenAppendEmpty
<1>. QED
  BY <1>1, <1>5, <1>13, <1>14

\* Nor does anything else that leaves the documents and who is done.
LEMMA DoneSame ==
  ASSUME NEW js \in Seq(JobRecords), NEW i \in DOMAIN js, NEW job, DoneOf(job) = DoneOf(js[i])
  PROVE  DoneSeq([js EXCEPT ![i] = job]) = DoneSeq(js)
<1>1. PICK ks : ks = [js EXCEPT ![i] = job]
  OBVIOUS
<1>2. DOMAIN ks = DOMAIN js /\ ks[i] = job /\ \A k \in DOMAIN js : k # i => ks[k] = js[k]
  BY <1>1
<1>3. \A k \in DOMAIN js : DoneOf(ks[k]) = DoneOf(js[k])
  BY <1>2
<1>. QED
  BY <1>1, <1>2, <1>3 DEF DoneSeq

\* The first that waited is done: what it says comes after all that was said.
LEMMA DoneNext ==
  ASSUME NEW js \in Seq(JobRecords), NEW i \in DOMAIN js, NEW job \in JobRecords,
         \A k \in DOMAIN js : k >= i => js[k].status = "pending"
  PROVE  FlattenSeq(DoneSeq([js EXCEPT ![i] = job])) = FlattenSeq(DoneSeq(js)) \o DoneOf(job)
<1>1. PICK ks : ks = [js EXCEPT ![i] = job]
  OBVIOUS
<1>2. DOMAIN ks = DOMAIN js /\ ks[i] = job /\ \A k \in DOMAIN js : k # i => ks[k] = js[k]
  BY <1>1
<1>3. DOMAIN js = 1..Len(js) /\ i \in Nat /\ Len(js) \in Nat
  OBVIOUS
<1>4. PICK d \in Seq(Seq(Rows)) : d = DoneSeq(js)
  BY DoneSeqType
<1>5. Len(d) = Len(js) /\ \A k \in 1..Len(js) : d[k] = DoneOf(js[k])
  BY <1>4, DoneSeqType
<1>6. Blank(d, i)
  <2>1. ASSUME NEW k \in i..Len(d)
        PROVE  d[k] = <<>>
    <3>1. k \in DOMAIN js /\ k >= i
      BY <1>3, <1>5
    <3>2. js[k].status = "pending"
      BY <3>1
    <3>. QED
      BY <1>3, <1>5, <3>1, <3>2 DEF DoneOf
  <2>. QED
    BY <2>1 DEF Blank
<1>7. PICK q \in Seq(Rows) : q = DoneOf(job)
  BY DoneOfType
<1>8. i \in 1..Len(d)
  BY <1>3, <1>5
<1>9. FlattenSeq([d EXCEPT ![i] = q]) = FlattenSeq(d) \o q
  BY <1>6, <1>8, FlattenAt
<1>10. PICK e : e = [d EXCEPT ![i] = q]
  OBVIOUS
<1>11. DOMAIN e = DOMAIN js /\ \A k \in DOMAIN js : e[k] = DoneOf(ks[k])
  BY <1>2, <1>3, <1>5, <1>7, <1>8, <1>10
<1>12. e = [k \in DOMAIN e |-> e[k]]
  BY <1>10
<1>13. DoneSeq(ks) = e
  BY <1>2, <1>11, <1>12 DEF DoneSeq
<1>. QED
  BY <1>1, <1>4, <1>7, <1>9, <1>10, <1>13

\* The records that rows replace, and those they become.
GoneFor(new, set) == {r \in set : \E j \in DOMAIN new : new[j].ext = r.row.ext}
PutAfter(new, top) == {Stored(top + j, new[j], TRUE) : j \in DOMAIN new}

\* The rows of a job replace those of the same ids.
LEMMA WorkReplaces ==
  ASSUME NEW R, NEW all \in Seq(R), NEW said \in Seq(R), NEW new \in Seq(R),
         SaysTheSame(new, said), NEW set, Reflects(set, all), NEW top
  PROVE  Reflects((set \ GoneFor(new, set)) \cup PutAfter(new, top), all \o said)
<1> /\ Range(new) = LastRows(said) /\ ExtsOf(new) = ExtsOf(said) /\ DistinctExts(new)
    /\ RowsOf(set) = LastRows(all) /\ OnePerExt(set)
  BY DEF SaysTheSame, Reflects
<1> DEFINE gone == GoneFor(new, set)
           put == PutAfter(new, top)
<1>0. /\ gone = {r \in set : \E j \in DOMAIN new : new[j].ext = r.row.ext}
      /\ put = {Stored(top + j, new[j], TRUE) : j \in DOMAIN new}
      /\ {r.row : r \in set} = LastRows(all)
  BY DEF RowsOf, GoneFor, PutAfter
<1> HIDE DEF gone, put
<1>1. LastRows(all \o said) = {r \in LastRows(all) : r.ext \notin ExtsOf(said)} \cup LastRows(said)
  BY LastOfConcat
<1>2. ASSUME NEW j \in DOMAIN new
      PROVE  Stored(top + j, new[j], TRUE).row = new[j]
  BY DEF Stored
<1>3. ASSUME NEW r \in set
      PROVE  r \in gone <=> r.row.ext \in ExtsOf(new)
  BY <1>0 DEF ExtsOf
<1>4. {r.row : r \in put} = Range(new)
  <2>1. ASSUME NEW x \in put
        PROVE  x.row \in Range(new)
    <3>1. PICK j \in DOMAIN new : x = Stored(top + j, new[j], TRUE)
      BY <1>0
    <3>. QED
      BY <1>2, <3>1 DEF Range
  <2>2. ASSUME NEW y \in Range(new)
        PROVE  \E x \in put : x.row = y
    <3>1. PICK j \in DOMAIN new : y = new[j]
      BY DEF Range
    <3>2. Stored(top + j, new[j], TRUE) \in put
      BY <1>0
    <3>. QED
      BY <1>2, <3>1, <3>2
  <2>. QED
    BY <2>1, <2>2
<1>5. {r.row : r \in set \ gone} = {r \in LastRows(all) : r.ext \notin ExtsOf(new)}
  BY <1>0, <1>3
<1>6. {r.row : r \in (set \ gone) \cup put} = {r.row : r \in set \ gone} \cup {r.row : r \in put}
  OBVIOUS
<1>7. {r.row : r \in (set \ gone) \cup put} = LastRows(all \o said)
  BY <1>1, <1>4, <1>5, <1>6
<1>8. ASSUME NEW a \in put
      PROVE  \E j \in DOMAIN new : a = Stored(top + j, new[j], TRUE) /\ a.row.ext = new[j].ext
  BY <1>0, <1>2
<1>9. ASSUME NEW a \in put, NEW b \in put, a.row.ext = b.row.ext
      PROVE  a = b
  <2>1. PICK j \in DOMAIN new : a = Stored(top + j, new[j], TRUE) /\ a.row.ext = new[j].ext
    BY <1>8
  <2>2. PICK k \in DOMAIN new : b = Stored(top + k, new[k], TRUE) /\ b.row.ext = new[k].ext
    BY <1>8
  <2>3. j = k
    BY <1>9, <2>1, <2>2 DEF DistinctExts
  <2>. QED
    BY <2>1, <2>2, <2>3
<1>10. ASSUME NEW a \in put
       PROVE  a.row.ext \in ExtsOf(new)
  BY <1>8 DEF ExtsOf
<1>11. OnePerExt((set \ gone) \cup put)
  <2> SUFFICES ASSUME NEW a \in (set \ gone) \cup put, NEW b \in (set \ gone) \cup put,
                      a.row.ext = b.row.ext
               PROVE  a = b
    BY DEF OnePerExt
  <2>1. CASE a \in set \ gone /\ b \in set \ gone
    BY <2>1 DEF OnePerExt
  <2>2. CASE a \in put /\ b \in put
    BY <1>9, <2>2
  <2>3. CASE a \in set \ gone /\ b \in put
    <3>1. a.row.ext \notin ExtsOf(new) /\ b.row.ext \in ExtsOf(new)
      BY <1>3, <1>10, <2>3
    <3>. QED
      BY <3>1
  <2>4. CASE a \in put /\ b \in set \ gone
    <3>1. b.row.ext \notin ExtsOf(new) /\ a.row.ext \in ExtsOf(new)
      BY <1>3, <1>10, <2>4
    <3>. QED
      BY <3>1
  <2>. QED
    BY <2>1, <2>2, <2>3, <2>4
<1>. QED
  BY <1>7, <1>11 DEF RowsOf, Reflects, gone, put

-----------------------------------------------------------------------------
\* A posted payload, encoded.
LEMMA EncodeType ==
  ASSUME NEW docs \in Seq(Documents(Texts))
  PROVE  /\ Encode(docs) \in Data /\ Encode(docs).n = Len(Encode(docs).block)
         /\ Decode(Encode(docs)) = docs
<1>1. AreDocuments(Documents(Texts))
  BY DocumentsHaveVectors
<1>2. PICK enc \in Seq(Documents(Texts)), b \in Seq(Int) :
        /\ Encode(docs) = [magic |-> TRUE, n |-> Len(b), docs |-> enc, block |-> b]
        /\ Len(enc) = Len(docs) /\ \A i \in 1..Len(docs) : DocumentKept(docs[i], enc[i], b)
  BY <1>1, EncodedKeeps
<1>3. PICK n \in Nat : n = Len(b)
  OBVIOUS
<1>4. PICK x : x = [magic |-> TRUE, n |-> n, docs |-> enc, block |-> b]
  OBVIOUS
<1>5. x \in Data /\ x.n = n /\ x.block = b
  BY <1>4 DEF Data
<1>6. Encode(docs) = x
  BY <1>2, <1>3, <1>4
<1>7. Decode(Encode(docs)) = docs
  BY <1>1, DecodeIsInverse
<1>. QED
  BY <1>3, <1>5, <1>6, <1>7

\* At first the records are the old ones, which have distinct ids.
LEMMA InitIInv == Init => IInv
<1> SUFFICES ASSUME Init PROVE IInv
  OBVIOUS
<1>1. jobs = <<>> /\ rows = {Stored(i, Old[i], FALSE) : i \in DOMAIN Old}
  BY DEF Init
<1>2. JobsKept
  BY <1>1 DEF JobsKept
<1>3. DoneRows = <<>>
  <2>1. DoneSeq(jobs) = <<>>
    BY <1>1 DEF DoneSeq
  <2>2. FlattenSeq(<<>>) = <<>>
    BY DEF FlattenSeq
  <2>. QED
    BY <2>1, <2>2, DoneRowsAre
<1>4. Old \in Seq(Rows)
  BY OldAssumption DEF Rows
<1>5. Old \o DoneRows = Old
  BY <1>3, <1>4
<1>6. LastOf(Old) = DOMAIN Old
  <2>1. ASSUME NEW i \in DOMAIN Old, NEW j \in (i + 1)..Len(Old)
        PROVE  Old[j].ext # Old[i].ext
    <3>1. j \in DOMAIN Old /\ j # i
      BY <1>4
    <3>. QED
      BY <3>1, OldAssumption
  <2>. QED
    BY <2>1 DEF LastOf
<1>7. ASSUME NEW i \in DOMAIN Old
      PROVE  Stored(i, Old[i], FALSE).row = Old[i]
  BY DEF Stored
<1>8. {r.row : r \in rows} = LastRows(Old)
  <2>1. {r.row : r \in rows} = {Old[i] : i \in DOMAIN Old}
    <3>1. ASSUME NEW r \in rows
          PROVE  r.row \in {Old[i] : i \in DOMAIN Old}
      BY <1>1, <1>7
    <3>2. ASSUME NEW i \in DOMAIN Old
          PROVE  \E r \in rows : r.row = Old[i]
      BY <1>1, <1>7
    <3>. QED
      BY <3>1, <3>2
  <2>. QED
    BY <1>6, <2>1 DEF LastRows
<1>9. OnePerExt(rows)
  <2> SUFFICES ASSUME NEW a \in rows, NEW b \in rows, a.row.ext = b.row.ext
               PROVE  a = b
    BY DEF OnePerExt
  <2>1. PICK i \in DOMAIN Old : a = Stored(i, Old[i], FALSE)
    BY <1>1
  <2>2. PICK j \in DOMAIN Old : b = Stored(j, Old[j], FALSE)
    BY <1>1
  <2>3. i = j
    BY <1>7, <2>1, <2>2, OldAssumption
  <2>. QED
    BY <2>1, <2>2, <2>3
<1>. QED
  BY <1>2, <1>5, <1>8, <1>9 DEF IInv, RowsKept, Reflects, RowsOf

\* The jobs and the records are all of the state that is told here.
LEMMA SameIInv ==
  ASSUME IInv, UNCHANGED <<jobs, rows>>
  PROVE  IInv'
BY DEF IInv, JobsKept, RowsKept, DoneRows

\* What the jobs that are done said is only added to.
DoneGrows == DoneRows' = DoneRows \/ \E said \in Seq(Rows) : DoneRows' = DoneRows \o said

\* A step that leaves the records, and what is done of the jobs.
LEMMA SameRows ==
  ASSUME IInv, rows' = rows, FlattenSeq(DoneSeq(jobs')) = FlattenSeq(DoneSeq(jobs))
  PROVE  RowsKept' /\ DoneGrows
<1>1. DoneRows' = FlattenSeq(DoneSeq(jobs'))
  BY Zenon DEF DoneRows, DoneSeq, DoneOf, Said
<1>2. DoneRows' = DoneRows
  BY <1>1, DoneRowsAre
<1>. QED
  BY <1>2 DEF IInv, RowsKept, DoneGrows

\* A new job waits, and has done nothing.
LEMMA PostIInv ==
  ASSUME IInv, NEW docs \in Payloads, Post(docs)
  PROVE  IInv' /\ DoneGrows
<1>1. PICK job : job = [docs |-> docs, data |-> Encode(docs), status |-> "pending"]
  OBVIOUS
<1>2. docs \in Seq(Documents(Texts))
  BY PayloadsAssumption
<1>3. Encode(docs) \in Data
  BY <1>2, EncodeType
<1>4. job \in JobRecords /\ job.status = "pending" /\ job.data = Encode(job.docs)
  BY <1>1, <1>2, <1>3 DEF JobRecords
<1>5. jobs' = Append(jobs, job) /\ rows' = rows /\ jobs \in Seq(JobRecords)
  BY <1>1 DEF Post, IInv, JobsKept
<1>6. PICK n \in Nat : n = Len(jobs)
  BY <1>5
<1>7. /\ jobs' \in Seq(JobRecords) /\ DOMAIN jobs' = 1..(n + 1) /\ DOMAIN jobs = 1..n
      /\ jobs'[n + 1] = job /\ \A i \in 1..n : jobs'[i] = jobs[i]
  BY <1>4, <1>5, <1>6, AppendProperties
<1>8. JobsKept'
  <2>1. ASSUME NEW i \in 1..(n + 1)
        PROVE  DataKept(jobs'[i])
    <3>1. CASE i = n + 1
      BY <1>4, <1>7, <3>1 DEF DataKept
    <3>2. CASE i # n + 1
      <4>1. i \in 1..n
        BY <3>2
      <4>. QED
        BY <1>7, <4>1 DEF IInv, JobsKept
    <3>. QED
      BY <3>1, <3>2
  <2>2. ASSUME NEW i \in 1..(n + 1), NEW j \in 1..(n + 1), i < j, jobs'[i].status = "pending"
        PROVE  jobs'[j].status = "pending"
    <3>1. CASE j = n + 1
      BY <1>4, <1>7, <3>1
    <3>2. CASE j # n + 1
      <4>1. i \in 1..n /\ j \in 1..n
        BY <2>2, <3>2
      <4>. QED
        BY <1>7, <2>2, <4>1 DEF IInv, JobsKept
    <3>. QED
      BY <3>1, <3>2
  <2>. QED
    BY <1>7, <2>1, <2>2 DEF JobsKept
<1>9. FlattenSeq(DoneSeq(jobs')) = FlattenSeq(DoneSeq(jobs))
  BY <1>4, <1>5, DonePosted
<1>10. RowsKept' /\ DoneGrows
  BY <1>5, <1>9, SameRows
<1>. QED
  BY <1>8, <1>10 DEF IInv

\* One job has changed, and it does not wait for longer than it did.
LEMMA OneJobKept ==
  ASSUME IInv, NEW i \in DOMAIN jobs, NEW job \in JobRecords, DataKept(job),
         jobs' = [jobs EXCEPT ![i] = job],
         \/ job.status = jobs[i].status
         \/ job.status # "pending" /\ \A j \in 1..(i - 1) : jobs[j].status # "pending"
  PROVE  JobsKept'
<1>1. jobs \in Seq(JobRecords) /\ DOMAIN jobs = 1..Len(jobs) /\ Len(jobs) \in Nat
  BY DEF IInv, JobsKept
<1>2. /\ jobs' \in Seq(JobRecords) /\ DOMAIN jobs' = DOMAIN jobs
      /\ jobs'[i] = job /\ \A j \in DOMAIN jobs : j # i => jobs'[j] = jobs[j]
  BY <1>1
<1>3. ASSUME NEW j \in DOMAIN jobs
      PROVE  DataKept(jobs'[j])
  <2>1. CASE j = i
    BY <1>2, <2>1
  <2>2. CASE j # i
    BY <1>2, <2>2 DEF IInv, JobsKept
  <2>. QED
    BY <2>1, <2>2
<1>4. ASSUME NEW j \in DOMAIN jobs, NEW k \in DOMAIN jobs, j < k, jobs'[j].status = "pending"
      PROVE  jobs'[k].status = "pending"
  <2>1. CASE job.status = jobs[i].status
    <3>1. jobs'[j].status = jobs[j].status /\ jobs'[k].status = jobs[k].status
      BY <1>2, <2>1
    <3>. QED
      BY <1>4, <3>1 DEF IInv, JobsKept
  <2>2. CASE job.status # "pending" /\ \A l \in 1..(i - 1) : jobs[l].status # "pending"
    <3>1. CASE j < i
      <4>1. j \in 1..(i - 1) /\ jobs'[j] = jobs[j]
        BY <1>1, <1>2, <3>1
      <4>. QED
        BY <1>4, <2>2, <4>1
    <3>2. CASE j = i
      <4>. QED
        BY <1>2, <1>4, <2>2, <3>2
    <3>3. CASE i < j
      <4>1. j # i /\ k # i
        BY <1>1, <1>4, <3>3
      <4>2. jobs'[j] = jobs[j] /\ jobs'[k] = jobs[k]
        BY <1>2, <4>1
      <4>. QED
        BY <1>4, <4>2 DEF IInv, JobsKept
    <3>. QED
      BY <1>1, <3>1, <3>2, <3>3
  <2>. QED
    BY <2>1, <2>2
<1>. QED
  BY <1>2, <1>3, <1>4 DEF JobsKept

\* A torn payload is too short for its header, and stays so.
LEMMA TearIInv ==
  ASSUME IInv, Tear
  PROVE  IInv' /\ DoneGrows
<1>1. PICK i \in DOMAIN jobs :
        /\ jobs[i].status = "pending" /\ jobs[i].data.block # <<>>
        /\ jobs' = [jobs EXCEPT ![i].data.block = Front(@)]
  BY DEF Tear
<1>2. rows' = rows /\ jobs \in Seq(JobRecords)
  BY DEF Tear, IInv, JobsKept
<1>3. PICK docs \in Seq(Documents(Texts)), data \in Data, status \in {"pending", "done", "error"} :
        jobs[i] = [docs |-> docs, data |-> data, status |-> status]
  <2>1. PICK job \in JobRecords : job = jobs[i]
    BY <1>2
  <2>. QED
    BY <2>1 DEF JobRecords
<1>4. PICK m \in BOOLEAN, n \in Nat, enc \in Seq(Documents(Texts)), b \in Seq(Int) :
        data = [magic |-> m, n |-> n, docs |-> enc, block |-> b]
  BY DEF Data
<1>5. b # <<>> /\ Len(b) <= n
  <2>1. jobs[i].data = data /\ data.block = b /\ data.n = n /\ jobs[i].docs = docs
    BY <1>3, <1>4
  <2>2. data = Encode(docs) \/ Len(b) < n
    BY <2>1 DEF IInv, JobsKept, DataKept
  <2>3. Encode(docs).n = Len(Encode(docs).block)
    BY EncodeType
  <2>4. Len(b) \in Nat
    OBVIOUS
  <2>. QED
    BY <1>1, <2>1, <2>2, <2>3, <2>4
<1>6. PICK c : c = Front(b)
  OBVIOUS
<1>7. c \in Seq(Int) /\ Len(c) < Len(b)
  BY <1>5, <1>6 DEF Front
<1>8. PICK e : e = [magic |-> m, n |-> n, docs |-> enc, block |-> c]
  OBVIOUS
<1>9. PICK job : job = [docs |-> docs, data |-> e, status |-> status]
  OBVIOUS
<1>10. e \in Data /\ e.block = c /\ e.n = n
  BY <1>7, <1>8 DEF Data
<1>11. job \in JobRecords /\ job.data = e /\ job.status = status /\ job.docs = docs
  BY <1>9, <1>10 DEF JobRecords
<1>12. DataKept(job)
  <2>1. Len(b) \in Nat /\ Len(c) \in Nat
    BY <1>7
  <2>. QED
    BY <1>5, <1>7, <1>10, <1>11, <2>1 DEF DataKept
<1>13. jobs' = [jobs EXCEPT ![i] = job]
  <2>1. PICK old : old = jobs[i]
    OBVIOUS
  <2>2. jobs' = [jobs EXCEPT ![i] = [old EXCEPT !.data = [old.data EXCEPT !.block = Front(old.data.block)]]]
    BY <1>1, <2>1
  <2>3. old.data = data /\ data.block = b
    BY <1>3, <1>4, <2>1
  <2>4. [data EXCEPT !.block = c] = e
    BY <1>4, <1>8
  <2>5. [old EXCEPT !.data = e] = job
    BY <1>3, <1>9, <2>1
  <2>. QED
    BY <1>6, <2>2, <2>3, <2>4, <2>5, Zenon
<1>14. jobs[i].status = status /\ jobs[i].docs = docs
  BY <1>3
<1>15. JobsKept'
  BY <1>11, <1>12, <1>13, <1>14, OneJobKept
<1>16. DoneOf(job) = DoneOf(jobs[i])
  BY <1>11, <1>14, Zenon DEF DoneOf
<1>17. DoneSeq(jobs') = DoneSeq(jobs)
  BY <1>2, <1>13, <1>16, DoneSame
<1>18. RowsKept' /\ DoneGrows
  BY <1>2, <1>17, SameRows
<1>. QED
  BY <1>15, <1>18 DEF IInv

\* A payload that can be decoded is the one that was posted.
LEMMA DecodedIsPosted ==
  ASSUME NEW job \in JobRecords, DataKept(job), Decodable(job.data)
  PROVE  Decode(job.data) = job.docs
<1>1. job.docs \in Seq(Documents(Texts)) /\ job.data \in Data
  BY DEF JobRecords
<1>2. Len(job.data.block) \in Nat /\ job.data.n \in Nat
  BY <1>1 DEF Data
<1>3. job.data = Encode(job.docs)
  BY <1>2 DEF DataKept, Decodable
<1>. QED
  BY <1>1, <1>3, EncodeType

\* A job that is done has said what it was posted with: had it been torn, it would not have
\* been decodable. Its rows replace those of the same ids, and it is the first that waited.
LEMMA WorkIInv ==
  ASSUME IInv, Work
  PROVE  IInv' /\ DoneGrows
<1> DEFINE new(i) == Vectored(PayloadRows(Decode(jobs[i].data)), Embed)
           top == Max({0} \cup {r.id : r \in rows})
           gone(i) == {r \in rows : \E j \in DOMAIN new(i) : new(i)[j].ext = r.row.ext}
           put(i) == {Stored(top + j, new(i)[j], TRUE) : j \in DOMAIN new(i)}
<1>1. PICK i \in DOMAIN jobs :
        /\ jobs[i].status = "pending" /\ \A j \in 1..(i - 1) : jobs[j].status # "pending"
        /\ \/ /\ Decodable(jobs[i].data)
              /\ rows' = (rows \ gone(i)) \cup put(i)
              /\ jobs' = [jobs EXCEPT ![i].status = "done"]
           \/ /\ jobs' = [jobs EXCEPT ![i].status = "error"]
              /\ rows' = rows
  BY Zenon DEF Work
<1>2. jobs \in Seq(JobRecords) /\ DOMAIN jobs = 1..Len(jobs) /\ Len(jobs) \in Nat
  BY DEF IInv, JobsKept
<1>3. PICK old \in JobRecords : old = jobs[i]
  BY <1>2
<1>4. PICK docs \in Seq(Documents(Texts)), data \in Data, status \in {"pending", "done", "error"} :
        old = [docs |-> docs, data |-> data, status |-> status]
  BY DEF JobRecords
<1>5. DataKept(old) /\ old.status = "pending" /\ old.docs = docs /\ old.data = data
  <2>1. DataKept(old)
    BY <1>3 DEF IInv, JobsKept
  <2>2. old.status = "pending"
    BY <1>1, <1>3
  <2>3. old.docs = docs /\ old.data = data
    BY <1>4
  <2>. QED
    BY <2>1, <2>2, <2>3
<1>6. ASSUME NEW ended \in {"done", "error"}, jobs' = [jobs EXCEPT ![i].status = ended]
      PROVE  \E job \in JobRecords :
               /\ jobs' = [jobs EXCEPT ![i] = job] /\ JobsKept'
               /\ job.status = ended /\ job.docs = docs
  <2>1. PICK job : job = [docs |-> docs, data |-> data, status |-> ended]
    OBVIOUS
  <2>2. job \in JobRecords /\ job.data = data /\ job.status = ended /\ job.docs = docs
    BY <2>1 DEF JobRecords
  <2>3. [old EXCEPT !.status = ended] = job
    BY <1>4, <2>1
  <2>4. jobs' = [jobs EXCEPT ![i] = job]
    BY <1>3, <1>6, <2>3
  <2>5. DataKept(job)
    BY <1>5, <2>2 DEF DataKept
  <2>6. job.status # "pending"
    BY <2>2
  <2>7. JobsKept'
    BY <1>1, <2>2, <2>4, <2>5, <2>6, OneJobKept
  <2>. QED
    BY <2>2, <2>4, <2>7
<1>7. CASE /\ Decodable(jobs[i].data)
           /\ rows' = (rows \ gone(i)) \cup put(i)
           /\ jobs' = [jobs EXCEPT ![i].status = "done"]
  <2>1. PICK job \in JobRecords : /\ jobs' = [jobs EXCEPT ![i] = job] /\ JobsKept'
                                  /\ job.status = "done" /\ job.docs = docs
    BY <1>6, <1>7
  <2>2. Decode(jobs[i].data) = docs
    BY <1>3, <1>5, <1>7, DecodedIsPosted
  <2>3. PICK n : n = Vectored(PayloadRows(docs), Embed)
    OBVIOUS
  <2>4. PICK said \in Seq(Rows) : said = Said(docs, Embed)
    BY SaidType
  <2>5. /\ n \in Seq(SaidRows(Texts, Embed))
        /\ Range(n) = LastRows(said) /\ ExtsOf(n) = ExtsOf(said) /\ DistinctExts(n)
    BY <2>3, <2>4, NewRowsSay
  <2>6. n \in Seq(Rows)
    BY <2>5 DEF Rows
  <2>7. PICK t : t = top
    OBVIOUS
  <2>8. new(i) = n
    BY <2>2, <2>3, Zenon
  <2>9. PICK after : after = (rows \ GoneFor(n, rows)) \cup PutAfter(n, t)
    OBVIOUS
  <2>11. rows' = after
    <3> HIDE DEF top, new
    <3>1. gone(i) = GoneFor(n, rows)
      BY <2>8, Zenon DEF GoneFor
    <3>2. put(i) = PutAfter(n, t)
      BY <2>7, <2>8, Zenon DEF PutAfter
    <3>. QED
      BY <1>7, <2>9, <3>1, <3>2, Zenon
  <2>12. Old \in Seq(Rows)
    BY OldAssumption DEF Rows
  <2>13. PICK was \in Seq(Rows) : was = FlattenSeq(DoneSeq(jobs))
    <3>1. DoneSeq(jobs) \in Seq(Seq(Rows))
      BY <1>2, DoneSeqType
    <3>. QED
      BY <3>1, FlattenType
  <2>14. ASSUME NEW k \in DOMAIN jobs, k >= i
         PROVE  jobs[k].status = "pending"
    <3>1. k = i \/ i < k
      BY <1>2, <2>14
    <3>. QED
      BY <1>1, <3>1 DEF IInv, JobsKept
  <2>15. FlattenSeq(DoneSeq(jobs')) = was \o DoneOf(job)
    BY <1>2, <2>1, <2>13, <2>14, DoneNext
  <2>16. DoneOf(job) = said
    BY <2>1, <2>4 DEF DoneOf
  <2>17. DoneRows' = was \o said
    <3>1. DoneRows' = FlattenSeq(DoneSeq(jobs'))
      BY Zenon DEF DoneRows, DoneSeq, DoneOf, Said
    <3>. QED
      BY <2>15, <2>16, <3>1
  <2>18. PICK all \in Seq(Rows) : all = Old \o was
    <3>1. Old \o was \in Seq(Rows)
      BY <2>12
    <3>. QED
      BY <3>1
  <2>19. Reflects(rows, all)
    BY <2>13, <2>18, DoneRowsAre DEF IInv, RowsKept
  <2>20. Old \o (was \o said) = all \o said
    BY <2>12, <2>13, <2>4, <2>18
  <2>21. Reflects(after, all \o said)
    <3> HIDE DEF top, new, gone, put
    <3>1. SaysTheSame(n, said)
      BY <2>5 DEF SaysTheSame
    <3>. QED
      BY <3>1, <2>6, <2>9, <2>19, WorkReplaces
  <2>22. RowsKept'
    BY <2>11, <2>17, <2>20, <2>21 DEF RowsKept
  <2>23. DoneGrows
    <3>1. DoneRows' = DoneRows \o said
      BY <2>13, <2>17, DoneRowsAre
    <3>. QED
      BY <3>1 DEF DoneGrows
  <2>. QED
    BY <2>1, <2>22, <2>23 DEF IInv
<1>8. CASE jobs' = [jobs EXCEPT ![i].status = "error"] /\ rows' = rows
  <2>1. PICK job \in JobRecords : /\ jobs' = [jobs EXCEPT ![i] = job] /\ JobsKept'
                                  /\ job.status = "error" /\ job.docs = docs
    BY <1>6, <1>8
  <2>2. DoneOf(job) = DoneOf(jobs[i])
    BY <1>3, <1>5, <2>1 DEF DoneOf
  <2>3. DoneSeq(jobs') = DoneSeq(jobs)
    BY <1>2, <2>1, <2>2, DoneSame
  <2>4. RowsKept' /\ DoneGrows
    BY <1>8, <2>3, SameRows
  <2>. QED
    BY <2>1, <2>4 DEF IInv
<1>. QED
  BY <1>1, <1>7, <1>8

\* What the invariant says of the records is all that is promised of them.
LEMMA IInvRecords == IInv => RecordsAreThePosted
<1> SUFFICES ASSUME IInv PROVE RecordsAreThePosted
  OBVIOUS
<1>1. PICK all : all = Old \o DoneRows
  OBVIOUS
<1>2. all \in Seq(Rows)
  <2>1. DoneSeq(jobs) \in Seq(Seq(Rows))
    BY DoneSeqType DEF IInv, JobsKept
  <2>2. DoneRows \in Seq(Rows)
    BY <2>1, FlattenType, DoneRowsAre
  <2>3. Old \in Seq(Rows)
    BY OldAssumption DEF Rows
  <2>. QED
    BY <1>1, <2>2, <2>3
<1>3. {r.row : r \in rows} = LastRows(all) /\ OnePerExt(rows)
  BY <1>1 DEF IInv, RowsKept, Reflects, RowsOf
<1>4. Cardinality(rows) = Cardinality(LastOf(all))
  BY <1>2, <1>3, AsManyAsLast DEF OnePerExt
<1>. QED
  BY <1>1, <1>3, <1>4, Zenon DEF RecordsAreThePosted, LastRows, LastOf

\* Every step keeps the invariant.
LEMMA NextIInv == IInv /\ [Next]_vars => IInv'
<1> SUFFICES ASSUME IInv, [Next]_vars PROVE IInv'
  OBVIOUS
<1>1. ASSUME NEW docs \in Payloads, Post(docs) PROVE IInv'
  BY <1>1, PostIInv
<1>2. CASE Tear
  BY <1>2, TearIInv
<1>3. CASE Work
  BY <1>3, WorkIInv
<1>4. ASSUME NEW q \in Questions, Ask(q) PROVE IInv'
  BY <1>4, SameIInv DEF Ask
<1>5. CASE VectorLeg
  BY <1>5, SameIInv DEF VectorLeg
<1>6. CASE TextLeg
  BY <1>6, SameIInv DEF TextLeg
<1>7. CASE Answer
  BY <1>7, SameIInv DEF Answer
<1>8. CASE Sent
  BY <1>8, SameIInv DEF Sent
<1>9. CASE UNCHANGED vars
  BY <1>9, SameIInv DEF vars
<1>. QED
  BY <1>1, <1>2, <1>3, <1>4, <1>5, <1>6, <1>7, <1>8, <1>9 DEF Next

\* Every step only adds to what is done.
LEMMA NextGrows ==
  ASSUME IInv, [Next]_vars
  PROVE  DoneGrows
<1>1. jobs' = jobs => DoneGrows
  BY DEF DoneGrows, DoneRows
<1>2. ASSUME NEW docs \in Payloads, Post(docs) PROVE DoneGrows
  BY <1>2, PostIInv
<1>3. CASE Tear
  BY <1>3, TearIInv
<1>4. CASE Work
  BY <1>4, WorkIInv
<1>. QED
  BY <1>1, <1>2, <1>3, <1>4 DEF Next, vars, Ask, VectorLeg, TextLeg, Answer, Sent

\* The rows that jobs have stored, and those that were there first.
LEMMA AllRows == IInv => Old \in Seq(Rows) /\ DoneRows \in Seq(Rows)
<1>1. Old \in Seq(Rows)
  BY OldAssumption DEF Rows
<1>2. ASSUME IInv PROVE DoneRows \in Seq(Rows)
  <2>1. DoneSeq(jobs) \in Seq(Seq(Rows))
    BY <1>2, DoneSeqType DEF IInv, JobsKept
  <2>. QED
    BY <2>1, FlattenType, DoneRowsAre
<1>. QED
  BY <1>1, <1>2

\* Each is in the range of all.
LEMMA AppendedRange ==
  ASSUME NEW s \in Seq(Rows), NEW t \in Seq(Rows), NEW u \in Seq(Rows)
  PROVE  Range(s \o t) \subseteq Range(s \o (t \o u))
<1>1. PICK all : all = s \o t
  OBVIOUS
<1>2. PICK more : more = s \o (t \o u)
  OBVIOUS
<1>3. /\ all \in Seq(Rows) /\ DOMAIN all = 1..Len(all) /\ Len(all) \in Nat
      /\ more = all \o u
  BY <1>1, <1>2
<1>4. \A i \in DOMAIN all : i \in DOMAIN more /\ more[i] = all[i]
  BY <1>3
<1>5. Range(all) \subseteq Range(more)
  BY <1>4 DEF Range
<1>. QED
  BY <1>1, <1>2, <1>5

\* What was posted stays posted, punctuation too.
LEMMA PunctuationStays ==
  ASSUME IInv, [Next]_vars, PunctuationPosted
  PROVE  PunctuationPosted'
<1>1. Old \in Seq(Rows) /\ DoneRows \in Seq(Rows)
  BY AllRows
<1>2. Range(Old \o DoneRows) \subseteq Range(Old \o DoneRows')
  <2>1. DoneGrows
    BY NextGrows
  <2>. QED
    BY <1>1, <2>1, AppendedRange DEF DoneGrows
<1>3. PICK r \in Range(Old \o DoneRows) : r.text # <<>> /\ Tokens(r.text) = <<>>
  BY DEF PunctuationPosted
<1>4. r \in Range(Old \o DoneRows')
  BY <1>2
<1>. QED
  BY <1>3, <1>4 DEF PunctuationPosted

\* A record is one of those rows.
LEMMA RowIsPosted ==
  ASSUME IInv, NEW r \in rows
  PROVE  r.row \in Range(Old \o DoneRows)
<1>1. PICK all : all = Old \o DoneRows
  OBVIOUS
<1>2. r.row \in LastRows(all)
  BY <1>1 DEF IInv, RowsKept, Reflects, RowsOf
<1>3. PICK i \in DOMAIN all : r.row = all[i]
  BY <1>2 DEF LastRows, LastOf
<1>. QED
  BY <1>1, <1>3 DEF Range

\* The records are, for each external id, what the last job that was done said of it last,
\* torn jobs among them or not (_encode_payload, _decode_payload, _payload_rows, _upsert_rows).
THEOREM RecordsAreThePostedAlways == Spec => []RecordsAreThePosted
<1>. QED
  BY InitIInv, NextIInv, IInvRecords, PTL DEF Spec

-----------------------------------------------------------------------------
\* The element a sum takes first, and what a sum is: with the rest of the set, the rest.
OneOf(t) == CHOOSE x \in t : TRUE
IsSum(f, S, g) ==
  /\ f \in [SUBSET S -> Int] /\ f[{}] = 0
  /\ \A t \in SUBSET S : t # {} => f[t] = g[OneOf(t)] + f[t \ {OneOf(t)}]

\* It is one.
LEMMA OneOfIn ==
  ASSUME NEW t, t # {}
  PROVE  OneOf(t) \in t
BY DEF OneOf

\* The finite sets that are left.
LEMMA Without ==
  ASSUME NEW S, IsFiniteSet(S), NEW t \in SUBSET S
  PROVE  /\ IsFiniteSet(t) /\ Cardinality(t) \in Nat
         /\ Cardinality(t) = 0 <=> t = {}
         /\ \A x \in t : t \ {x} \in SUBSET S /\ Cardinality(t \ {x}) = Cardinality(t) - 1
<1>1. IsFiniteSet(t) /\ Cardinality(t) \in Nat
  BY FS_Subset, FS_CardinalityType
<1>2. Cardinality(t) = 0 <=> t = {}
  BY <1>1, FS_EmptySet
<1>3. ASSUME NEW x \in t
      PROVE  t \ {x} \in SUBSET S /\ Cardinality(t \ {x}) = Cardinality(t) - 1
  BY <1>1, FS_RemoveElement
<1>. QED
  BY <1>1, <1>2, <1>3

\* There is a sum, by induction on how many there are.
LEMMA SumExists ==
  ASSUME NEW S, IsFiniteSet(S), NEW g \in [S -> Int]
  PROVE  \E f : IsSum(f, S, g)
<1> DEFINE Upto(k) == {t \in SUBSET S : Cardinality(t) <= k}
           Step(f, t) == IF t = {} THEN 0 ELSE g[OneOf(t)] + f[t \ {OneOf(t)}]
           Good(k, f) == \A t \in Upto(k) : f[t] = Step(f, t)
           Some(k) == \E f \in [Upto(k) -> Int] : Good(k, f)
           K == {k \in Nat : Some(k)}
<1>1. 0 \in K
  <2>1. ASSUME NEW t \in Upto(0)
        PROVE  t = {}
    <3>1. Cardinality(t) \in Nat /\ Cardinality(t) <= 0
      BY Without
    <3>. QED
      BY <3>1, Without
  <2>2. [t \in Upto(0) |-> 0] \in [Upto(0) -> Int] /\ Good(0, [t \in Upto(0) |-> 0])
    BY <2>1
  <2>3. Some(0)
    <3> HIDE DEF Good, Upto
    <3>. QED
      BY <2>2
  <2> HIDE DEF Some
  <2>. QED
    BY <2>3
<1>2. ASSUME NEW k \in Nat, k \in K
      PROVE  k + 1 \in K
  <2>1. PICK f \in [Upto(k) -> Int] : Good(k, f)
    BY <1>2
  <2> DEFINE h == [t \in Upto(k + 1) |-> IF t \in Upto(k) THEN f[t] ELSE Step(f, t)]
  <2>2. ASSUME NEW t \in Upto(k + 1), t # {}
        PROVE  t \ {OneOf(t)} \in Upto(k) /\ OneOf(t) \in S
    <3>1. OneOf(t) \in t /\ t \in SUBSET S
      BY <2>2, OneOfIn
    <3>2. Cardinality(t \ {OneOf(t)}) = Cardinality(t) - 1 /\ Cardinality(t) \in Nat
      BY <3>1, Without
    <3>. QED
      BY <3>1, <3>2
  <2>3. ASSUME NEW t \in Upto(k + 1)
        PROVE  Step(f, t) \in Int
    <3>1. CASE t = {}
      BY <3>1
    <3>2. CASE t # {}
      <4>1. t \ {OneOf(t)} \in Upto(k) /\ OneOf(t) \in S
        BY <2>2, <3>2
      <4>2. f[t \ {OneOf(t)}] \in Int /\ g[OneOf(t)] \in Int
        <5> HIDE DEF Upto
        <5>. QED
          BY <4>1
      <4>. QED
        BY <3>2, <4>2
    <3>. QED
      BY <3>1, <3>2
  <2>4. h \in [Upto(k + 1) -> Int]
    <3> HIDE DEF Upto, Step
    <3>. QED
      BY <2>3
  <2>5. ASSUME NEW t \in Upto(k + 1)
        PROVE  h[t] = Step(h, t)
    <3>1. h[t] = Step(f, t)
      <4>1. t \in Upto(k) => f[t] = Step(f, t)
        BY <2>1
      <4> HIDE DEF Upto, Step
      <4>. QED
        BY <4>1
    <3>2. CASE t = {}
      BY <3>1, <3>2
    <3>3. CASE t # {}
      <4>1. t \ {OneOf(t)} \in Upto(k)
        BY <2>2, <3>3
      <4>2. t \ {OneOf(t)} \in Upto(k + 1)
        <5>1. Cardinality(t \ {OneOf(t)}) \in Nat
          BY <4>1, Without
        <5>. QED
          BY <4>1, <5>1
      <4>3. h[t \ {OneOf(t)}] = f[t \ {OneOf(t)}]
        <5> HIDE DEF Upto, Step
        <5>. QED
          BY <4>1, <4>2
      <4> HIDE DEF h
      <4>. QED
        BY <3>1, <3>3, <4>3
    <3>. QED
      BY <3>2, <3>3
  <2>6. Good(k + 1, h)
    <3> HIDE DEF h, Step, Upto
    <3>. QED
      BY <2>5
  <2>7. Some(k + 1)
    <3> HIDE DEF h, Good, Upto
    <3>. QED
      BY <2>4, <2>6
  <2> HIDE DEF Some
  <2>. QED
    BY <2>7
<1>3. Nat \subseteq K
  <2> HIDE DEF K
  <2>. QED
    BY <1>1, <1>2, Reached
<1>4. PICK n \in Nat : n = Cardinality(S)
  BY FS_CardinalityType
<1>5. Upto(n) = SUBSET S
  BY <1>4, FS_Subset
<1>6. Some(n)
  <2> HIDE DEF Some
  <2>. QED
    BY <1>3
<1>7. PICK f \in [SUBSET S -> Int] : \A t \in SUBSET S : f[t] = Step(f, t)
  <2> HIDE DEF Upto, Step
  <2>. QED
    BY <1>5, <1>6
<1>8. f[{}] = 0
  BY <1>7
<1>9. IsSum(f, S, g)
  BY <1>7, <1>8 DEF IsSum
<1>. QED
  BY <1>9

\* Any element may be taken first.
LEMMA SumTakes ==
  ASSUME NEW S, IsFiniteSet(S), NEW g \in [S -> Int], NEW f, IsSum(f, S, g),
         NEW t \in SUBSET S, NEW x \in t
  PROVE  f[t] = g[x] + f[t \ {x}]
<1> DEFINE Either(u) == \A y \in u : f[u] = g[y] + f[u \ {y}]
           K == {k \in Nat : \A u \in SUBSET S : Cardinality(u) <= k => Either(u)}
<1>1. 0 \in K
  <2>1. ASSUME NEW u \in SUBSET S, Cardinality(u) <= 0
        PROVE  Either(u)
    <3>1. u = {}
      BY <2>1, Without
    <3>. QED
      BY <3>1
  <2>. QED
    BY <2>1
<1>2. ASSUME NEW k \in Nat, k \in K
      PROVE  k + 1 \in K
  <2> SUFFICES ASSUME NEW u \in SUBSET S, Cardinality(u) <= k + 1, NEW y \in u
               PROVE  f[u] = g[y] + f[u \ {y}]
    OBVIOUS
  <2>1. PICK z \in u : z = OneOf(u)
    BY OneOfIn
  <2>2. f[u] = g[z] + f[u \ {z}]
    BY <2>1 DEF IsSum
  <2>3. CASE y = z
    BY <2>2, <2>3
  <2>4. CASE y # z
    <3>1. PICK v \in SUBSET S : v = u \ {z}
      OBVIOUS
    <3>2. PICK w \in SUBSET S : w = u \ {y}
      OBVIOUS
    <3>3. Cardinality(v) <= k /\ Cardinality(w) <= k
      <4>1. /\ Cardinality(u \ {z}) = Cardinality(u) - 1 /\ Cardinality(u) \in Nat
            /\ Cardinality(u \ {y}) = Cardinality(u) - 1
        BY Without
      <4>. QED
        BY <4>1, <3>1, <3>2, <1>2
    <3>4. y \in v /\ z \in w
      BY <2>4, <3>1, <3>2
    <3>5. f[v] = g[y] + f[v \ {y}] /\ f[w] = g[z] + f[w \ {z}]
      BY <1>2, <3>3, <3>4
    <3>6. PICK r \in SUBSET S : r = v \ {y} /\ r = w \ {z}
      BY <3>1, <3>2
    <3>7. f[r] \in Int /\ g[y] \in Int /\ g[z] \in Int
      BY DEF IsSum
    <3>8. f[u] = g[z] + f[v] /\ f[v] = g[y] + f[r] /\ f[w] = g[z] + f[r]
      BY <2>2, <3>1, <3>5, <3>6
    <3>9. f[u] = g[y] + f[w]
      BY <3>7, <3>8
    <3>. QED
      BY <3>2, <3>9
  <2>. QED
    BY <2>3, <2>4
<1>3. Nat \subseteq K
  <2> HIDE DEF K
  <2>. QED
    BY <1>1, <1>2, Reached
<1>4. PICK n \in Nat : n = Cardinality(t)
  BY Without
<1>5. Either(t)
  <2>1. n \in K /\ Cardinality(t) <= n
    BY <1>3, <1>4
  <2>. QED
    BY <2>1
<1>. QED
  BY <1>5

\* Two sums of the same numbers under other names.
Renames(b, S, g, T, h) ==
  /\ \A x \in S : b[x] \in T /\ h[b[x]] = g[x]
  /\ \A x, y \in S : b[x] = b[y] => x = y
  /\ \A z \in T : \E x \in S : b[x] = z

\* They are equal.
LEMMA SumRenamed ==
  ASSUME NEW S, IsFiniteSet(S), NEW g \in [S -> Int], NEW f, IsSum(f, S, g),
         NEW T, IsFiniteSet(T), NEW h \in [T -> Int], NEW e, IsSum(e, T, h),
         NEW b, Renames(b, S, g, T, h)
  PROVE  f[S] = e[T]
<1> DEFINE Img(u) == {b[x] : x \in u}
           K == {k \in Nat : \A u \in SUBSET S : Cardinality(u) = k => f[u] = e[Img(u)]}
<1>1. 0 \in K
  <2>1. ASSUME NEW u \in SUBSET S, Cardinality(u) = 0
        PROVE  f[u] = e[Img(u)]
    <3>1. u = {} /\ Img(u) = {}
      BY <2>1, Without
    <3>. QED
      BY <3>1 DEF IsSum
  <2>. QED
    BY <2>1
<1>2. ASSUME NEW k \in Nat, k \in K
      PROVE  k + 1 \in K
  <2> SUFFICES ASSUME NEW u \in SUBSET S, Cardinality(u) = k + 1
               PROVE  f[u] = e[Img(u)]
    OBVIOUS
  <2>1. PICK x \in u : TRUE
    <3>1. Cardinality(u) # 0
      BY <1>2
    <3>. QED
      BY <3>1, Without
  <2>2. f[u] = g[x] + f[u \ {x}]
    BY SumTakes
  <2>3. Img(u) \in SUBSET T /\ b[x] \in Img(u)
    BY DEF Renames
  <2>4. e[Img(u)] = h[b[x]] + e[Img(u) \ {b[x]}]
    <3>1. PICK v \in SUBSET T : v = Img(u)
      BY <2>3
    <3>2. PICK z \in v : z = b[x]
      BY <2>3, <3>1
    <3>3. e[v] = h[z] + e[v \ {z}]
      BY SumTakes
    <3>. QED
      BY <3>1, <3>2, <3>3
  <2>5. Img(u) \ {b[x]} = Img(u \ {x})
    BY DEF Renames
  <2>6. Cardinality(u \ {x}) = k /\ u \ {x} \in SUBSET S
    <3>1. Cardinality(u \ {x}) = Cardinality(u) - 1
      BY Without
    <3>. QED
      BY <3>1
  <2>7. f[u \ {x}] = e[Img(u \ {x})]
    BY <1>2, <2>6
  <2>8. h[b[x]] = g[x]
    BY DEF Renames
  <2> HIDE DEF Img
  <2>. QED
    BY <2>2, <2>4, <2>5, <2>7, <2>8
<1>3. Nat \subseteq K
  <2> HIDE DEF K
  <2>. QED
    BY <1>1, <1>2, Reached
<1>4. PICK n \in Nat : n = Cardinality(S)
  BY Without
<1>5. f[S] = e[Img(S)]
  <2>1. n \in K
    BY <1>3
  <2>. QED
    BY <1>4, <2>1
<1>6. Img(S) = T
  BY DEF Renames
<1>. QED
  BY <1>5, <1>6

-----------------------------------------------------------------------------
\* SumFunction is such a sum.
LEMMA SumFunctionIs ==
  ASSUME NEW S, IsFiniteSet(S), NEW g \in [S -> Int]
  PROVE  \E f : IsSum(f, S, g) /\ SumFunction(g) = f[S]
<1> DEFINE Step(f, t) == IF t = {} THEN 0 ELSE g[OneOf(t)] + f[t \ {OneOf(t)}]
           f == CHOOSE f : f = [t \in SUBSET S |-> Step(f, t)]
<1>1. DOMAIN g = S
  OBVIOUS
<1>2. SumFunction(g) = f[S]
  BY <1>1 DEF SumFunction, SumFunctionOnSet, FoldFunctionOnSet, MapThenFoldSet, OneOf
<1>3. PICK h : IsSum(h, S, g)
  BY SumExists
<1>4. h = [t \in SUBSET S |-> Step(h, t)]
  BY <1>3 DEF IsSum
<1>5. f = [t \in SUBSET S |-> Step(f, t)]
  <2> HIDE DEF Step
  <2>. QED
    BY <1>4
<1>6. h \in [SUBSET S -> Int]
  BY <1>3 DEF IsSum
<1> HIDE DEF f
<1>7. f[{}] = 0 /\ \A t \in SUBSET S : t # {} => f[t] = g[OneOf(t)] + f[t \ {OneOf(t)}]
  <2>1. ASSUME NEW t \in SUBSET S
        PROVE  f[t] = Step(f, t)
    <3> HIDE DEF Step
    <3>. QED
      BY <1>5
  <2>2. {} \in SUBSET S
    OBVIOUS
  <2>. QED
    BY <2>1, <2>2
<1>8. f \in [SUBSET S -> Int]
  <2> DEFINE K == {k \in Nat : \A t \in SUBSET S : Cardinality(t) <= k => f[t] \in Int}
  <2>1. 0 \in K
    <3>1. ASSUME NEW t \in SUBSET S, Cardinality(t) <= 0
          PROVE  f[t] \in Int
      <4>1. t = {}
        BY <3>1, Without
      <4>. QED
        BY <4>1, <1>7
    <3>. QED
      BY <3>1
  <2>2. ASSUME NEW k \in Nat, k \in K
        PROVE  k + 1 \in K
    <3> SUFFICES ASSUME NEW t \in SUBSET S, Cardinality(t) <= k + 1
                 PROVE  f[t] \in Int
      OBVIOUS
    <3>1. CASE t = {}
      BY <1>7, <3>1
    <3>2. CASE t # {}
      <4>1. PICK x \in t : x = OneOf(t)
        BY <3>2, OneOfIn
      <4>2. PICK u \in SUBSET S : u = t \ {x}
        OBVIOUS
      <4>3. Cardinality(u) <= k
        <5>1. Cardinality(t \ {x}) = Cardinality(t) - 1 /\ Cardinality(t) \in Nat
          BY Without
        <5>. QED
          BY <4>2, <5>1
      <4>4. f[u] \in Int /\ g[x] \in Int
        BY <2>2, <4>3
      <4>5. f[t] = g[x] + f[u]
        BY <1>7, <3>2, <4>1, <4>2
      <4>. QED
        BY <4>4, <4>5
    <3>. QED
      BY <3>1, <3>2
  <2>3. Nat \subseteq K
    <3> HIDE DEF K
    <3>. QED
      BY <2>1, <2>2, Reached
  <2>4. ASSUME NEW t \in SUBSET S
        PROVE  f[t] \in Int
    <3>1. PICK n \in Nat : n = Cardinality(t)
      BY Without
    <3>2. n \in K /\ Cardinality(t) <= n
      BY <2>3, <3>1
    <3>. QED
      BY <3>2
  <2> HIDE DEF Step
  <2>. QED
    BY <1>5, <2>4
<1>9. IsSum(f, S, g)
  BY <1>7, <1>8 DEF IsSum
<1>. QED
  BY <1>2, <1>9

\* Sums of the same numbers under other names are the same.
LEMMA SumsAreAlike ==
  ASSUME NEW S, IsFiniteSet(S), NEW g \in [S -> Int],
         NEW T, IsFiniteSet(T), NEW h \in [T -> Int], NEW b, Renames(b, S, g, T, h)
  PROVE  SumFunction(g) = SumFunction(h)
<1>1. PICK f : IsSum(f, S, g) /\ SumFunction(g) = f[S]
  BY SumFunctionIs
<1>2. PICK e : IsSum(e, T, h) /\ SumFunction(h) = e[T]
  BY SumFunctionIs
<1>3. f[S] = e[T]
  BY <1>1, <1>2, SumRenamed
<1>. QED
  BY <1>1, <1>2, <1>3

\* What no element is negative of is not, either.
LEMMA SumIsNat ==
  ASSUME NEW S, IsFiniteSet(S), NEW g \in [S -> Nat]
  PROVE  SumFunction(g) \in Nat
<1>1. PICK f : IsSum(f, S, g) /\ SumFunction(g) = f[S]
  <2>1. g \in [S -> Int]
    OBVIOUS
  <2>. QED
    BY <2>1, SumFunctionIs
<1> DEFINE K == {k \in Nat : \A t \in SUBSET S : Cardinality(t) <= k => f[t] \in Nat}
<1>2. 0 \in K
  <2>1. ASSUME NEW t \in SUBSET S, Cardinality(t) <= 0
        PROVE  f[t] \in Nat
    <3>1. t = {}
      BY <2>1, Without
    <3>. QED
      BY <3>1, <1>1 DEF IsSum
  <2>. QED
    BY <2>1
<1>3. ASSUME NEW k \in Nat, k \in K
      PROVE  k + 1 \in K
  <2> SUFFICES ASSUME NEW t \in SUBSET S, Cardinality(t) <= k + 1
               PROVE  f[t] \in Nat
    OBVIOUS
  <2>1. CASE t = {}
    BY <1>1, <2>1 DEF IsSum
  <2>2. CASE t # {}
    <3>1. PICK x \in t : x = OneOf(t)
      BY <2>2, OneOfIn
    <3>2. PICK u \in SUBSET S : u = t \ {x}
      OBVIOUS
    <3>3. Cardinality(u) <= k
      <4>1. Cardinality(t \ {x}) = Cardinality(t) - 1 /\ Cardinality(t) \in Nat
        BY Without
      <4>. QED
        BY <3>2, <4>1
    <3>4. f[u] \in Nat /\ g[x] \in Nat
      BY <1>3, <3>3
    <3>5. f[t] = g[x] + f[u]
      BY <1>1, <2>2, <3>1, <3>2 DEF IsSum
    <3>. QED
      BY <3>4, <3>5
  <2>. QED
    BY <2>1, <2>2
<1>4. Nat \subseteq K
  <2> HIDE DEF K
  <2>. QED
    BY <1>2, <1>3, Reached
<1>5. PICK n \in Nat : n = Cardinality(S)
  BY Without
<1>6. n \in K /\ Cardinality(S) <= n
  BY <1>4, <1>5
<1>. QED
  BY <1>1, <1>6

-----------------------------------------------------------------------------
\* One step of Distinct.
Distinct1(acc, x) == IF Contains(acc, x) THEN acc ELSE Append(acc, x)

\* The elements of a sequence, one after the other.
LEMMA DistinctSteps ==
  ASSUME NEW R, NEW s \in Seq(R)
  PROVE  \E g \in [0..Len(s) -> Seq(R)] :
           /\ g[0] = <<>> /\ g[Len(s)] = Distinct(s)
           /\ \A i \in 1..Len(s) : g[i] = Distinct1(g[i - 1], s[i])
<1> DEFINE n == Len(s)
           V == Seq(R)
           base == <<>>
           Step(f, t) == IF t = {} THEN base ELSE Distinct1(f[t \ {Max(t)}], s[Max(t)])
           G == [i \in 1..n |-> [v \in V |-> Distinct1(v, s[i])]]
           f == CHOOSE f : f = [t \in SUBSET DOMAIN s |-> Step(f, t)]
<1>1. n \in Nat /\ DOMAIN s = 1..n
  OBVIOUS
<1>2. base \in V
  OBVIOUS
<1>3. ASSUME NEW v \in V, NEW i \in 1..n
      PROVE  Distinct1(v, s[i]) \in V
  BY <1>3 DEF Distinct1
<1>4. G \in [1..n -> [V -> V]]
  <2> HIDE DEF V
  <2>1. ASSUME NEW i \in 1..n
        PROVE  [v \in V |-> Distinct1(v, s[i])] \in [V -> V]
    BY <1>3
  <2> HIDE DEF n
  <2>. QED
    BY <2>1
<1>5. Distinct(s) = f[1..n]
  BY <1>1 DEF FoldLeft, MapThenFoldSet, Distinct, Distinct1
<1>6. PICK h \in [SUBSET (1..n) -> V] : IsFold(h, n, base, G)
  <2> HIDE DEF n, V, base, G
  <2>. QED
    BY <1>1, <1>2, <1>4, FoldExists
<1>7. ASSUME NEW t \in SUBSET (1..n)
      PROVE  h[t] = Step(h, t)
  <2> HIDE DEF n, V, base
  <2>1. CASE t = {}
    BY <1>6, <2>1 DEF IsFold
  <2>2. CASE t # {}
    <3>1. Max(t) \in 1..n
      BY <1>1, <2>2, MaxOf
    <3>2. h[t \ {Max(t)}] \in V
      OBVIOUS
    <3>3. h[t] = G[Max(t)][h[t \ {Max(t)}]]
      BY <1>6, <2>2 DEF IsFold
    <3>. QED
      BY <2>2, <3>1, <3>2, <3>3
  <2>. QED
    BY <2>1, <2>2
<1>8. f = [t \in SUBSET (1..n) |-> Step(f, t)]
  <2> HIDE DEF Step, n, V, base
  <2>1. h = [t \in SUBSET DOMAIN s |-> Step(h, t)]
    BY <1>1, <1>7
  <2>. QED
    BY <1>1, <2>1
<1> HIDE DEF f
<1>9. f[{}] = base
  <2> HIDE DEF base, n
  <2>. QED
    BY <1>8
<1>10. ASSUME NEW i \in 1..n, f[1..(i - 1)] \in V
       PROVE  f[1..i] = G[i][f[1..(i - 1)]]
  <2> HIDE DEF n, V, base
  <2>1. Max(1..i) = i /\ (1..i) \ {i} = 1..(i - 1) /\ 1..i # {} /\ 1..i \in SUBSET (1..n)
    BY <1>1, MaxUpTo
  <2>2. f[1..i] = Step(f, 1..i)
    <3> HIDE DEF Step
    <3>. QED
      BY <1>8, <2>1
  <2>3. f[1..i] = Distinct1(f[1..(i - 1)], s[i])
    BY <2>1, <2>2
  <2>. QED
    BY <1>10, <2>3
<1>11. PICK g \in [0..n -> V] : g[n] = f[1..n] /\ Steps(g, n, base, G)
  <2> HIDE DEF n, V, base, G
  <2>. QED
    BY <1>1, <1>2, <1>4, <1>9, <1>10, FoldPrefixes
<1>12. ASSUME NEW i \in 1..n
       PROVE  g[i] = Distinct1(g[i - 1], s[i])
  <2> HIDE DEF n, V, base
  <2>1. g[i - 1] \in V
    BY <1>1
  <2>2. g[i] = G[i][g[i - 1]]
    BY <1>11 DEF Steps
  <2>. QED
    BY <2>1, <2>2
<1>13. g[0] = base
  BY <1>11 DEF Steps
<1>. QED
  BY <1>5, <1>11, <1>12, <1>13, Zenon

\* Each element once.
EachOnce(s) == \A i, j \in DOMAIN s : s[i] = s[j] => i = j

\* It adds what is not there.
LEMMA DistinctAdds ==
  ASSUME NEW R, NEW q \in Seq(R), NEW x \in R, EachOnce(q)
  PROVE  Range(Distinct1(q, x)) = Range(q) \cup {x} /\ EachOnce(Distinct1(q, x))
<1>1. CASE Contains(q, x)
  <2>1. x \in Range(q)
    BY <1>1 DEF Contains, Range
  <2>. QED
    BY <1>1, <2>1 DEF Distinct1
<1>2. CASE ~Contains(q, x)
  <2>1. PICK n \in Nat : n = Len(q)
    OBVIOUS
  <2>2. PICK p \in Seq(R) : p = Append(q, x)
    BY AppendProperties
  <2>3. Len(p) = n + 1 /\ p[n + 1] = x /\ \A i \in 1..n : p[i] = q[i]
    BY <2>1, <2>2, AppendProperties
  <2>4. \A i \in 1..n : q[i] # x
    BY <1>2, <2>1 DEF Contains
  <2>5. DOMAIN p = 1..(n + 1) /\ DOMAIN q = 1..n
    BY <2>1, <2>3
  <2>6. Range(p) = Range(q) \cup {x}
    <3>1. 1..(n + 1) = (1..n) \cup {n + 1}
      OBVIOUS
    <3>. QED
      BY <2>3, <2>5, <3>1 DEF Range
  <2>7. EachOnce(p)
    BY <2>3, <2>4, <2>5 DEF EachOnce
  <2>. QED
    BY <1>2, <2>2, <2>6, <2>7 DEF Distinct1
<1>. QED
  BY <1>1, <1>2

\* Distinct has each element once, and all of them.
LEMMA DistinctIs ==
  ASSUME NEW R, NEW s \in Seq(R)
  PROVE  Distinct(s) \in Seq(R) /\ Range(Distinct(s)) = Range(s) /\ EachOnce(Distinct(s))
<1> DEFINE n == Len(s)
<1>1. PICK g \in [0..n -> Seq(R)] :
        /\ g[0] = <<>> /\ g[n] = Distinct(s)
        /\ \A i \in 1..n : g[i] = Distinct1(g[i - 1], s[i])
  BY DistinctSteps
<1> DEFINE Done(i) == Range(g[i]) = {s[j] : j \in 1..i} /\ EachOnce(g[i])
           I == {i \in 0..n : Done(i)}
<1>2. n \in Nat /\ DOMAIN s = 1..n
  OBVIOUS
<1>3. 0 \in I
  <2>1. 1..0 = {}
    OBVIOUS
  <2>2. Range(<<>>) = {} /\ EachOnce(<<>>)
    BY DEF Range, EachOnce
  <2>3. Done(0)
    BY <1>1, <2>1, <2>2
  <2>. QED
    BY <1>2, <2>3
<1>4. ASSUME NEW i \in 0..(n - 1), i \in I
      PROVE  i + 1 \in I
  <2>1. i + 1 \in 1..n /\ i \in 0..n /\ (i + 1) - 1 = i /\ i \in Nat /\ i + 1 \in 0..n
    BY <1>2
  <2>2. PICK q \in Seq(R) : q = g[i]
    BY <2>1
  <2>3. PICK x \in R : x = s[i + 1]
    BY <2>1
  <2>4. g[i + 1] = Distinct1(q, x)
    BY <1>1, <2>1, <2>2, <2>3
  <2>5. Range(q) = {s[j] : j \in 1..i} /\ EachOnce(q)
    BY <1>4, <2>2
  <2>6. Range(Distinct1(q, x)) = Range(q) \cup {x} /\ EachOnce(Distinct1(q, x))
    BY <2>5, DistinctAdds
  <2>7. {s[j] : j \in 1..(i + 1)} = {s[j] : j \in 1..i} \cup {x}
    <3>1. 1..(i + 1) = (1..i) \cup {i + 1}
      BY <2>1
    <3>. QED
      BY <2>3, <3>1
  <2>8. Done(i + 1)
    BY <2>4, <2>5, <2>6, <2>7
  <2>. QED
    BY <2>1, <2>8
<1>5. n \in I
  <2> HIDE DEF I, n
  <2>1. 0..n \subseteq I
    BY <1>2, <1>3, <1>4, ReachedTo
  <2>. QED
    BY <1>2, <2>1
<1>6. Done(n) /\ g[n] \in Seq(R)
  BY <1>2, <1>5
<1>. QED
  BY <1>1, <1>2, <1>6 DEF Range

-----------------------------------------------------------------------------
\* TermIx numbers the terms, and only them.
LEMMA TermIxIs ==
  ASSUME NEW R, NEW terms \in Seq(R), NEW t
  PROVE  /\ t \in Range(terms) => TermIx(terms, t) \in 1..Len(terms) /\ terms[TermIx(terms, t)] = t
         /\ t \notin Range(terms) => TermIx(terms, t) = 0
<1>1. Contains(terms, t) <=> t \in Range(terms)
  BY DEF Contains, Range
<1>2. CASE Contains(terms, t)
  <2>1. \E i \in DOMAIN terms : terms[i] = t
    BY <1>2 DEF Contains
  <2>2. TermIx(terms, t) = CHOOSE i \in DOMAIN terms : terms[i] = t
    BY <1>2 DEF TermIx
  <2>. QED
    BY <1>1, <1>2, <2>1, <2>2
<1>3. CASE ~Contains(terms, t)
  BY <1>1, <1>3 DEF TermIx
<1>. QED
  BY <1>2, <1>3

\* Counts of some of S.
Counts(S) == UNION {[d -> Nat] : d \in SUBSET S}

\* None.
LEMMA NoCountsIs == ASSUME NEW S PROVE NoCounts \in Counts(S) /\ DOMAIN NoCounts = {}
<1>1. NoCounts \in [{} -> Nat]
  BY DEF NoCounts
<1>2. {} \in SUBSET S
  OBVIOUS
<1>. QED
  BY <1>1, <1>2 DEF Counts

\* p is f with one more at x.
OneMore(p, f, x) ==
  /\ DOMAIN p = DOMAIN f \cup {x}
  /\ p[x] = (IF x \in DOMAIN f THEN f[x] ELSE 0) + 1
  /\ \A y \in DOMAIN f : y # x => p[y] = f[y]

\* Plus counts one more.
LEMMA PlusIs ==
  ASSUME NEW S, NEW f \in Counts(S), NEW x \in S
  PROVE  Plus(f, x, 1) \in Counts(S) /\ OneMore(Plus(f, x, 1), f, x)
<1>1. PICK d \in SUBSET S : f \in [d -> Nat]
  BY DEF Counts
<1>2. PICK p : p = Plus(f, x, 1)
  OBVIOUS
<1>3. p = [y \in d \cup {x} |-> (IF y \in d THEN f[y] ELSE 0) + (IF y = x THEN 1 ELSE 0)]
  BY <1>1, <1>2 DEF Plus
<1>4. \A y \in d : f[y] \in Nat
  BY <1>1
<1>5. p \in [d \cup {x} -> Nat]
  BY <1>3, <1>4
<1>6. d \cup {x} \in SUBSET S
  OBVIOUS
<1>7. p \in Counts(S)
  BY <1>5, <1>6 DEF Counts
<1>8. p[x] = (IF x \in d THEN f[x] ELSE 0) + 1
  BY <1>3, <1>4
<1>9. \A y \in d : y # x => p[y] = f[y]
  BY <1>3, <1>4
<1>10. DOMAIN f = d /\ DOMAIN p = d \cup {x}
  BY <1>1, <1>3
<1>11. OneMore(p, f, x)
  BY <1>8, <1>9, <1>10 DEF OneMore
<1>. QED
  BY <1>2, <1>7, <1>11

\* How often x is among the first k.
CountIn(us, x, k) == Cardinality({j \in 1..k : us[j] = x})

\* Each place adds one or none.
LEMMA CountInIs ==
  ASSUME NEW us, NEW x, NEW k \in Nat
  PROVE  /\ CountIn(us, x, k) \in Nat
         /\ CountIn(us, x, k) > 0 <=> \E j \in 1..k : us[j] = x
         /\ CountIn(us, x, k + 1) = CountIn(us, x, k) + (IF us[k + 1] = x THEN 1 ELSE 0)
<1> DEFINE J(m) == {j \in 1..m : us[j] = x}
<1>1. IsFiniteSet(J(k))
  <2>1. IsFiniteSet(1..k) /\ J(k) \in SUBSET (1..k)
    BY FS_Interval
  <2>. QED
    BY <2>1, FS_Subset
<1>2. Cardinality(J(k)) \in Nat /\ (Cardinality(J(k)) = 0 <=> J(k) = {})
  <2> HIDE DEF J
  <2>. QED
    BY <1>1, FS_CardinalityType, FS_EmptySet
<1>3. k + 1 \notin J(k)
  OBVIOUS
<1>4. CountIn(us, x, k) = Cardinality(J(k)) /\ CountIn(us, x, k + 1) = Cardinality(J(k + 1))
  BY Zenon DEF CountIn
<1>5. (\E j \in 1..k : us[j] = x) <=> J(k) # {}
  OBVIOUS
<1>6. CASE us[k + 1] = x
  <2>1. J(k + 1) = J(k) \cup {k + 1}
    BY <1>6
  <2> HIDE DEF J
  <2>2. Cardinality(J(k) \cup {k + 1}) = Cardinality(J(k)) + 1
    BY <1>1, <1>3, FS_AddElement
  <2>. QED
    BY <1>2, <1>4, <1>5, <1>6, <2>1, <2>2
<1>7. CASE us[k + 1] # x
  <2>1. J(k + 1) = J(k)
    BY <1>7
  <2> HIDE DEF J
  <2>. QED
    BY <1>2, <1>4, <1>5, <1>7, <2>1
<1>. QED
  BY <1>6, <1>7

\* f counts those of S among the first k.
Tally(f, us, S, k) ==
  DOMAIN f = {us[j] : j \in 1..k} \cap S /\ \A x \in DOMAIN f : f[x] = CountIn(us, x, k)

\* At first.
LEMMA TallyNone ==
  ASSUME NEW us, NEW S
  PROVE  Tally(NoCounts, us, S, 0)
<1>1. 1..0 = {}
  OBVIOUS
<1>. QED
  BY <1>1, NoCountsIs DEF Tally

\* And with one place more.
LEMMA TallyNext ==
  ASSUME NEW us, NEW S, NEW k \in Nat, NEW f \in Counts(S), Tally(f, us, S, k)
  PROVE  Tally(IF us[k + 1] \in S THEN Plus(f, us[k + 1], 1) ELSE f, us, S, k + 1)
<1> DEFINE x == us[k + 1]
<1>1. {us[j] : j \in 1..(k + 1)} = {us[j] : j \in 1..k} \cup {x}
  <2>1. 1..(k + 1) = (1..k) \cup {k + 1}
    OBVIOUS
  <2>. QED
    BY <2>1
<1>2. DOMAIN f = {us[j] : j \in 1..k} \cap S
  BY DEF Tally
<1>3. CASE x \notin S
  <2>1. DOMAIN f = {us[j] : j \in 1..(k + 1)} \cap S
    BY <1>1, <1>2, <1>3
  <2>2. ASSUME NEW y \in DOMAIN f
        PROVE  f[y] = CountIn(us, y, k + 1)
    <3>1. y # us[k + 1]
      BY <1>2, <1>3
    <3>2. CountIn(us, y, k + 1) = CountIn(us, y, k) + (IF us[k + 1] = y THEN 1 ELSE 0)
          /\ CountIn(us, y, k) \in Nat
      BY CountInIs
    <3>3. f[y] = CountIn(us, y, k)
      BY DEF Tally
    <3>. QED
      BY <3>1, <3>2, <3>3
  <2>. QED
    BY <1>3, <2>1, <2>2 DEF Tally
<1>4. CASE x \in S
  <2>1. PICK z \in S : z = x
    BY <1>4
  <2>2. PICK p : p = Plus(f, z, 1)
    OBVIOUS
  <2>3. /\ DOMAIN p = DOMAIN f \cup {z}
        /\ p[z] = (IF z \in DOMAIN f THEN f[z] ELSE 0) + 1
        /\ \A y \in DOMAIN f : y # z => p[y] = f[y]
    <3>1. OneMore(Plus(f, z, 1), f, z)
      BY PlusIs
    <3>. QED
      BY <2>2, <3>1 DEF OneMore
  <2>4. DOMAIN p = {us[j] : j \in 1..(k + 1)} \cap S
    BY <1>1, <1>2, <2>1, <2>3
  <2>5. ASSUME NEW y \in DOMAIN p
        PROVE  p[y] = CountIn(us, y, k + 1)
    <3>1. CountIn(us, y, k + 1) = CountIn(us, y, k) + (IF us[k + 1] = y THEN 1 ELSE 0)
          /\ CountIn(us, y, k) \in Nat
          /\ (CountIn(us, y, k) > 0 <=> \E j \in 1..k : us[j] = y)
      BY CountInIs
    <3>2. y \in DOMAIN f => f[y] = CountIn(us, y, k)
      BY DEF Tally
    <3>3. CASE y # z
      BY <2>1, <2>3, <3>1, <3>2, <3>3
    <3>4. CASE y = z /\ z \in DOMAIN f
      BY <2>1, <2>3, <3>1, <3>2, <3>4
    <3>5. CASE y = z /\ z \notin DOMAIN f
      <4>1. ~\E j \in 1..k : us[j] = y
        BY <1>2, <3>5
      <4>2. CountIn(us, y, k) = 0
        BY <3>1, <4>1
      <4>. QED
        BY <2>1, <2>3, <3>1, <3>5, <4>2
    <3>. QED
      BY <3>3, <3>4, <3>5
  <2>6. Tally(p, us, S, k + 1)
    BY <2>4, <2>5 DEF Tally
  <2>. QED
    BY <1>4, <2>1, <2>2, <2>6
<1>. QED
  BY <1>3, <1>4

\* What the pass over the tokens carries along.
Passes(isPair) == [dl : Nat, prev : Nat, tf : Counts(Nat \ {0}), tf2 : Counts(isPair)]

\* One token, field by field.
LEMMA OnTokenIs ==
  ASSUME NEW isPair, NEW acc \in Passes(isPair), NEW cur \in Nat
  PROVE  /\ OnToken(acc, cur, isPair) \in Passes(isPair)
         /\ OnToken(acc, cur, isPair).dl = acc.dl + 1
         /\ OnToken(acc, cur, isPair).prev = cur
         /\ OnToken(acc, cur, isPair).tf = IF cur \in Nat \ {0} THEN Plus(acc.tf, cur, 1) ELSE acc.tf
         /\ OnToken(acc, cur, isPair).tf2 = IF <<acc.prev, cur>> \in isPair
                                            THEN Plus(acc.tf2, <<acc.prev, cur>>, 1) ELSE acc.tf2
<1>1. PICK dl \in Nat, prev \in Nat, tf \in Counts(Nat \ {0}), tf2 \in Counts(isPair) :
        acc = [dl |-> dl, prev |-> prev, tf |-> tf, tf2 |-> tf2]
  BY DEF Passes
<1>2. PICK tf1 : tf1 = IF cur \in Nat \ {0} THEN Plus(tf, cur, 1) ELSE tf
  OBVIOUS
<1>3. PICK tf3 : tf3 = IF <<prev, cur>> \in isPair THEN Plus(tf2, <<prev, cur>>, 1) ELSE tf2
  OBVIOUS
<1>4. tf1 \in Counts(Nat \ {0}) /\ tf3 \in Counts(isPair)
  BY <1>2, <1>3, PlusIs
<1>5. PICK x : x = [dl |-> dl + 1, prev |-> cur, tf |-> tf1, tf2 |-> tf3]
  OBVIOUS
<1>6. cur # 0 <=> cur \in Nat \ {0}
  OBVIOUS
<1>7. OnToken(acc, cur, isPair) = x
  <2>1. acc.dl = dl /\ acc.prev = prev /\ acc.tf = tf /\ acc.tf2 = tf2
    BY <1>1
  <2>. QED
    BY <1>2, <1>3, <1>5, <1>6, <2>1 DEF OnToken
<1>8. x \in Passes(isPair)
  BY <1>4, <1>5 DEF Passes
<1>9. acc.dl = dl /\ acc.prev = prev /\ acc.tf = tf /\ acc.tf2 = tf2
  BY <1>1
<1>10. x.dl = dl + 1 /\ x.prev = cur /\ x.tf = tf1 /\ x.tf2 = tf3
  BY <1>5
<1>. QED
  BY <1>2, <1>3, <1>7, <1>8, <1>9, <1>10

\* At first nothing is counted.
LEMMA NotYetIs == ASSUME NEW isPair PROVE NotYet \in Passes(isPair)
<1>1. NoCounts \in Counts(Nat \ {0}) /\ NoCounts \in Counts(isPair)
  BY NoCountsIs
<1>. QED
  BY <1>1 DEF NotYet, Passes

\* The tokens of a text, one after the other.
LEMMA CountedSteps ==
  ASSUME NEW isPair, NEW s \in Seq(Nat)
  PROVE  \E g \in [0..Len(s) -> Passes(isPair)] :
           /\ g[0] = NotYet /\ g[Len(s)] = Counted(isPair, s)
           /\ \A i \in 1..Len(s) : g[i] = OnToken(g[i - 1], s[i], isPair)
<1> DEFINE n == Len(s)
           V == Passes(isPair)
           base == NotYet
           Step(f, t) == IF t = {} THEN base ELSE OnToken(f[t \ {Max(t)}], s[Max(t)], isPair)
           G == [i \in 1..n |-> [v \in V |-> OnToken(v, s[i], isPair)]]
           f == CHOOSE f : f = [t \in SUBSET DOMAIN s |-> Step(f, t)]
<1>1. n \in Nat /\ DOMAIN s = 1..n
  OBVIOUS
<1>2. base \in V
  BY NotYetIs
<1>3. ASSUME NEW v \in V, NEW i \in 1..n
      PROVE  OnToken(v, s[i], isPair) \in V
  <2>1. PICK cur \in Nat, acc \in Passes(isPair) : cur = s[i] /\ acc = v
    BY <1>3
  <2>2. OnToken(acc, cur, isPair) \in Passes(isPair)
    BY OnTokenIs
  <2>. QED
    BY <2>1, <2>2
<1>4. G \in [1..n -> [V -> V]]
  <2> HIDE DEF V
  <2>1. ASSUME NEW i \in 1..n
        PROVE  [v \in V |-> OnToken(v, s[i], isPair)] \in [V -> V]
    BY <1>3
  <2> HIDE DEF n
  <2>. QED
    BY <2>1
<1>5. Counted(isPair, s) = f[1..n]
  BY <1>1 DEF FoldLeft, MapThenFoldSet, Counted
<1>6. PICK h \in [SUBSET (1..n) -> V] : IsFold(h, n, base, G)
  <2> HIDE DEF n, V, base, G
  <2>. QED
    BY <1>1, <1>2, <1>4, FoldExists
<1>7. ASSUME NEW t \in SUBSET (1..n)
      PROVE  h[t] = Step(h, t)
  <2> HIDE DEF n, V, base
  <2>1. CASE t = {}
    BY <1>6, <2>1 DEF IsFold
  <2>2. CASE t # {}
    <3>1. Max(t) \in 1..n
      BY <1>1, <2>2, MaxOf
    <3>2. h[t \ {Max(t)}] \in V
      OBVIOUS
    <3>3. h[t] = G[Max(t)][h[t \ {Max(t)}]]
      BY <1>6, <2>2 DEF IsFold
    <3>. QED
      BY <2>2, <3>1, <3>2, <3>3
  <2>. QED
    BY <2>1, <2>2
<1>8. f = [t \in SUBSET (1..n) |-> Step(f, t)]
  <2> HIDE DEF Step, n, V, base
  <2>1. h = [t \in SUBSET DOMAIN s |-> Step(h, t)]
    BY <1>1, <1>7
  <2>. QED
    BY <1>1, <2>1
<1> HIDE DEF f
<1>9. f[{}] = base
  <2> HIDE DEF base, n
  <2>. QED
    BY <1>8
<1>10. ASSUME NEW i \in 1..n, f[1..(i - 1)] \in V
       PROVE  f[1..i] = G[i][f[1..(i - 1)]]
  <2> HIDE DEF n, V, base
  <2>1. Max(1..i) = i /\ (1..i) \ {i} = 1..(i - 1) /\ 1..i # {} /\ 1..i \in SUBSET (1..n)
    BY <1>1, MaxUpTo
  <2>2. f[1..i] = Step(f, 1..i)
    <3> HIDE DEF Step
    <3>. QED
      BY <1>8, <2>1
  <2>3. f[1..i] = OnToken(f[1..(i - 1)], s[i], isPair)
    BY <2>1, <2>2
  <2>. QED
    BY <1>10, <2>3
<1>11. PICK g \in [0..n -> V] : g[n] = f[1..n] /\ Steps(g, n, base, G)
  <2> HIDE DEF n, V, base, G
  <2>. QED
    BY <1>1, <1>2, <1>4, <1>9, <1>10, FoldPrefixes
<1>12. ASSUME NEW i \in 1..n
       PROVE  g[i] = OnToken(g[i - 1], s[i], isPair)
  <2> HIDE DEF n, V, base
  <2>1. g[i - 1] \in V
    BY <1>1
  <2>2. g[i] = G[i][g[i - 1]]
    BY <1>11 DEF Steps
  <2>. QED
    BY <2>1, <2>2
<1>13. g[0] = base
  BY <1>11 DEF Steps
<1>. QED
  BY <1>5, <1>11, <1>12, <1>13, Zenon

\* The pairs of neighbours, and what is so of the first k tokens.
PairsIn(s) == [j \in 1..(Len(s) - 1) |-> <<s[j], s[j + 1]>>]
Passed(acc, s, isPair, k) ==
  /\ acc.dl = k /\ acc.prev = (IF k = 0 THEN 0 ELSE s[k])
  /\ Tally(acc.tf, s, Nat \ {0}, k)
  /\ Tally(acc.tf2, PairsIn(s), isPair, IF k = 0 THEN 0 ELSE k - 1)

\* The pass counts terms and pairs, each where it stands.
LEMMA CountedIs ==
  ASSUME NEW isPair \in SUBSET ((Nat \ {0}) \X (Nat \ {0})), NEW s \in Seq(Nat)
  PROVE  Counted(isPair, s) \in Passes(isPair) /\ Passed(Counted(isPair, s), s, isPair, Len(s))
<1> DEFINE n == Len(s)
<1>1. PICK g \in [0..n -> Passes(isPair)] :
        /\ g[0] = NotYet /\ g[n] = Counted(isPair, s)
        /\ \A i \in 1..n : g[i] = OnToken(g[i - 1], s[i], isPair)
  BY CountedSteps
<1> DEFINE Done(i) == Passed(g[i], s, isPair, i)
           I == {i \in 0..n : Done(i)}
<1>2. n \in Nat
  OBVIOUS
<1>3. 0 \in I
  <2>1. NotYet.dl = 0 /\ NotYet.prev = 0 /\ NotYet.tf = NoCounts /\ NotYet.tf2 = NoCounts
    BY DEF NotYet
  <2>2. Tally(NoCounts, s, Nat \ {0}, 0) /\ Tally(NoCounts, PairsIn(s), isPair, 0)
    BY TallyNone
  <2>3. Done(0)
    BY <1>1, <2>1, <2>2 DEF Passed
  <2>. QED
    BY <1>2, <2>3
<1>4. ASSUME NEW i \in 0..(n - 1), i \in I
      PROVE  i + 1 \in I
  <2>1. i + 1 \in 1..n /\ i \in 0..n /\ (i + 1) - 1 = i /\ i \in Nat /\ i + 1 \in 0..n
    BY <1>2
  <2>2. PICK q \in Passes(isPair) : q = g[i]
    BY <2>1
  <2>3. PICK x \in Nat : x = s[i + 1]
    BY <2>1
  <2>4. PICK p : p = OnToken(q, x, isPair)
    OBVIOUS
  <2>5. g[i + 1] = p
    BY <1>1, <2>1, <2>2, <2>3, <2>4
  <2>6. /\ p.dl = q.dl + 1 /\ p.prev = x
        /\ p.tf = IF x \in Nat \ {0} THEN Plus(q.tf, x, 1) ELSE q.tf
        /\ p.tf2 = IF <<q.prev, x>> \in isPair THEN Plus(q.tf2, <<q.prev, x>>, 1) ELSE q.tf2
    BY <2>4, OnTokenIs
  <2>7. /\ q.dl = i /\ q.prev = (IF i = 0 THEN 0 ELSE s[i])
        /\ Tally(q.tf, s, Nat \ {0}, i) /\ Tally(q.tf2, PairsIn(s), isPair, IF i = 0 THEN 0 ELSE i - 1)
    BY <1>4, <2>2 DEF Passed
  <2>8. q.tf \in Counts(Nat \ {0}) /\ q.tf2 \in Counts(isPair)
    BY DEF Passes
  <2>9. Tally(p.tf, s, Nat \ {0}, i + 1)
    <3>1. Tally(IF s[i + 1] \in Nat \ {0} THEN Plus(q.tf, s[i + 1], 1) ELSE q.tf, s, Nat \ {0}, i + 1)
      BY <2>1, <2>7, <2>8, TallyNext
    <3>. QED
      BY <2>3, <2>6, <3>1
  <2>10. Tally(p.tf2, PairsIn(s), isPair, i)
    <3>1. CASE i = 0
      <4>1. <<q.prev, x>> \notin isPair
        BY <2>7, <3>1
      <4>. QED
        BY <2>6, <2>7, <3>1, <4>1
    <3>2. CASE i # 0
      <4>1. PICK k \in Nat : k = i - 1
        BY <2>1, <3>2
      <4>2. k + 1 = i /\ i \in 1..(n - 1)
        BY <2>1, <3>2, <4>1
      <4>3. PairsIn(s)[i] = <<s[i], s[i + 1]>>
        BY <4>2 DEF PairsIn
      <4>4. PairsIn(s)[k + 1] = <<q.prev, x>>
        BY <2>3, <2>7, <3>2, <4>2, <4>3
      <4>5. PICK y : y = <<q.prev, x>>
        OBVIOUS
      <4>6. PICK us : us = PairsIn(s)
        OBVIOUS
      <4>7. Tally(q.tf2, us, isPair, k)
        BY <2>7, <3>2, <4>1, <4>6
      <4>8. Tally(IF us[k + 1] \in isPair THEN Plus(q.tf2, us[k + 1], 1) ELSE q.tf2, us, isPair, k + 1)
        BY <2>8, <4>7, TallyNext
      <4>9. us[k + 1] = y /\ p.tf2 = IF y \in isPair THEN Plus(q.tf2, y, 1) ELSE q.tf2
        BY <2>6, <4>4, <4>5, <4>6
      <4>. QED
        BY <4>2, <4>6, <4>8, <4>9
    <3>. QED
      BY <3>1, <3>2
  <2>11. Done(i + 1)
    <3>1. i + 1 # 0 /\ (i + 1) - 1 = i
      BY <2>1
    <3>. QED
      BY <2>3, <2>5, <2>6, <2>7, <2>9, <2>10, <3>1 DEF Passed
  <2>. QED
    BY <2>1, <2>11
<1>5. n \in I
  <2> HIDE DEF I, n
  <2>1. 0..n \subseteq I
    BY <1>2, <1>3, <1>4, ReachedTo
  <2>. QED
    BY <1>2, <2>1
<1>6. Done(n) /\ g[n] \in Passes(isPair)
  BY <1>2, <1>5
<1>. QED
  BY <1>1, <1>6

-----------------------------------------------------------------------------
\* The products and quotients of a term are whole numbers.
LEMMA Times ==
  /\ \A a, b \in Int : a * b \in Int
  /\ \A a, b \in Nat : a * b \in Nat
OBVIOUS

\* Of a term.
LEMMA TermType ==
  ASSUME NEW idf \in Int, NEW tf \in Nat, NEW dl \in Nat \ {0}, NEW mean \in Nat
  PROVE  Term(idf, tf, dl, mean) \in Int
<1>1. Scale \in Int
  BY ScoringAssumption
<1>2. PICK a \in Int : a = 2 * Scale
  BY <1>1
<1>3. PICK b \in Int : b = a * idf
  BY Times
<1>4. PICK c \in Int : c = b * tf
  BY Times
<1>5. PICK d \in Int : d = c * mean
  BY Times
<1>6. PICK e \in Nat : e = tf * mean
  BY Times
<1>7. PICK x \in Nat \ {0} : x = e + dl
  OBVIOUS
<1>8. d \div x \in Int
  OBVIOUS
<1>9. Term(idf, tf, dl, mean) = d \div x
  BY <1>2, <1>3, <1>4, <1>5, <1>6, <1>7 DEF Term
<1>. QED
  BY <1>8, <1>9

\* Of a pair.
LEMMA PairTermType ==
  ASSUME NEW D, NEW idf \in [D -> Int], NEW x \in D, NEW y \in D, NEW tf \in Nat,
         NEW dl \in Nat \ {0}, NEW mean \in Nat
  PROVE  PairTerm(idf, x, y, tf, dl, mean) \in Int
<1>1. PICK a \in Int : a = idf[x] + idf[y]
  OBVIOUS
<1>2. PICK t \in Int : t = Term(a, tf, dl, mean)
  BY TermType
<1>. QED
  BY <1>1, <1>2 DEF PairTerm

\* Where x is in us, b[x] is in vs; and what of S is in vs is from K.
Translates(b, K, us, vs, S, k) ==
  /\ \A x \in K : b[x] \in S /\ \A j \in 1..k : us[j] = x <=> vs[j] = b[x]
  /\ \A j \in 1..k : vs[j] \in S => us[j] \in K
Found(K, us, k) == {x \in K : CountIn(us, x, k) > 0}
\* f has the counts in us of X, under the names b gives.
Retells(f, b, X, us, k) ==
  /\ IsFiniteSet(X) /\ IsFiniteSet(DOMAIN f)
  /\ \A x \in X : b[x] \in DOMAIN f /\ f[b[x]] = CountIn(us, x, k)
  /\ \A x, y \in X : b[x] = b[y] => x = y
  /\ \A z \in DOMAIN f : \E x \in X : b[x] = z

\* Then what is counted in vs is what is found in us, as often.
LEMMA TallyOf ==
  ASSUME NEW K, IsFiniteSet(K), NEW us, NEW vs, NEW S, NEW k \in Nat, NEW b,
         Translates(b, K, us, vs, S, k), NEW f, Tally(f, vs, S, k)
  PROVE  Retells(f, b, Found(K, us, k), us, k)
<1>1. PICK X \in SUBSET K : X = Found(K, us, k)
  BY DEF Found
<1>2. IsFiniteSet(X)
  BY FS_Subset
<1>3. ASSUME NEW x \in K
      PROVE  x \in X <=> \E j \in 1..k : us[j] = x
  BY <1>1, CountInIs DEF Found
<1>4. ASSUME NEW x \in K
      PROVE  CountIn(us, x, k) = CountIn(vs, b[x], k)
  <2>1. {j \in 1..k : us[j] = x} = {j \in 1..k : vs[j] = b[x]}
    BY DEF Translates
  <2>. QED
    BY <2>1 DEF CountIn
<1>5. DOMAIN f = {vs[j] : j \in 1..k} \cap S
  BY DEF Tally
<1>6. ASSUME NEW x \in X
      PROVE  b[x] \in DOMAIN f /\ f[b[x]] = CountIn(us, x, k)
  <2>1. PICK j \in 1..k : us[j] = x
    BY <1>3
  <2>2. vs[j] = b[x] /\ b[x] \in S
    BY <2>1 DEF Translates
  <2>3. b[x] \in DOMAIN f
    BY <1>5, <2>2
  <2>4. f[b[x]] = CountIn(vs, b[x], k)
    BY <2>3 DEF Tally
  <2>. QED
    BY <1>4, <2>3, <2>4
<1>7. ASSUME NEW x \in X, NEW y \in X, b[x] = b[y]
      PROVE  x = y
  <2>1. PICK j \in 1..k : us[j] = x
    BY <1>3
  <2>2. vs[j] = b[x]
    BY <2>1 DEF Translates
  <2>3. us[j] = y
    BY <1>7, <2>2 DEF Translates
  <2>. QED
    BY <2>1, <2>3
<1>8. ASSUME NEW z \in DOMAIN f
      PROVE  \E x \in X : b[x] = z
  <2>1. PICK j \in 1..k : vs[j] = z /\ z \in S
    BY <1>5
  <2>2. PICK x \in K : x = us[j]
    BY <2>1 DEF Translates
  <2>3. x \in X
    BY <1>3, <2>2
  <2>4. vs[j] = b[x]
    BY <2>2 DEF Translates
  <2>. QED
    BY <2>1, <2>3, <2>4
<1>9. IsFiniteSet(DOMAIN f)
  <2>1. PICK T : T = DOMAIN f
    OBVIOUS
  <2>2. PICK e : e = [x \in X |-> b[x]]
    OBVIOUS
  <2>3. e \in [X -> T] /\ \A z \in T : \E x \in X : e[x] = z
    BY <1>6, <1>8, <2>1, <2>2
  <2>4. e \in Surjection(X, T)
    BY <2>3 DEF Surjection
  <2>5. IsFiniteSet(T)
    BY <1>2, <2>4, FS_Surjection
  <2>. QED
    BY <2>1, <2>5
<1>. QED
  BY <1>1, <1>2, <1>6, <1>7, <1>8, <1>9 DEF Retells

\* The native scorer and the Python reference give a text the same score, whatever the query,
\* the weights of its tokens and the mean length (bm25_topn of lib.rs, _bm25_topn).
LEMMA ScoresAgree ==
  ASSUME NEW qtoks \in Seq(Toks), NEW idf \in [Range(qtoks) -> Int], NEW mean \in Nat,
         NEW text, Tokens(text) \in Seq(Toks)
  PROVE  NativeScore(qtoks, idf, mean, text) = Bm25Score(qtoks, idf, mean, text)
<1>1. PICK tk \in Seq(Toks) : tk = Tokens(text)
  OBVIOUS
<1>2. PICK n \in Nat : n = Len(tk)
  OBVIOUS
<1>3. PICK Q : Q = Range(qtoks)
  OBVIOUS
<1>4. PICK terms \in Seq(Toks) : terms = Distinct(qtoks) /\ Range(terms) = Q
  BY <1>3, DistinctIs
<1>5. PICK ix : ix = [t \in Toks |-> TermIx(terms, t)]
  OBVIOUS
<1>6. Q \subseteq Toks /\ IsFiniteSet(Q)
  <2>1. qtoks \in [1..Len(qtoks) -> Q] /\ Q \subseteq Toks
    BY <1>3 DEF Range
  <2>2. qtoks \in Surjection(1..Len(qtoks), Q)
    BY <1>3, <2>1 DEF Surjection, Range
  <2>3. IsFiniteSet(1..Len(qtoks))
    BY FS_Interval
  <2>. QED
    BY <2>1, <2>2, <2>3, FS_Surjection
<1>7. ASSUME NEW t \in Q
      PROVE  ix[t] \in Nat \ {0} /\ ix[t] \in DOMAIN terms /\ terms[ix[t]] = t
  <2>1. TermIx(terms, t) \in 1..Len(terms) /\ terms[TermIx(terms, t)] = t
    BY <1>4, TermIxIs
  <2>2. ix[t] = TermIx(terms, t)
    BY <1>5, <1>6
  <2>. QED
    BY <2>1, <2>2
<1>8. ASSUME NEW t \in Toks, t \notin Q
      PROVE  ix[t] = 0
  BY <1>4, <1>5, <1>8, TermIxIs
<1>9. ASSUME NEW t \in Q, NEW u \in Toks, ix[t] = ix[u]
      PROVE  t = u
  <2>1. u \in Q
    BY <1>7, <1>8, <1>9
  <2>. QED
    BY <1>7, <1>9, <2>1
<1>10. PICK s : s = [i \in DOMAIN tk |-> TermIx(terms, tk[i])]
  OBVIOUS
<1>11. s \in Seq(Nat) /\ Len(s) = n /\ \A i \in 1..n : s[i] = ix[tk[i]] /\ tk[i] \in Toks
  <2>1. s = [i \in 1..n |-> ix[tk[i]]]
    BY <1>2, <1>5, <1>10
  <2>2. \A t \in Toks : ix[t] \in Nat
    BY <1>7, <1>8
  <2>. QED
    BY <1>2, <2>1, <2>2
<1>12. PICK P : P = QueryPairs(qtoks)
  OBVIOUS
<1>13. P \subseteq Q \X Q /\ IsFiniteSet(P)
  <2>1. P \subseteq Q \X Q
    BY <1>3, <1>12 DEF QueryPairs, Adjacent, Range
  <2>2. IsFiniteSet(Q \X Q)
    BY <1>6, FS_Product
  <2>. QED
    BY <2>1, <2>2, FS_Subset
<1>14. PICK isPair : isPair = {<<TermIx(terms, p[1]), TermIx(terms, p[2])>> : p \in P}
  OBVIOUS
<1>15. PICK ixs : ixs = [p \in P |-> <<ix[p[1]], ix[p[2]]>>]
  OBVIOUS
<1>16. ASSUME NEW p \in P
       PROVE  p = <<p[1], p[2]>> /\ p[1] \in Q /\ p[2] \in Q /\ ixs[p] = <<ix[p[1]], ix[p[2]]>>
              /\ ixs[p] = <<TermIx(terms, p[1]), TermIx(terms, p[2])>>
  BY <1>5, <1>6, <1>13, <1>15
<1>17. /\ \A p \in P : ixs[p] \in isPair
       /\ \A z \in isPair : \E p \in P : ixs[p] = z
  <2>1. ASSUME NEW p \in P
        PROVE  ixs[p] \in isPair
    BY <1>14, <1>16
  <2>2. ASSUME NEW z \in isPair
        PROVE  \E p \in P : ixs[p] = z
    <3>1. PICK p \in P : z = <<TermIx(terms, p[1]), TermIx(terms, p[2])>>
      BY <1>14
    <3>. QED
      BY <1>16, <3>1
  <2>. QED
    BY <2>1, <2>2
<1>18. isPair \in SUBSET ((Nat \ {0}) \X (Nat \ {0}))
  <2>1. ASSUME NEW z \in isPair
        PROVE  z \in (Nat \ {0}) \X (Nat \ {0})
    <3>1. PICK p \in P : ixs[p] = z
      BY <1>17
    <3>2. PICK x \in Nat \ {0}, y \in Nat \ {0} : x = ix[p[1]] /\ y = ix[p[2]]
      BY <1>7, <1>16
    <3>3. z = <<x, y>>
      BY <1>16, <3>1, <3>2
    <3>. QED
      BY <3>3
  <2>. QED
    BY <2>1
<1>19. PICK end \in Passes(isPair) : end = Counted(isPair, s) /\ Passed(end, s, isPair, n)
  BY <1>11, <1>18, CountedIs
<1>20. PICK dl \in Nat \ {0} : dl = AtLeast1(n)
  BY DEF AtLeast1
<1>21. PICK tidf : tidf = [i \in DOMAIN terms |-> idf[terms[i]]]
  OBVIOUS
<1>22. ASSUME NEW t \in Q
       PROVE  tidf[ix[t]] = idf[t] /\ idf[t] \in Int
  BY <1>3, <1>7, <1>21
<1>23. /\ end.dl = n /\ Tally(end.tf, s, Nat \ {0}, n)
       /\ Tally(end.tf2, PairsIn(s), isPair, IF n = 0 THEN 0 ELSE n - 1)
  BY <1>19 DEF Passed
<1>24. PICK tf : tf = end.tf
  OBVIOUS
<1>25. PICK X : X = Found(Q, tk, n)
  OBVIOUS
<1>26. /\ IsFiniteSet(X) /\ IsFiniteSet(DOMAIN tf)
       /\ \A t \in X : ix[t] \in DOMAIN tf /\ tf[ix[t]] = CountIn(tk, t, n)
       /\ \A t, u \in X : ix[t] = ix[u] => t = u
       /\ \A i \in DOMAIN tf : \E t \in X : ix[t] = i
  <2>1. Translates(ix, Q, tk, s, Nat \ {0}, n)
    <3>1. ASSUME NEW t \in Q, NEW j \in 1..n
          PROVE  tk[j] = t <=> s[j] = ix[t]
      BY <1>9, <1>11
    <3>2. ASSUME NEW j \in 1..n, s[j] \in Nat \ {0}
          PROVE  tk[j] \in Q
      BY <1>8, <1>11, <3>2
    <3>. QED
      BY <1>7, <3>1, <3>2 DEF Translates
  <2>. QED
    <3>1. Retells(tf, ix, X, tk, n)
      BY <1>6, <1>23, <1>24, <1>25, <2>1, TallyOf
    <3>. QED
      BY <3>1 DEF Retells
<1>27. X = {t \in Range(qtoks) : Frequency(t, tk) > 0} /\ \A t \in X : Frequency(t, tk) = CountIn(tk, t, n)
  <2>1. DOMAIN tk = 1..n
    BY <1>2
  <2>2. ASSUME NEW t
        PROVE  Frequency(t, tk) = CountIn(tk, t, n)
    BY <2>1 DEF Frequency, CountIn
  <2>. QED
    BY <1>3, <1>25, <2>2 DEF Found
<1>28. PICK g : g = [t \in X |-> Term(idf[t], Frequency(t, tk), dl, mean)]
  OBVIOUS
<1>29. PICK h : h = [i \in DOMAIN tf |-> Term(tidf[i], tf[i], dl, mean)]
  OBVIOUS
<1>30. ASSUME NEW t \in X
       PROVE  g[t] \in Int /\ h[ix[t]] = g[t]
  <2>1. t \in Q
    BY <1>25 DEF Found
  <2>2. PICK c \in Nat : c = CountIn(tk, t, n)
    BY CountInIs
  <2>3. PICK a \in Int : a = idf[t] /\ a = tidf[ix[t]]
    BY <1>22, <2>1
  <2>4. g[t] = Term(a, c, dl, mean)
    BY <1>27, <1>28, <2>2, <2>3
  <2>5. h[ix[t]] = Term(a, c, dl, mean)
    BY <1>26, <1>29, <2>2, <2>3
  <2>. QED
    BY <2>4, <2>5, TermType
<1>31. SumFunction(g) = SumFunction(h)
  <2>1. PICK T : T = DOMAIN tf
    OBVIOUS
  <2>2. g \in [X -> Int]
    BY <1>28, <1>30
  <2>3. ASSUME NEW i \in T
        PROVE  h[i] \in Int
    <3>1. PICK t \in X : ix[t] = i
      BY <1>26, <2>1
    <3>. QED
      BY <1>30, <3>1
  <2>4. h \in [T -> Int]
    BY <1>29, <2>1, <2>3
  <2>5. Renames(ix, X, g, T, h)
    BY <1>26, <1>30, <2>1 DEF Renames
  <2>. QED
    BY <1>26, <2>1, <2>2, <2>4, <2>5, SumsAreAlike
<1>32. PICK m \in Nat : m = (IF n = 0 THEN 0 ELSE n - 1) /\ 1..m = 1..(n - 1)
  OBVIOUS
<1>33. PICK tp, sp : tp = PairsIn(tk) /\ sp = PairsIn(s)
  OBVIOUS
<1>34. ASSUME NEW j \in 1..m
       PROVE  /\ tp[j] = <<tk[j], tk[j + 1]>> /\ sp[j] = <<s[j], s[j + 1]>>
              /\ s[j] = ix[tk[j]] /\ s[j + 1] = ix[tk[j + 1]] /\ tk[j] \in Toks /\ tk[j + 1] \in Toks
  <2>1. j \in 1..(n - 1) /\ j \in 1..n /\ j + 1 \in 1..n
    BY <1>32
  <2>. QED
    BY <1>2, <1>11, <1>33, <2>1 DEF PairsIn
<1>35. PICK tf2 : tf2 = end.tf2
  OBVIOUS
<1>36. PICK Y : Y = Found(P, tp, m)
  OBVIOUS
<1>37. /\ IsFiniteSet(Y) /\ IsFiniteSet(DOMAIN tf2)
       /\ \A p \in Y : ixs[p] \in DOMAIN tf2 /\ tf2[ixs[p]] = CountIn(tp, p, m)
       /\ \A p, q \in Y : ixs[p] = ixs[q] => p = q
       /\ \A z \in DOMAIN tf2 : \E p \in Y : ixs[p] = z
  <2>1. Translates(ixs, P, tp, sp, isPair, m)
    <3>1. ASSUME NEW p \in P, NEW j \in 1..m
          PROVE  tp[j] = p <=> sp[j] = ixs[p]
      <4>1. PICK x \in Q, y \in Q : p = <<x, y>> /\ ixs[p] = <<ix[x], ix[y]>>
        BY <1>16
      <4>2. PICK a \in Toks, b \in Toks : tp[j] = <<a, b>> /\ sp[j] = <<ix[a], ix[b]>>
        BY <1>34
      <4>. QED
        BY <1>9, <4>1, <4>2
    <3>2. ASSUME NEW j \in 1..m, sp[j] \in isPair
          PROVE  tp[j] \in P
      <4>1. PICK p \in P : ixs[p] = sp[j]
        BY <1>17, <3>2
      <4>. QED
        BY <3>1, <4>1
    <3>. QED
      BY <1>17, <3>1, <3>2 DEF Translates
  <2>2. Tally(tf2, sp, isPair, m)
    BY <1>23, <1>32, <1>33, <1>35
  <2>. QED
    <3>1. Retells(tf2, ixs, Y, tp, m)
      BY <1>13, <1>36, <2>1, <2>2, TallyOf
    <3>. QED
      BY <3>1 DEF Retells
<1>38. /\ Y = {p \in QueryPairs(qtoks) : PairFrequency(p, tk) > 0}
       /\ \A p \in Y : PairFrequency(p, tk) = CountIn(tp, p, m)
  <2>1. ASSUME NEW p
        PROVE  PairFrequency(p, tk) = CountIn(tp, p, m)
    <3>1. {i \in 1..(n - 1) : <<tk[i], tk[i + 1]>> = p} = {i \in 1..m : tp[i] = p}
      BY <1>32, <1>34
    <3>. QED
      BY <1>2, <3>1 DEF PairFrequency, CountIn
  <2>. QED
    BY <1>12, <1>36, <2>1 DEF Found
<1>39. PICK g2 : g2 = [p \in Y |-> PairTerm(idf, p[1], p[2], PairFrequency(p, tk), dl, mean)]
  OBVIOUS
<1>40. PICK h2 : h2 = [z \in DOMAIN tf2 |-> PairTerm(tidf, z[1], z[2], tf2[z], dl, mean)]
  OBVIOUS
<1>41. ASSUME NEW p \in Y
       PROVE  g2[p] \in Int /\ h2[ixs[p]] = g2[p]
  <2>1. p \in P
    BY <1>36 DEF Found
  <2>2. PICK c \in Nat : c = CountIn(tp, p, m)
    BY CountInIs
  <2>3. PICK x \in Q, y \in Q : x = p[1] /\ y = p[2] /\ ixs[p] = <<ix[x], ix[y]>>
    BY <1>16, <2>1
  <2>4. g2[p] = PairTerm(idf, x, y, c, dl, mean)
    BY <1>38, <1>39, <2>2, <2>3
  <2>5. h2[ixs[p]] = PairTerm(tidf, ix[x], ix[y], c, dl, mean)
    <3>1. PICK z : z = ixs[p]
      OBVIOUS
    <3>2. z \in DOMAIN tf2 /\ tf2[z] = c
      BY <1>37, <2>2, <3>1
    <3>3. z[1] = ix[x] /\ z[2] = ix[y]
      BY <2>3, <3>1
    <3>. QED
      BY <1>40, <3>1, <3>2, <3>3
  <2>6. PairTerm(tidf, ix[x], ix[y], c, dl, mean) = PairTerm(idf, x, y, c, dl, mean)
    BY <1>22 DEF PairTerm
  <2>7. PairTerm(idf, x, y, c, dl, mean) \in Int
    BY <1>3, PairTermType
  <2>. QED
    BY <2>4, <2>5, <2>6, <2>7
<1>42. SumFunction(g2) = SumFunction(h2)
  <2>1. PICK T : T = DOMAIN tf2
    OBVIOUS
  <2>2. g2 \in [Y -> Int]
    BY <1>39, <1>41
  <2>3. ASSUME NEW z \in T
        PROVE  h2[z] \in Int
    <3>1. PICK p \in Y : ixs[p] = z
      BY <1>37, <2>1
    <3>. QED
      BY <1>41, <3>1
  <2>4. h2 \in [T -> Int]
    BY <1>40, <2>1, <2>3
  <2>5. Renames(ixs, Y, g2, T, h2)
    BY <1>37, <1>41, <2>1 DEF Renames
  <2>. QED
    BY <1>37, <2>1, <2>2, <2>4, <2>5, SumsAreAlike
<1>43. Bm25Score(qtoks, idf, mean, text) = SumFunction(g) + SumFunction(g2) \div 5
  BY <1>1, <1>2, <1>20, <1>27, <1>28, <1>38, <1>39 DEF Bm25Score
<1>44. NativeScore(qtoks, idf, mean, text) = SumFunction(h) + SumFunction(h2) \div 5
  <2>1. isPair = {<<TermIx(Distinct(qtoks), p[1]), TermIx(Distinct(qtoks), p[2])>> : p \in QueryPairs(qtoks)}
    BY <1>4, <1>12, <1>14, Zenon
  <2>2. s = [i \in DOMAIN Tokens(text) |-> TermIx(Distinct(qtoks), Tokens(text)[i])]
    BY <1>1, <1>4, <1>10, Zenon
  <2>3. tidf = [i \in DOMAIN Distinct(qtoks) |-> idf[Distinct(qtoks)[i]]]
    BY <1>4, <1>21, Zenon
  <2>4. dl = AtLeast1(end.dl)
    BY <1>20, <1>23
  <2>5. h = [i \in DOMAIN end.tf |-> Term(tidf[i], end.tf[i], dl, mean)]
    BY <1>24, <1>29, Zenon
  <2>6. h2 = [p \in DOMAIN end.tf2 |-> PairTerm(tidf, p[1], p[2], end.tf2[p], dl, mean)]
    BY <1>35, <1>40, Zenon
  <2>7. end = Counted({<<TermIx(Distinct(qtoks), p[1]), TermIx(Distinct(qtoks), p[2])>> : p \in QueryPairs(qtoks)},
                      [i \in DOMAIN Tokens(text) |-> TermIx(Distinct(qtoks), Tokens(text)[i])])
    BY <1>19, <2>1, <2>2, Zenon
  <2>. QED
    BY <2>3, <2>4, <2>5, <2>6, <2>7 DEF NativeScore
<1>. QED
  BY <1>31, <1>42, <1>43, <1>44

-----------------------------------------------------------------------------
\* The tokens of a text.
LEMMA TokensType ==
  ASSUME NEW text \in Texts
  PROVE  Tokens(text) \in Seq(Toks)
<1>1. PICK n \in Nat : n = Len(text) /\ DOMAIN text = 1..n /\ \A i \in 1..n : text[i] \in DOMAIN Fold
  BY TextsAssumption
<1>2. PICK ss : ss = [i \in DOMAIN text |-> Fold[text[i]]]
  OBVIOUS
<1>3. ASSUME NEW i \in 1..n
      PROVE  Fold[text[i]] \in Seq(Toks)
  BY <1>1, FoldAssumption
<1>4. ss \in Seq(Seq(Toks))
  BY <1>1, <1>2, <1>3
<1>. QED
  BY <1>2, <1>4, FlattenType DEF Tokens

\* The records are finitely many, of the texts there are, and each has a vector's number.
LEMMA RowsAre ==
  ASSUME IInv
  PROVE  IsFiniteSet(rows) /\ \A r \in rows : r.row \in RowRecords(Texts) /\ r.row.text \in Texts
<1>1. PICK all : all = Old \o DoneRows
  OBVIOUS
<1>2. all \in Seq(Rows)
  <2>1. DoneSeq(jobs) \in Seq(Seq(Rows))
    BY DoneSeqType DEF IInv, JobsKept
  <2>2. DoneRows \in Seq(Rows)
    BY <2>1, FlattenType, DoneRowsAre
  <2>3. Old \in Seq(Rows)
    BY OldAssumption DEF Rows
  <2>. QED
    BY <1>1, <2>2, <2>3
<1>3. {r.row : r \in rows} = LastRows(all) /\ OnePerExt(rows)
  BY <1>1 DEF IInv, RowsKept, Reflects, RowsOf
<1>4. IsFiniteSet(rows)
  BY <1>2, <1>3, AsManyAsLast DEF OnePerExt
<1>5. ASSUME NEW r \in rows
      PROVE  r.row \in Rows
  <2>1. r.row \in LastRows(all)
    BY <1>3
  <2>. QED
    BY <1>2, <2>1 DEF LastRows, LastOf
<1>6. ASSUME NEW x \in Rows
      PROVE  x \in RowRecords(Texts)
  <2>1. CASE x \in RowRecords(Texts)
    BY <2>1
  <2>2. CASE x \in SaidRows(Texts, Embed)
    <3>1. PICK r \in RowRecords(Texts) : x = Vector1(r, Embed)
      BY <2>2 DEF SaidRows, VectorAll
    <3>2. r.text \in Texts
      BY DEF RowRecords
    <3>3. Embed[r.text] \in Int
      BY <3>2, VectorsAssumption
    <3>. QED
      BY <3>1, <3>3 DEF Vector1, RowRecords
  <2>. QED
    BY <2>1, <2>2 DEF Rows
<1>7. \A x \in RowRecords(Texts) : x.text \in Texts
  BY DEF RowRecords
<1>. QED
  BY <1>4, <1>5, <1>6, <1>7

\* The greater and the lesser of two numbers.
LEMMA OfTwo ==
  ASSUME NEW a \in Int, NEW b \in Int
  PROVE  Max({a, b}) \in Int /\ Min({a, b}) \in {a, b}
<1>1. \E x \in {a, b} : \A y \in {a, b} : x >= y
  OBVIOUS
<1>2. \E x \in {a, b} : \A y \in {a, b} : x <= y
  OBVIOUS
<1>3. Max({a, b}) \in {a, b}
  BY <1>1 DEF Max
<1>4. Min({a, b}) \in {a, b}
  BY <1>2 DEF Min
<1>. QED
  BY <1>3, <1>4

\* A weight is a whole number.
LEMMA IdfType ==
  ASSUME IInv, NEW df \in Nat
  PROVE  Idf(df) \in Int
<1>1. PICK total \in Nat : total = Cardinality(rows)
  BY RowsAre, FS_CardinalityType
<1>2. PICK n \in Nat : n = Min({df, total})
  <2>1. Min({df, total}) \in {df, total}
    BY OfTwo
  <2>. QED
    BY <2>1
<1>3. PICK q \in Int : q = (4 * (total - n) + 2) \div (2 * n + 1)
  OBVIOUS
<1>4. Max({1, q}) \in Int
  BY OfTwo
<1>5. Idf(df) = Max({1, (4 * (total - n) + 2) \div (2 * n + 1)})
  BY <1>1, <1>2, Zenon DEF Idf
<1>. QED
  BY <1>3, <1>4, <1>5

\* The cached frequencies are numbers, and so is the mean; it is 0 only if there was a text
\* without a token to sample. A question is one of those there are.
DfsKept == \A t \in DOMAIN dfs : dfs[t] \in Nat
MeanKnown == avgdl \in Nat \cup {NoMean} /\ (avgdl = 0 => PunctuationPosted)
SInv == IInv /\ DfsKept /\ MeanKnown /\ question \in Questions \cup {Unasked}

\* What the cache holds for a query covers its tokens.
LEMMA DfsForIs ==
  ASSUME IInv, DfsKept, NEW toks
  PROVE  /\ \A t \in DOMAIN DfsFor(toks) : DfsFor(toks)[t] \in Nat
         /\ Range(toks) \subseteq DOMAIN DfsFor(toks)
<1>1. PICK kept : kept = IF CacheKept(toks) THEN dfs ELSE NoCounts
  OBVIOUS
<1>2. \A t \in DOMAIN kept : kept[t] \in Nat
  BY <1>1 DEF DfsKept, NoCounts
<1>3. ASSUME NEW t
      PROVE  Df(t) \in Nat
  <2>1. IsFiniteSet(Matching({t}))
    BY RowsAre, FS_Subset DEF Matching
  <2>. QED
    BY <2>1, FS_CardinalityType DEF Df
<1>4. DfsFor(toks) = [t \in DOMAIN kept \cup Range(toks) |-> IF t \in DOMAIN kept THEN kept[t] ELSE Df(t)]
  BY <1>1, Zenon DEF DfsFor
<1>. QED
  BY <1>2, <1>3, <1>4

\* A length is that of a record's text, and 0 only of punctuation.
LEMMA LengthsAre ==
  ASSUME IInv, NEW l \in Lengths
  PROVE  l \in Nat /\ (l = 0 => PunctuationPosted)
<1>1. PICK r \in rows : r.row.text # <<>> /\ l = Len(Tokens(r.row.text))
  BY DEF Lengths
<1>2. Tokens(r.row.text) \in Seq(Toks)
  <2>1. r.row.text \in Texts
    BY RowsAre
  <2>. QED
    BY <2>1, TokensType
<1>3. l = 0 => Tokens(r.row.text) = <<>>
  <2>1. PICK toks \in Seq(Toks) : toks = Tokens(r.row.text)
    BY <1>2
  <2>2. Len(toks) = 0 => toks = <<>>
    OBVIOUS
  <2>. QED
    BY <1>1, <2>1, <2>2
<1>4. PICK row : row = r.row
  OBVIOUS
<1>5. row \in Range(Old \o DoneRows) /\ row.text # <<>>
  BY <1>1, <1>4, RowIsPosted
<1>6. Tokens(row.text) = <<>> => PunctuationPosted
  BY <1>5, Zenon DEF PunctuationPosted
<1>7. l \in Nat
  BY <1>1, <1>2
<1>. QED
  BY <1>3, <1>4, <1>6, <1>7

\* So it is with a mean that is kept or sampled.
LEMMA MeansAre ==
  ASSUME IInv, MeanKnown, NEW toks
  PROVE  /\ MeanKept(toks) \in Nat \cup {NoMean} /\ (MeanKept(toks) = 0 => PunctuationPosted)
         /\ \A m \in MeansFor(toks) : m \in Nat /\ (m = 0 => PunctuationPosted)
<1>1. MeanKept(toks) \in Nat \cup {NoMean} /\ (MeanKept(toks) = 0 => PunctuationPosted)
  BY DEF MeanKnown, MeanKept, NoMean
<1>2. ASSUME NEW m \in Means
      PROVE  m \in Nat /\ (m = 0 => PunctuationPosted)
  <2>1. CASE m = 1
    BY <2>1
  <2>2. CASE m # 1
    <3>1. PICK a \in Lengths, b \in Lengths : m \in a..b
      <4>1. PICK p \in Lengths \X Lengths : m \in p[1]..p[2]
        BY <2>2 DEF Means
      <4>. QED
        BY <4>1
    <3>2. a \in Nat /\ b \in Nat
      BY LengthsAre
    <3>3. a = 0 => PunctuationPosted
      BY LengthsAre
    <3>4. m \in Nat /\ (m = 0 => a = 0)
      <4>1. m \in Int /\ a <= m
        BY <3>1, <3>2
      <4>. QED
        BY <3>2, <4>1
    <3>. QED
      BY <3>3, <3>4
  <2>. QED
    BY <2>1, <2>2
<1>3. ASSUME NEW m \in MeansFor(toks)
      PROVE  m \in Nat /\ (m = 0 => PunctuationPosted)
  <2>1. CASE MeanKept(toks) = NoMean
    BY <1>2, <1>3, <2>1 DEF MeansFor
  <2>2. CASE MeanKept(toks) # NoMean
    <3>1. m = MeanKept(toks)
      BY <1>3, <2>2 DEF MeansFor
    <3>. QED
      BY <1>1, <2>2, <3>1
  <2>. QED
    BY <2>1, <2>2
<1>. QED
  BY <1>1, <1>3

\* At first the caches are empty, and nothing is asked.
LEMMA InitSInv == Init => SInv
<1>1. Init => DfsKept
  BY DEF Init, DfsKept, NoCounts
<1>2. Init => MeanKnown
  BY DEF Init, MeanKnown, NoMean
<1>. QED
  BY <1>1, <1>2, InitIInv DEF SInv, Init

\* The text leg fills the caches.
LEMMA TextLegCaches ==
  ASSUME SInv, TextLeg
  PROVE  DfsKept' /\ MeanKnown'
<1>1. PICK toks : toks = Tokens(question.text)
  OBVIOUS
<1>2. dfs' = DfsFor(toks) /\ jobs' = jobs
  BY <1>1 DEF TextLeg
<1>3. \A t \in DOMAIN DfsFor(toks) : DfsFor(toks)[t] \in Nat
  BY DfsForIs DEF SInv
<1>4. avgdl' \in MeansFor(toks) \/ avgdl' = MeanKept(toks)
  BY <1>1 DEF TextLeg
<1>5. avgdl' \in Nat \cup {NoMean} /\ (avgdl' = 0 => PunctuationPosted)
  BY <1>4, MeansAre DEF SInv
<1>6. PunctuationPosted' = PunctuationPosted
  BY <1>2 DEF PunctuationPosted, DoneRows
<1>7. MeanKnown'
  BY <1>5, <1>6 DEF MeanKnown
<1>. QED
  BY <1>2, <1>3, <1>7 DEF DfsKept

\* Every step keeps that.
LEMMA NextSInv == SInv /\ [Next]_vars => SInv'
<1> SUFFICES ASSUME SInv, [Next]_vars
             PROVE  DfsKept' /\ MeanKnown' /\ (question \in Questions \cup {Unasked})'
  BY NextIInv DEF SInv
<1>1. ASSUME dfs' = dfs, avgdl' = avgdl
      PROVE  DfsKept' /\ MeanKnown'
  <2>1. PunctuationPosted => PunctuationPosted'
    BY PunctuationStays DEF SInv
  <2>. QED
    BY <1>1, <2>1 DEF SInv, DfsKept, MeanKnown
<1>2. CASE TextLeg
  <2>1. question' = question
    BY <1>2 DEF TextLeg
  <2>. QED
    BY <1>2, <2>1, TextLegCaches DEF SInv
<1>3. CASE ~TextLeg
  <2>1. dfs' = dfs /\ avgdl' = avgdl
    BY <1>3 DEF Next, vars, Post, Tear, Work, Ask, VectorLeg, Answer, Sent
  <2>2. (question \in Questions \cup {Unasked})'
    BY <1>3 DEF SInv, Next, vars, Post, Tear, Work, Ask, VectorLeg, Answer, Sent
  <2>. QED
    BY <1>1, <2>1, <2>2
<1>. QED
  BY <1>2, <1>3

\* Whatever is asked, the scores of the records agree, and so do the rankings.
LEMMA SInvScorers == SInv => ScorersAgree
<1> SUFFICES ASSUME SInv, question # Unasked, Needs(question, "text"),
                    NEW mean \in MeansFor(Tokens(question.text)) \ {0}
             PROVE  LET toks == Tokens(question.text)
                        idf == IdfsFor(toks, DfsFor(toks))
                    IN  NativeTopN(toks, idf, Candidates(rows), mean, question.k)
                          = Bm25TopN(toks, idf, Candidates(rows), mean, question.k)
  BY DEF ScorersAgree
<1>1. question.text \in Texts
  <2>1. question.mode \in {"text", "hybrid"}
    BY DEF Needs
  <2>. QED
    BY <2>1, QuestionsAssumption DEF SInv
<1>2. PICK toks \in Seq(Toks) : toks = Tokens(question.text)
  BY <1>1, TokensType
<1>3. PICK idf : idf = IdfsFor(toks, DfsFor(toks))
  OBVIOUS
<1>4. idf \in [Range(toks) -> Int]
  <2>1. ASSUME NEW t \in Range(toks)
        PROVE  Idf(DfsFor(toks)[t]) \in Int
    <3>1. DfsFor(toks)[t] \in Nat
      BY DfsForIs DEF SInv
    <3>. QED
      BY <3>1, IdfType DEF SInv
  <2>. QED
    BY <1>3, <2>1 DEF IdfsFor
<1>5. mean \in Nat
  BY MeansAre DEF SInv
<1>6. ASSUME NEW c \in Candidates(rows)
      PROVE  NativeScore(toks, idf, mean, c.text) = Bm25Score(toks, idf, mean, c.text)
  <2>1. c.text \in Texts
    BY RowsAre DEF SInv, Candidates
  <2>2. Tokens(c.text) \in Seq(Toks)
    BY <2>1, TokensType
  <2>. QED
    BY <1>4, <1>5, <2>2, ScoresAgree
<1>7. {[id |-> c.id, score |-> NativeScore(toks, idf, mean, c.text)] : c \in Candidates(rows)}
        = {[id |-> c.id, score |-> Bm25Score(toks, idf, mean, c.text)] : c \in Candidates(rows)}
  BY <1>6
<1>8. NativeTopN(toks, idf, Candidates(rows), mean, question.k)
        = Bm25TopN(toks, idf, Candidates(rows), mean, question.k)
  BY <1>7 DEF NativeTopN, Bm25TopN
<1>. QED
  BY <1>2, <1>3, <1>5, <1>8

\* The native scorer returns the ids and scores of the Python reference for every question that
\* is asked of the records (_bm25_topn, bm25_topn of lib.rs).
THEOREM ScorersAlwaysAgree == Spec => []ScorersAgree
<1>. QED
  BY InitSInv, NextSInv, SInvScorers, PTL DEF Spec

-----------------------------------------------------------------------------
\* R puts the elements of S in order, each before or after every other.
Orders(R, S) ==
  /\ \A a \in S : <<a, a>> \notin R
  /\ \A a, b \in S : a # b => <<a, b>> \in R \/ <<b, a>> \in R
  /\ \A a, b, c \in S : <<a, b>> \in R /\ <<b, c>> \in R => <<a, c>> \in R
\* How many come before.
RankIn(R, S) == [x \in S |-> Cardinality({y \in S : <<y, x>> \in R})]
\* s has the elements of S, each once, in that order.
Lists(s, R, S) ==
  /\ s \in Seq(S) /\ Len(s) = Cardinality(S) /\ Range(s) = S
  /\ \A i, j \in DOMAIN s : i < j => <<s[i], s[j]>> \in R

\* Then one that is before another has fewer before it.
LEMMA RankRises ==
  ASSUME NEW S, IsFiniteSet(S), NEW R, Orders(R, S), NEW a \in S, NEW b \in S, <<a, b>> \in R
  PROVE  RankIn(R, S)[a] < RankIn(R, S)[b]
<1>1. PICK A : A = {y \in S : <<y, a>> \in R}
  OBVIOUS
<1>2. PICK B : B = {y \in S : <<y, b>> \in R}
  OBVIOUS
<1>3. A \subseteq B /\ a \in B /\ a \notin A /\ B \subseteq S
  BY <1>1, <1>2 DEF Orders
<1>4. IsFiniteSet(B) /\ IsFiniteSet(A)
  BY <1>3, FS_Subset
<1>5. Cardinality(A) \in Nat /\ Cardinality(B) \in Nat
  BY <1>4, FS_CardinalityType
<1>6. Cardinality(A) <= Cardinality(B) /\ (Cardinality(A) = Cardinality(B) => B = A)
  BY <1>3, <1>4, FS_Subset
<1>7. Cardinality(A) < Cardinality(B)
  BY <1>3, <1>5, <1>6
<1>. QED
  BY <1>1, <1>2, <1>7 DEF RankIn

\* So each has a place of its own, and every place is taken.
LEMMA RankIs ==
  ASSUME NEW S, IsFiniteSet(S), NEW R, Orders(R, S)
  PROVE  /\ Cardinality(S) \in Nat
         /\ RankIn(R, S) \in [S -> 0..(Cardinality(S) - 1)]
         /\ \A a, b \in S : RankIn(R, S)[a] = RankIn(R, S)[b] => a = b
         /\ \A n \in 0..(Cardinality(S) - 1) : \E x \in S : RankIn(R, S)[x] = n
<1>1. PICK c \in Nat : c = Cardinality(S)
  BY FS_CardinalityType
<1>2. PICK rank : rank = RankIn(R, S)
  OBVIOUS
<1>3. ASSUME NEW x \in S
      PROVE  rank[x] \in 0..(c - 1)
  <2>1. PICK A : A = {y \in S : <<y, x>> \in R}
    OBVIOUS
  <2>2. A \subseteq S \ {x}
    BY <2>1 DEF Orders
  <2>3. IsFiniteSet(S \ {x}) /\ Cardinality(S \ {x}) = c - 1
    BY <1>1, FS_RemoveElement
  <2>4. IsFiniteSet(A) /\ Cardinality(A) <= c - 1
    BY <2>2, <2>3, FS_Subset
  <2>5. Cardinality(A) \in Nat
    BY <2>4, FS_CardinalityType
  <2>6. rank[x] = Cardinality(A)
    BY <1>2, <2>1 DEF RankIn
  <2>. QED
    BY <2>4, <2>5, <2>6
<1>4. rank \in [S -> 0..(c - 1)]
  <2>1. rank = [x \in S |-> rank[x]]
    BY <1>2 DEF RankIn
  <2>. QED
    BY <1>3, <2>1
<1>5. ASSUME NEW a \in S, NEW b \in S, rank[a] = rank[b], a # b
      PROVE  FALSE
  <2>1. <<a, b>> \in R \/ <<b, a>> \in R
    BY <1>5 DEF Orders
  <2>2. rank[a] < rank[b] \/ rank[b] < rank[a]
    BY <1>2, <2>1, RankRises
  <2>3. rank[a] \in Int /\ rank[b] \in Int
    BY <1>3
  <2>. QED
    BY <1>5, <2>2, <2>3
<1>6. rank \in Injection(S, 0..(c - 1))
  BY <1>4, <1>5 DEF Injection, IsInjective
<1>7. IsFiniteSet(0..(c - 1)) /\ Cardinality(0..(c - 1)) = c
  <2>1. Cardinality(0..(c - 1)) = IF 0 > c - 1 THEN 0 ELSE (c - 1) - 0 + 1
    BY FS_Interval
  <2>. QED
    BY <2>1, FS_Interval
<1>8. rank \in Surjection(S, 0..(c - 1))
  BY <1>1, <1>6, <1>7, FS_Injection
<1>9. \A n \in 0..(c - 1) : \E x \in S : rank[x] = n
  BY <1>8 DEF Surjection
<1>. QED
  BY <1>1, <1>2, <1>4, <1>5, <1>9

\* What has its rank as its place.
Places(s, rank, S, c) ==
  /\ rank \in [S -> 0..(c - 1)] /\ \A a, b \in S : rank[a] = rank[b] => a = b
  /\ s \in [1..c -> S] /\ \A i \in 1..c : rank[s[i]] = i - 1
\* Each element once, at its place.
LEMMA InPlace ==
  ASSUME NEW S, NEW c \in Nat, NEW rank, NEW s, Places(s, rank, S, c)
  PROVE  s \in Seq(S) /\ Len(s) = c /\ DOMAIN s = 1..c /\ Range(s) = S
<1>. USE DEF Places
<1>1. s \in Seq(S) /\ Len(s) = c /\ DOMAIN s = 1..c
  OBVIOUS
<1>2. ASSUME NEW x \in S
      PROVE  \E i \in 1..c : s[i] = x
  <2>1. PICK n \in 0..(c - 1) : n = rank[x]
    OBVIOUS
  <2>2. PICK i \in 1..c : i = n + 1
    OBVIOUS
  <2>3. s[i] \in S /\ rank[s[i]] = rank[x]
    BY <2>1, <2>2
  <2>. QED
    BY <2>3
<1>3. \A y : y \in Range(s) <=> \E i \in 1..c : s[i] = y
  BY Zenon, <1>1 DEF Range
<1>4. \A i \in 1..c : s[i] \in S
  OBVIOUS
<1>5. Range(s) \subseteq S /\ S \subseteq Range(s)
  <2>1. \A y \in Range(s) : y \in S
    BY <1>3, <1>4
  <2>2. \A y \in S : y \in Range(s)
    BY <1>2, <1>3
  <2>. QED
    BY <2>1, <2>2
<1>6. Range(s) = S
  BY <1>5
<1>. QED
  BY <1>1, <1>6

\* Taking each by its rank lists them.
ByRank(S, rank) == [i \in 1..Cardinality(S) |-> CHOOSE x \in S : rank[x] = i - 1]
\* Sorting by the number of those before an element lists the elements in order.
LEMMA ByRankLists ==
  ASSUME NEW S, IsFiniteSet(S), NEW R, Orders(R, S), NEW s, s = ByRank(S, RankIn(R, S))
  PROVE  Lists(s, R, S)
<1>1. PICK c \in Nat : c = Cardinality(S)
  BY FS_CardinalityType
<1>2. PICK rank \in [S -> 0..(c - 1)] : rank = RankIn(R, S)
  BY <1>1, RankIs
<1>3. \A a, b \in S : rank[a] = rank[b] => a = b
  BY <1>2, RankIs
<1>4. ASSUME NEW i \in 1..c
      PROVE  s[i] \in S /\ rank[s[i]] = i - 1
  <2>1. i - 1 \in 0..(c - 1)
    OBVIOUS
  <2>2. \E x \in S : rank[x] = i - 1
    BY <1>1, <1>2, <2>1, RankIs
  <2>3. s[i] = CHOOSE x \in S : rank[x] = i - 1
    BY <1>1, <1>2 DEF ByRank
  <2>. QED
    BY <2>2, <2>3
<1>5. s \in [1..c -> S]
  <2>1. PICK d : d = 1..c
    OBVIOUS
  <2>2. s = [i \in d |-> CHOOSE x \in S : RankIn(R, S)[x] = i - 1]
    BY <1>1, <2>1 DEF ByRank
  <2>3. s = [i \in d |-> s[i]]
    BY <2>2, Zenon
  <2>. QED
    BY <1>4, <2>1, <2>3
<1>6. s \in Seq(S) /\ Len(s) = c /\ DOMAIN s = 1..c /\ Range(s) = S
  <2>1. \A i \in 1..c : rank[s[i]] = i - 1
    BY <1>4
  <2>2. Places(s, rank, S, c)
    BY <1>3, <1>5, <2>1 DEF Places
  <2>3. Range(s) = S
    BY <2>2, InPlace
  <2>4. s \in Seq(S) /\ Len(s) = c
    BY <2>2, InPlace
  <2>. QED
    BY <1>5, <2>3, <2>4
<1>7. ASSUME NEW i \in 1..c, NEW j \in 1..c, i < j
      PROVE  <<s[i], s[j]>> \in R
  <2>1. s[i] \in S /\ rank[s[i]] = i - 1 /\ s[j] \in S /\ rank[s[j]] = j - 1
    BY <1>4
  <2>2. s[i] # s[j] /\ ~(rank[s[j]] < rank[s[i]])
    BY <1>7, <2>1
  <2>3. CASE <<s[j], s[i]>> \in R
    BY <1>2, <2>1, <2>2, <2>3, RankRises
  <2>. QED
    BY <2>1, <2>2, <2>3 DEF Orders
<1>8. \A i, j \in DOMAIN s : i < j => <<s[i], s[j]>> \in R
  <2>1. \A i, j \in 1..c : i < j => <<s[i], s[j]>> \in R
    BY <1>7
  <2>2. DOMAIN s = 1..c
    BY <1>6
  <2>. QED
    BY <2>1, <2>2, Zenon
<1>9. Len(s) = Cardinality(S)
  BY <1>1, <1>6, Zenon
<1>. QED
  BY <1>6, <1>8, <1>9, Zenon DEF Lists

\* Each is in one place.
LEMMA ListsOnce ==
  ASSUME NEW S, NEW R, Orders(R, S), NEW s, Lists(s, R, S)
  PROVE  EachOnce(s)
<1> SUFFICES ASSUME NEW i \in DOMAIN s, NEW j \in DOMAIN s, s[i] = s[j], i # j PROVE FALSE
  BY DEF EachOnce
<1>1. i \in Int /\ j \in Int /\ s[i] \in S /\ s[j] \in S
  BY DEF Lists
<1>2. <<s[i], s[j]>> \in R \/ <<s[j], s[i]>> \in R
  BY <1>1 DEF Lists
<1>. QED
  BY <1>1, <1>2 DEF Orders

-----------------------------------------------------------------------------
\* The order of a ranking.
Scored == [id : Int, score : Int]
BestFirst(S) == {p \in S \X S : \/ p[1].score > p[2].score
                                \/ p[1].score = p[2].score /\ p[1].id < p[2].id}

\* By score, and of equals by id: no two are at the same place.
LEMMA BestOrders ==
  ASSUME NEW S \in SUBSET Scored
  PROVE  Orders(BestFirst(S), S)
<1>1. ASSUME NEW a \in S, NEW b \in S
      PROVE  <<a, b>> \in BestFirst(S) <=> a.score > b.score \/ (a.score = b.score /\ a.id < b.id)
  BY DEF BestFirst
<1>2. \A a \in S : a.id \in Int /\ a.score \in Int
  BY DEF Scored
<1>3. ASSUME NEW a \in S, NEW b \in S, a # b
      PROVE  <<a, b>> \in BestFirst(S) \/ <<b, a>> \in BestFirst(S)
  <2>1. a.id # b.id \/ a.score # b.score
    BY <1>3 DEF Scored
  <2>. QED
    BY <1>1, <1>2, <2>1
<1>4. ASSUME NEW a \in S PROVE <<a, a>> \notin BestFirst(S)
  BY <1>1, <1>2
<1>5. ASSUME NEW a \in S, NEW b \in S, NEW c \in S,
             <<a, b>> \in BestFirst(S), <<b, c>> \in BestFirst(S)
      PROVE  <<a, c>> \in BestFirst(S)
  BY <1>1, <1>2, <1>5
<1>. QED
  BY <1>3, <1>4, <1>5, Zenon DEF Orders

\* The lesser of two numbers.
LEMMA MinOf ==
  ASSUME NEW a \in Int, NEW b \in Int
  PROVE  Min({a, b}) = IF a <= b THEN a ELSE b
<1>1. \E x \in {a, b} : \A y \in {a, b} : x <= y
  OBVIOUS
<1>2. Min({a, b}) \in {a, b} /\ \A y \in {a, b} : Min({a, b}) <= y
  BY <1>1 DEF Min
<1>. QED
  BY <1>2
\* The greater of two.
LEMMA MaxOf2 ==
  ASSUME NEW a \in Int, NEW b \in Int
  PROVE  Max({a, b}) = IF a <= b THEN b ELSE a
<1>1. \E x \in {a, b} : \A y \in {a, b} : x >= y
  OBVIOUS
<1>2. Max({a, b}) \in {a, b} /\ \A y \in {a, b} : Max({a, b}) >= y
  BY <1>1 DEF Max
<1>. QED
  BY <1>2

\* The first n of a sequence, or all.
Firsts(r, s, n) ==
  /\ Len(r) = (IF n <= Len(s) THEN n ELSE Len(s)) /\ DOMAIN r = 1..Len(r)
  /\ \A i \in DOMAIN r : r[i] = s[i]

\* A ranking is the first n of all, in that order.
LEMMA BestIs ==
  ASSUME NEW S \in SUBSET Scored, IsFiniteSet(S), NEW n \in Nat
  PROVE  \E s : /\ Lists(s, BestFirst(S), S)
                /\ Best(S, n) \in Seq(S) /\ Firsts(Best(S, n), s, n)
<1>1. PICK R : R = BestFirst(S) /\ Orders(R, S)
  BY BestOrders
<1>2. PICK rank : rank = RankIn(R, S)
  OBVIOUS
<1>3. ASSUME NEW x \in S
      PROVE  {y \in S : y.score > x.score \/ (y.score = x.score /\ y.id < x.id)} = {y \in S : <<y, x>> \in R}
  <2>1. \A y \in S : <<y, x>> \in R <=> y.score > x.score \/ (y.score = x.score /\ y.id < x.id)
    BY <1>1 DEF BestFirst
  <2>. QED
    BY <2>1
<1>4. rank = [x \in S |-> Cardinality({y \in S : y.score > x.score \/ (y.score = x.score /\ y.id < x.id)})]
  BY <1>2, <1>3 DEF RankIn
<1>5. PICK s : s = ByRank(S, rank)
  OBVIOUS
<1>6. Lists(s, R, S)
  BY <1>1, <1>2, <1>5, ByRankLists
<1>7. Best(S, n) = SubSeq(s, 1, Min({n, Len(s)}))
  <2>1. s = ByRank(S, [x \in S |-> Cardinality({y \in S :
                                     y.score > x.score \/ (y.score = x.score /\ y.id < x.id)})])
    BY <1>4, <1>5
  <2>2. Best(S, n) = LET t == ByRank(S, [x \in S |-> Cardinality({y \in S :
                                     y.score > x.score \/ (y.score = x.score /\ y.id < x.id)})])
                     IN  SubSeq(t, 1, Min({n, Len(t)}))
    BY DEF Best, Sorted, ByRank
  <2>. QED
    BY <2>1, <2>2, Zenon
<1>8. s \in Seq(S) /\ Len(s) \in Nat
  BY <1>6 DEF Lists
<1>9. PICK m \in 0..Len(s) : m = Min({n, Len(s)}) /\ m = IF n <= Len(s) THEN n ELSE Len(s)
  BY <1>8, MinOf
<1>10. SubSeq(s, 1, m) \in Seq(S) /\ Firsts(SubSeq(s, 1, m), s, n)
  <2>1. \A i \in 1..m : s[i] \in S
    BY <1>8
  <2>2. SubSeq(s, 1, m) \in Seq(S) /\ Len(SubSeq(s, 1, m)) = m
    BY <2>1
  <2>3. \A i \in 1..m : SubSeq(s, 1, m)[i] = s[i]
    BY <2>1
  <2>4. DOMAIN SubSeq(s, 1, m) = 1..m
    BY <2>2
  <2>. QED
    BY <1>9, <2>2, <2>3, <2>4 DEF Firsts
<1>. QED
  BY <1>1, <1>6, <1>7, <1>9, <1>10

\* Where there are no more than n of them, all are in it, each once.
LEMMA BestAll ==
  ASSUME NEW S \in SUBSET Scored, IsFiniteSet(S), NEW n \in Nat, Cardinality(S) <= n
  PROVE  Range(Best(S, n)) = S
<1>1. PICK s : Lists(s, BestFirst(S), S) /\ Firsts(Best(S, n), s, n)
  BY BestIs
<1>2. s \in Seq(S) /\ Len(s) = Cardinality(S) /\ Range(s) = S
  BY <1>1 DEF Lists
<1>3. PICK r : r = Best(S, n)
  OBVIOUS
<1>4. Len(r) = Len(s) /\ DOMAIN r = DOMAIN s /\ \A i \in DOMAIN s : r[i] = s[i]
  <2>1. Len(s) <= n /\ Len(s) \in Nat /\ DOMAIN s = 1..Len(s)
    BY <1>2
  <2>2. Firsts(r, s, n)
    BY <1>1, <1>3
  <2>3. Len(r) = Len(s) /\ DOMAIN r = 1..Len(s)
    BY <2>1, <2>2 DEF Firsts
  <2>4. \A i \in DOMAIN r : r[i] = s[i]
    BY <2>2 DEF Firsts
  <2>. QED
    BY <2>1, <2>3, <2>4
<1>5. Range(r) = Range(s)
  BY <1>4, Zenon DEF Range
<1>. QED
  BY <1>2, <1>3, <1>5

\* A ranking has nothing twice.
LEMMA BestOnce ==
  ASSUME NEW S \in SUBSET Scored, IsFiniteSet(S), NEW n \in Nat
  PROVE  EachOnce(Best(S, n))
<1>1. PICK s : Lists(s, BestFirst(S), S) /\ Firsts(Best(S, n), s, n)
  BY BestIs
<1>2. EachOnce(s) /\ Len(s) \in Nat /\ DOMAIN s = 1..Len(s)
  <2>1. EachOnce(s)
    BY <1>1, BestOrders, ListsOnce
  <2>2. s \in Seq(S)
    BY <1>1 DEF Lists
  <2>. QED
    BY <2>1, <2>2
<1>3. PICK r : r = Best(S, n)
  OBVIOUS
<1>4. DOMAIN r \subseteq DOMAIN s /\ \A i \in DOMAIN r : r[i] = s[i]
  BY <1>1, <1>2, <1>3 DEF Firsts
<1>. QED
  BY <1>2, <1>3, <1>4 DEF EachOnce

-----------------------------------------------------------------------------
\* What two sequences have, one after the other.
LEMMA ConcatHas ==
  ASSUME NEW R, NEW p \in Seq(R), NEW q \in Seq(R)
  PROVE  /\ Range(p \o q) = Range(p) \cup Range(q)
         /\ EachOnce(p) /\ EachOnce(q) /\ Range(p) \cap Range(q) = {} => EachOnce(p \o q)
<1>1. PICK m \in Nat : m = Len(p) /\ DOMAIN p = 1..m
  OBVIOUS
<1>2. PICK n \in Nat : n = Len(q) /\ DOMAIN q = 1..n
  OBVIOUS
<1>3. PICK s \in Seq(R) : s = p \o q
  BY ConcatProperties
<1>4. DOMAIN s = 1..(m + n)
  BY <1>1, <1>2, <1>3
<1>5. \A i \in 1..m : i \in 1..(m + n) /\ s[i] = p[i]
  BY <1>1, <1>2, <1>3
<1>6. \A i \in 1..n : m + i \in 1..(m + n) /\ s[m + i] = q[i]
  BY <1>1, <1>2, <1>3
<1>7. ASSUME NEW i \in 1..(m + n)
      PROVE  i \in 1..m \/ \E k \in 1..n : i = m + k
  <2>1. CASE i > m
    <3>1. i - m \in 1..n /\ i = m + (i - m)
      BY <2>1
    <3>. QED
      BY <3>1
  <2>. QED
    BY <2>1
<1>8. Range(s) = Range(p) \cup Range(q)
  <2>1. \A x : x \in Range(s) <=> \E i \in 1..(m + n) : s[i] = x
    BY <1>4, Zenon DEF Range
  <2>2. \A x : x \in Range(p) <=> \E i \in 1..m : p[i] = x
    BY <1>1, Zenon DEF Range
  <2>3. \A x : x \in Range(q) <=> \E i \in 1..n : q[i] = x
    BY <1>2, Zenon DEF Range
  <2>4. \A x \in Range(s) : x \in Range(p) \/ x \in Range(q)
    <3>1. ASSUME NEW i \in 1..(m + n)
          PROVE  s[i] \in Range(p) \/ s[i] \in Range(q)
      <4>1. CASE i \in 1..m
        BY <1>5, <2>2, <4>1
      <4>2. ASSUME NEW k \in 1..n, i = m + k
            PROVE  s[i] \in Range(q)
        BY <1>6, <2>3, <4>2
      <4>. QED
        BY <1>7, <4>1, <4>2
    <3>. QED
      BY <2>1, <3>1
  <2>5. \A x \in Range(p) : x \in Range(s)
    BY <1>5, <2>1, <2>2
  <2>6. \A x \in Range(q) : x \in Range(s)
    BY <1>6, <2>1, <2>3
  <2>. QED
    BY <2>4, <2>5, <2>6
<1>9. ASSUME EachOnce(p), EachOnce(q), Range(p) \cap Range(q) = {},
             NEW i \in 1..(m + n), NEW j \in 1..(m + n), s[i] = s[j]
      PROVE  i = j
  <2>1. \A a \in 1..m, b \in 1..n : p[a] # q[b]
    BY <1>1, <1>2, <1>9 DEF Range
  <2>2. CASE i \in 1..m /\ j \in 1..m
    BY <1>1, <1>5, <1>9, <2>2 DEF EachOnce
  <2>3. ASSUME i \in 1..m, NEW k \in 1..n, j = m + k
        PROVE  FALSE
    <3>1. s[i] = p[i] /\ s[j] = q[k]
      BY <1>5, <1>6, <2>3
    <3>. QED
      BY <1>9, <2>1, <2>3, <3>1
  <2>4. ASSUME j \in 1..m, NEW k \in 1..n, i = m + k
        PROVE  FALSE
    <3>1. s[j] = p[j] /\ s[i] = q[k]
      BY <1>5, <1>6, <2>4
    <3>. QED
      BY <1>9, <2>1, <2>4, <3>1
  <2>5. ASSUME NEW a \in 1..n, i = m + a, NEW b \in 1..n, j = m + b
        PROVE  i = j
    BY <1>2, <1>6, <1>9, <2>5 DEF EachOnce
  <2>. QED
    BY <1>7, <2>2, <2>3, <2>4, <2>5
<1>10. EachOnce(p) /\ EachOnce(q) /\ Range(p) \cap Range(q) = {} => EachOnce(s)
  BY <1>4, <1>9 DEF EachOnce
<1>. QED
  BY <1>3, <1>8, <1>10

\* What flattening keeps of the parts.
Apart(ss) ==
  /\ \A i \in DOMAIN ss : EachOnce(ss[i])
  /\ \A i, j \in DOMAIN ss : i # j => Range(ss[i]) \cap Range(ss[j]) = {}
HasOf(r, ss, k) == \A x : x \in Range(r) <=> \E i \in 1..k : x \in Range(ss[i])
\* What is in sequences one after the other is in one of them.
LEMMA FlattenHas ==
  ASSUME NEW R, NEW ss \in Seq(Seq(R))
  PROVE  /\ HasOf(FlattenSeq(ss), ss, Len(ss))
         /\ Apart(ss) => EachOnce(FlattenSeq(ss))
<1>1. PICK n \in Nat : n = Len(ss) /\ DOMAIN ss = 1..n
  OBVIOUS
<1>2. PICK g \in [0..n -> Seq(R)] : Joined(g, ss)
  BY <1>1, JoinedExists
<1>3. FlattenSeq(ss) = g[n]
  BY <1>1, <1>2, FlattenJoined
<1> DEFINE P(k) == HasOf(g[k], ss, k) /\ (Apart(ss) => EachOnce(g[k]))
           S == {k \in 0..n : P(k)}
<1>4. 0 \in S
  <2>1. g[0] = <<>>
    BY <1>2 DEF Joined
  <2>2. DOMAIN <<>> = {} /\ 1..0 = {}
    OBVIOUS
  <2>3. HasOf(<<>>, ss, 0)
    BY <2>2, Zenon DEF HasOf, Range
  <2>4. EachOnce(<<>>)
    BY <2>2 DEF EachOnce
  <2>. QED
    BY <2>1, <2>3, <2>4
<1>5. ASSUME NEW k \in 0..(n - 1), k \in S
      PROVE  k + 1 \in S
  <2>1. k + 1 \in 1..n /\ k \in 0..n /\ k + 1 \in 0..n
    OBVIOUS
  <2>2. g[k + 1] = g[k] \o ss[k + 1]
    <3>1. (k + 1) - 1 = k
      OBVIOUS
    <3>. QED
      BY <1>1, <1>2, <2>1, <3>1, Zenon DEF Joined
  <2>3. PICK p \in Seq(R) : p = g[k]
    BY <2>1
  <2>4. PICK q \in Seq(R) : q = ss[k + 1]
    BY <1>1, <2>1
  <2>5. HasOf(p, ss, k) /\ (Apart(ss) => EachOnce(p))
    BY <1>5, <2>3
  <2>6. \A i : i \in 1..(k + 1) <=> i \in 1..k \/ i = k + 1
    OBVIOUS
  <2>7. HasOf(p \o q, ss, k + 1)
    <3>1. \A x : x \in Range(p \o q) <=> x \in Range(p) \/ x \in Range(q)
      BY ConcatHas
    <3>. QED
      BY <2>4, <2>5, <2>6, <3>1, Zenon DEF HasOf
  <2>8. ASSUME Apart(ss)
        PROVE  EachOnce(p \o q)
    <3>1. EachOnce(q)
      BY <1>1, <2>1, <2>4, <2>8 DEF Apart
    <3>2. ASSUME NEW x, x \in Range(p), x \in Range(q)
          PROVE  FALSE
      <4>1. PICK i \in 1..k : x \in Range(ss[i])
        BY <2>5, <3>2 DEF HasOf
      <4>2. i \in DOMAIN ss /\ k + 1 \in DOMAIN ss /\ i # k + 1
        BY <1>1, <2>1
      <4>. QED
        BY <2>4, <2>8, <3>2, <4>1, <4>2 DEF Apart
    <3>. QED
      BY <2>5, <2>8, <3>1, <3>2, ConcatHas
  <2>9. P(k + 1)
    BY <2>2, <2>3, <2>4, <2>7, <2>8
  <2>. QED
    BY <2>1, <2>9
<1> HIDE DEF S
<1>6. n \in S
  <2>1. \A k \in 0..(n - 1) : k \in S => k + 1 \in S
    BY <1>5
  <2>2. 0..n \subseteq S
    BY <1>4, <2>1, ReachedTo
  <2>. QED
    BY <2>2
<1>7. HasOf(g[n], ss, n) /\ (Apart(ss) => EachOnce(g[n]))
  BY <1>6 DEF S
<1>. QED
  BY <1>1, <1>3, <1>7, Zenon

\* A sequence with each element once is as long as they are many.
LEMMA OnceLong ==
  ASSUME NEW R, NEW s \in Seq(R), EachOnce(s)
  PROVE  IsFiniteSet(Range(s)) /\ Len(s) = Cardinality(Range(s))
<1>1. PICK n \in Nat : n = Len(s) /\ DOMAIN s = 1..n
  OBVIOUS
<1>2. s \in [1..n -> Range(s)]
  BY <1>1 DEF Range
<1>3. s \in Bijection(1..n, Range(s))
  <2>1. \A i, j \in 1..n : s[i] = s[j] => i = j
    BY <1>1 DEF EachOnce
  <2>2. \A y \in Range(s) : \E i \in 1..n : s[i] = y
    BY <1>1 DEF Range
  <2>. QED
    BY <1>2, <2>1, <2>2 DEF Bijection, Injection, Surjection, IsInjective
<1>4. ExistsBijection(1..n, Range(s))
  BY <1>3 DEF ExistsBijection
<1>5. IsFiniteSet(1..n) /\ Cardinality(1..n) = n
  <2>1. Cardinality(1..n) = IF 1 > n THEN 0 ELSE n - 1 + 1
    BY FS_Interval
  <2>. QED
    BY <2>1, FS_Interval
<1>. QED
  BY <1>1, <1>4, <1>5, FS_Bijection

-----------------------------------------------------------------------------
\* A record id is a record's.
IdsKept == (\A r \in rows : r.id \in Int) /\ \A a, b \in rows : a.id = b.id => a = b
\* Some records, each with its score.
ScoredBy(f) == {[id |-> r.id, score |-> f[r]] : r \in DOMAIN f}

\* Finitely many scores, no more than there are records.
LEMMA ScoredByIs ==
  ASSUME IInv, IdsKept, NEW A \in SUBSET rows, NEW f \in [A -> Int]
  PROVE  /\ IsFiniteSet(A) /\ Cardinality(A) \in Nat
         /\ ScoredBy(f) \in SUBSET Scored
         /\ IsFiniteSet(ScoredBy(f)) /\ Cardinality(ScoredBy(f)) \in Nat
         /\ Cardinality(ScoredBy(f)) <= Cardinality(A)
<1>1. IsFiniteSet(A) /\ Cardinality(A) \in Nat
  BY RowsAre, FS_Subset, FS_CardinalityType
<1>2. ScoredBy(f) \in SUBSET Scored
  BY DEF ScoredBy, Scored, IdsKept
<1>3. PICK e : e = [r \in A |-> [id |-> r.id, score |-> f[r]]]
  OBVIOUS
<1>4. ScoredBy(f) = {[id |-> r.id, score |-> f[r]] : r \in A}
  BY DEF ScoredBy
<1>5. e \in [A -> ScoredBy(f)]
  <2>1. \A r \in A : [id |-> r.id, score |-> f[r]] \in ScoredBy(f)
    BY <1>4
  <2>. QED
    BY <1>3, <2>1
<1>6. \A x \in ScoredBy(f) : \E r \in A : e[r] = x
  BY <1>3, <1>4
<1>7. e \in Surjection(A, ScoredBy(f))
  BY <1>5, <1>6 DEF Surjection
<1>8. IsFiniteSet(ScoredBy(f)) /\ Cardinality(ScoredBy(f)) <= Cardinality(A)
  BY <1>1, <1>7, FS_Surjection
<1>9. Cardinality(ScoredBy(f)) \in Nat
  BY <1>8, FS_CardinalityType
<1>. QED
  BY <1>1, <1>2, <1>8, <1>9

\* Cosines are whole numbers.
LEMMA CosineType ==
  ASSUME NEW v \in Int, NEW w \in Int
  PROVE  Cosine(v, w) \in Int /\ Quantized(v, w) \in Int
<1>1. Dirs \in Int
  BY RetrievalAssumption
<1>2. PICK c \in Int : c = Cosine(v, w)
  BY <1>1 DEF Cosine
<1>3. c \div 4 \in Int
  OBVIOUS
<1>. QED
  BY <1>2, <1>3 DEF Quantized

\* What an index says of some records.
Coarse(A, qvec) == [r \in A |-> Quantized(qvec, r.row.vector)]
\* And so are the directions of records.
LEMMA VectorsAre ==
  ASSUME IInv, NEW r \in rows
  PROVE  r.row.vector \in Int
BY RowsAre DEF RowRecords

\* What the index has for each record.
LEMMA CoarseType ==
  ASSUME IInv, NEW A \in SUBSET rows, NEW qvec \in Int
  PROVE  Coarse(A, qvec) \in [A -> Int]
<1>1. \A r \in A : Quantized(qvec, r.row.vector) \in Int
  BY VectorsAre, CosineType
<1>. QED
  BY <1>1 DEF Coarse

\* A search for as many as there are finds all.
LEMMA ScanAll ==
  ASSUME IInv, IdsKept, NEW A \in SUBSET rows, NEW qvec \in Int, NEW k \in Nat, Cardinality(A) <= k
  PROVE  /\ Range(Scan(A, qvec, k)) = ScoredBy(Coarse(A, qvec))
         /\ EachOnce(Scan(A, qvec, k)) /\ Scan(A, qvec, k) \in Seq(Scored)
<1>1. PICK set : set = ScoredBy(Coarse(A, qvec))
  OBVIOUS
<1>2. Scan(A, qvec, k) = Best(set, k)
  <2>1. set = {[id |-> r.id, score |-> Quantized(qvec, r.row.vector)] : r \in A}
    BY <1>1 DEF ScoredBy, Coarse
  <2>. QED
    BY <2>1 DEF Scan
<1>3. /\ set \in SUBSET Scored /\ IsFiniteSet(set) /\ Cardinality(set) \in Nat
      /\ Cardinality(set) <= Cardinality(A) /\ Cardinality(A) \in Nat
  BY <1>1, CoarseType, ScoredByIs
<1>4. Cardinality(set) <= k
  BY <1>3
<1>5. Range(Best(set, k)) = set /\ EachOnce(Best(set, k)) /\ Best(set, k) \in Seq(set)
  BY <1>3, <1>4, BestAll, BestOnce, BestIs
<1>6. Best(set, k) \in Seq(Scored)
  BY <1>3, <1>5
<1>. QED
  BY <1>1, <1>2, <1>5, <1>6

\* Numbers in their order.
Rising(S) == {p \in S \X S : p[1] < p[2]}
\* Numbers are in order.
LEMMA RisingOrders ==
  ASSUME NEW S \in SUBSET Int
  PROVE  Orders(Rising(S), S)
<1>1. \A a, b \in S : <<a, b>> \in Rising(S) <=> a < b
  BY DEF Rising
<1>. QED
  BY <1>1 DEF Orders

\* Sorting them.
LEMMA SortedNumbers ==
  ASSUME NEW S \in SUBSET Int, IsFiniteSet(S)
  PROVE  Lists(Sorted(S, <), Rising(S), S)
<1>1. PICK rank : rank = RankIn(Rising(S), S)
  OBVIOUS
<1>2. ASSUME NEW x \in S
      PROVE  {y \in S : y < x} = {y \in S : <<y, x>> \in Rising(S)}
  BY DEF Rising
<1>3. rank = [x \in S |-> Cardinality({y \in S : y < x})]
  BY <1>1, <1>2 DEF RankIn
<1>4. Sorted(S, <) = ByRank(S, [x \in S |-> Cardinality({y \in S : y < x})])
  BY DEF Sorted, ByRank
<1>5. Sorted(S, <) = ByRank(S, RankIn(Rising(S), S))
  BY <1>1, <1>3, <1>4
<1>. QED
  BY <1>5, RisingOrders, ByRankLists

-----------------------------------------------------------------------------
\* Places by their numbers, and of equals the first.
Greatest(f, n) == {p \in (1..n) \X (1..n) : f[p[1]] > f[p[2]] \/ (f[p[1]] = f[p[2]] /\ p[1] < p[2])}
\* Of equals the first: no two are at the same place.
LEMMA GreatestOrders ==
  ASSUME NEW n \in Nat, NEW f \in [1..n -> Int]
  PROVE  Orders(Greatest(f, n), 1..n)
<1>1. ASSUME NEW a \in 1..n, NEW b \in 1..n
      PROVE  <<a, b>> \in Greatest(f, n) <=> f[a] > f[b] \/ (f[a] = f[b] /\ a < b)
  BY DEF Greatest
<1>2. \A a \in 1..n : f[a] \in Int
  OBVIOUS
<1>3. ASSUME NEW a \in 1..n PROVE <<a, a>> \notin Greatest(f, n)
  BY <1>1, <1>2
<1>4. ASSUME NEW a \in 1..n, NEW b \in 1..n, a # b
      PROVE  <<a, b>> \in Greatest(f, n) \/ <<b, a>> \in Greatest(f, n)
  BY <1>1, <1>2, <1>4
<1>5. ASSUME NEW a \in 1..n, NEW b \in 1..n, NEW c \in 1..n,
             <<a, b>> \in Greatest(f, n), <<b, c>> \in Greatest(f, n)
      PROVE  <<a, c>> \in Greatest(f, n)
  BY <1>1, <1>2, <1>5
<1>. QED
  BY <1>3, <1>4, <1>5, Zenon DEF Orders

\* The places, sorted, are the places.
LEMMA ListsPlaces ==
  ASSUME NEW n \in Nat, NEW f \in [1..n -> Int], NEW s,
         s = ByRank(1..n, RankIn(Greatest(f, n), 1..n))
  PROVE  s \in Seq(1..n) /\ Len(s) = n /\ Range(s) = 1..n
<1>1. IsFiniteSet(1..n) /\ Cardinality(1..n) = n
  <2>1. Cardinality(1..n) = IF 1 > n THEN 0 ELSE n - 1 + 1
    BY FS_Interval
  <2>. QED
    BY <2>1, FS_Interval
<1>2. Lists(s, Greatest(f, n), 1..n)
  BY <1>1, GreatestOrders, ByRankLists
<1>. QED
  BY <1>1, <1>2 DEF Lists

\* There is a nearest centroid.
LEMMA NearestFirstIs ==
  ASSUME NEW v \in Int
  PROVE  NearestFirst(v)[1] \in DOMAIN Centroids
<1>1. PICK n \in Nat : n = Len(Centroids) /\ DOMAIN Centroids = 1..n /\ n >= 1
  BY VectorsAssumption, RetrievalAssumption
<1>2. PICK f : f = [i \in 1..n |-> Cosine(v, Centroids[i])]
  OBVIOUS
<1>3. f \in [1..n -> Int]
  <2>1. \A i \in 1..n : Centroids[i] \in Int
    BY <1>1, VectorsAssumption
  <2>2. \A i \in 1..n : Cosine(v, Centroids[i]) \in Int
    BY <2>1, CosineType
  <2>. QED
    BY <1>2, <2>2
<1>4. PICK s : s = ByRank(1..n, RankIn(Greatest(f, n), 1..n))
  OBVIOUS
<1>5. s \in Seq(1..n) /\ Len(s) = n
  BY <1>3, <1>4, ListsPlaces
<1>6. ASSUME NEW x \in 1..n
      PROVE  {y \in 1..n : \/ Cosine(v, Centroids[y]) > Cosine(v, Centroids[x])
                           \/ Cosine(v, Centroids[y]) = Cosine(v, Centroids[x]) /\ y < x}
               = {y \in 1..n : <<y, x>> \in Greatest(f, n)}
  <2>1. \A y \in 1..n : <<y, x>> \in Greatest(f, n) <=>
                          \/ Cosine(v, Centroids[y]) > Cosine(v, Centroids[x])
                          \/ Cosine(v, Centroids[y]) = Cosine(v, Centroids[x]) /\ y < x
    BY <1>2 DEF Greatest
  <2>. QED
    BY <2>1
<1>7. RankIn(Greatest(f, n), 1..n) =
        [x \in 1..n |-> Cardinality({y \in 1..n :
                           \/ Cosine(v, Centroids[y]) > Cosine(v, Centroids[x])
                           \/ Cosine(v, Centroids[y]) = Cosine(v, Centroids[x]) /\ y < x})]
  BY <1>6 DEF RankIn
<1>8. NearestFirst(v) =
        ByRank(DOMAIN Centroids,
               [x \in DOMAIN Centroids |-> Cardinality({y \in DOMAIN Centroids :
                           \/ Cosine(v, Centroids[y]) > Cosine(v, Centroids[x])
                           \/ Cosine(v, Centroids[y]) = Cosine(v, Centroids[x]) /\ y < x})])
  BY DEF NearestFirst, Sorted, ByRank
<1>9. NearestFirst(v) = s
  BY <1>1, <1>4, <1>7, <1>8, Zenon
<1>. QED
  BY <1>1, <1>5, <1>9

\* How the parts of a search are merged.
Parts(pp, A, qvec, k) == FlattenSeq([i \in DOMAIN pp |-> Scan(A \cap Shard(pp[i]), qvec, k)])
PlacesOf(ps) ==
  ByRank(DOMAIN ps, [x \in DOMAIN ps |->
                       Cardinality({y \in DOMAIN ps : \/ ps[y].score > ps[x].score
                                                      \/ (ps[y].score = ps[x].score /\ y < x)})])
Merged(ps, k) == [i \in 1..Min({k, Len(ps)}) |-> ps[PlacesOf(ps)[i]]]

\* _IvfIndex.search, by its parts.
LEMMA IvfMerges ==
  ASSUME NEW qvec, NEW k, NEW A, NEW masked, NEW nprobe
  PROVE  IvfSearch(qvec, k, A, masked, nprobe) = Merged(Parts(Probed(qvec, A, masked, nprobe), A, qvec, k), k)
BY DEF IvfSearch, Sorted, ByRank, Merged, Parts, PlacesOf

\* Where there are no more than k, merging keeps all.
LEMMA MergedAll ==
  ASSUME NEW ps \in Seq(Scored), NEW k \in Nat, Len(ps) <= k
  PROVE  Range(Merged(ps, k)) = Range(ps)
<1>1. PICK m \in Nat : m = Len(ps) /\ DOMAIN ps = 1..m /\ m <= k
  OBVIOUS
<1>2. PICK f : f = [i \in 1..m |-> ps[i].score]
  OBVIOUS
<1>3. f \in [1..m -> Int]
  <2>1. \A i \in 1..m : ps[i] \in Scored
    BY <1>1
  <2>2. \A i \in 1..m : ps[i].score \in Int
    BY <2>1 DEF Scored
  <2>. QED
    BY <1>2, <2>2
<1>4. RankIn(Greatest(f, m), 1..m) =
        [x \in 1..m |-> Cardinality({y \in 1..m : \/ ps[y].score > ps[x].score
                                                  \/ (ps[y].score = ps[x].score /\ y < x)})]
  <2>1. ASSUME NEW x \in 1..m
        PROVE  {y \in 1..m : \/ ps[y].score > ps[x].score \/ (ps[y].score = ps[x].score /\ y < x)}
                 = {y \in 1..m : <<y, x>> \in Greatest(f, m)}
    <3>1. \A y \in 1..m : <<y, x>> \in Greatest(f, m) <=>
                            \/ ps[y].score > ps[x].score
                            \/ (ps[y].score = ps[x].score /\ y < x)
      BY <1>2 DEF Greatest
    <3>. QED
      BY <3>1
  <2>. QED
    BY <2>1 DEF RankIn
<1>5. PICK order : order = PlacesOf(ps)
  OBVIOUS
<1>6. order = ByRank(1..m, RankIn(Greatest(f, m), 1..m))
  BY <1>1, <1>4, <1>5, Zenon DEF PlacesOf
<1>7. order \in Seq(1..m) /\ Len(order) = m /\ Range(order) = 1..m
  BY <1>3, <1>6, ListsPlaces
<1>8. DOMAIN order = 1..m
  BY <1>7
<1>9. PICK found : found = [i \in 1..m |-> ps[order[i]]]
  OBVIOUS
<1>10. Merged(ps, k) = found
  <2>1. Min({k, Len(ps)}) = m
    BY <1>1, MinOf
  <2>. QED
    BY <1>5, <1>9, <2>1 DEF Merged
<1>11. \A x : x \in Range(order) <=> \E i \in 1..m : order[i] = x
  BY <1>8, Zenon DEF Range
<1>12. \A x : x \in Range(ps) <=> \E i \in 1..m : ps[i] = x
  BY <1>1, Zenon DEF Range
<1>13. \A x : x \in Range(found) <=> \E i \in 1..m : ps[order[i]] = x
  BY <1>9 DEF Range
<1>14. \A x \in Range(found) : x \in Range(ps)
  BY <1>7, <1>11, <1>12, <1>13
<1>15. ASSUME NEW x \in Range(ps)  PROVE x \in Range(found)
  <2>1. PICK i \in 1..m : ps[i] = x
    BY <1>12
  <2>2. PICK j \in 1..m : order[j] = i
    BY <1>7, <1>11, <2>1
  <2>3. x = ps[order[j]]
    BY <2>1, <2>2
  <2>. QED
    BY <1>13, <2>3
<1>16. Range(found) = Range(ps)
  BY <1>14, <1>15
<1>. QED
  BY <1>10, <1>16

\* The parts of a search of the shards that own what it may find.
LEMMA IvfAll ==
  ASSUME IInv, IdsKept, NEW A \in SUBSET rows, NEW qvec \in Int, NEW k \in Nat,
         Cardinality(A) <= k, Cardinality(A) <= Tiny, NEW nprobe
  PROVE  Range(IvfSearch(qvec, k, A, TRUE, nprobe)) = ScoredBy(Coarse(A, qvec))
<1>1. PICK Js : Js = {j \in DOMAIN Centroids : A \cap Shard(j) # {}}
  OBVIOUS
<1>2. Js \in SUBSET Int /\ IsFiniteSet(Js) /\ Js \subseteq DOMAIN Centroids
  <2>1. PICK n \in Nat : DOMAIN Centroids = 1..n
    BY VectorsAssumption
  <2>2. IsFiniteSet(1..n)
    BY FS_Interval
  <2>3. Js \in SUBSET (1..n)
    BY <1>1, <2>1
  <2>4. IsFiniteSet(Js)
    BY <2>2, <2>3, FS_Subset
  <2>5. Js \in SUBSET Int
    BY <2>3
  <2>. QED
    BY <1>1, <2>4, <2>5
<1>3. PICK probed : probed = Sorted(Js, <)
  OBVIOUS
<1>4. probed \in Seq(Js) /\ Range(probed) = Js /\ EachOnce(probed)
  <2>1. Lists(probed, Rising(Js), Js)
    BY <1>2, <1>3, SortedNumbers
  <2>. QED
    BY <1>2, <2>1, RisingOrders, ListsOnce DEF Lists
<1>5. Probed(qvec, A, TRUE, nprobe) = probed
  BY <1>1, <1>3 DEF Probed
<1>6. PICK n \in Nat : n = Len(probed) /\ DOMAIN probed = 1..n
  BY <1>4
<1>7. PICK ss : ss = [i \in 1..n |-> Scan(A \cap Shard(probed[i]), qvec, k)]
  OBVIOUS
<1>8. PICK parts : parts = FlattenSeq(ss)
  OBVIOUS
<1>9. ASSUME NEW i \in 1..n
      PROVE  /\ Range(ss[i]) = ScoredBy(Coarse(A \cap Shard(probed[i]), qvec))
             /\ EachOnce(ss[i]) /\ ss[i] \in Seq(Scored)
  <2>1. PICK B : B = A \cap Shard(probed[i])
    OBVIOUS
  <2>2. B \in SUBSET rows /\ B \in SUBSET A
    BY <2>1
  <2>3. IsFiniteSet(A) /\ Cardinality(A) \in Nat
    BY RowsAre, FS_Subset, FS_CardinalityType
  <2>4. Cardinality(B) <= Cardinality(A) /\ Cardinality(B) \in Nat
    BY <2>2, <2>3, FS_Subset, FS_CardinalityType
  <2>5. Cardinality(B) <= k
    BY <2>3, <2>4
  <2>6. ss[i] = Scan(B, qvec, k)
    BY <1>7, <2>1
  <2>. QED
    BY <2>1, <2>2, <2>5, <2>6, ScanAll
<1>10. ss \in Seq(Seq(Scored)) /\ Len(ss) = n /\ DOMAIN ss = 1..n
  <2>1. \A i \in 1..n : ss[i] \in Seq(Scored)
    BY <1>9
  <2>2. ss = [i \in 1..n |-> ss[i]]
    BY <1>7, Zenon
  <2>3. ss \in [1..n -> Seq(Scored)]
    BY <2>1, <2>2
  <2>. QED
    BY <2>3
<1>11. ASSUME NEW j, NEW x
       PROVE  x \in ScoredBy(Coarse(A \cap Shard(j), qvec)) <=>
                \E r \in A : NearestFirst(r.row.vector)[1] = j
                             /\ x = [id |-> r.id, score |-> Quantized(qvec, r.row.vector)]
  <2>1. A \cap Shard(j) = {r \in A : NearestFirst(r.row.vector)[1] = j}
    BY DEF Shard
  <2>. QED
    BY <2>1 DEF ScoredBy, Coarse
<1>12. \A x : x \in Range(parts) <=> \E i \in 1..n : x \in Range(ss[i])
  BY <1>8, <1>10, FlattenHas DEF HasOf
<1>13. Range(parts) = ScoredBy(Coarse(A, qvec))
  <2>1. \A x : x \in ScoredBy(Coarse(A, qvec)) <=>
               \E r \in A : x = [id |-> r.id, score |-> Quantized(qvec, r.row.vector)]
    BY DEF ScoredBy, Coarse
  <2>2. ASSUME NEW x \in Range(parts)
        PROVE  x \in ScoredBy(Coarse(A, qvec))
    <3>1. PICK i \in 1..n : x \in Range(ss[i])
      BY <1>12
    <3>2. x \in ScoredBy(Coarse(A \cap Shard(probed[i]), qvec))
      BY <1>9, <3>1
    <3>3. \E r \in A : x = [id |-> r.id, score |-> Quantized(qvec, r.row.vector)]
      BY <1>11, <3>2
    <3>. QED
      BY <2>1, <3>3
  <2>3. ASSUME NEW r \in A
        PROVE  [id |-> r.id, score |-> Quantized(qvec, r.row.vector)] \in Range(parts)
    <3>1. PICK j \in DOMAIN Centroids : j = NearestFirst(r.row.vector)[1]
      BY VectorsAre, NearestFirstIs
    <3>2. r \in A \cap Shard(j)
      BY <3>1 DEF Shard
    <3>3. j \in Range(probed)
      BY <1>1, <1>4, <3>2
    <3>4. PICK i \in 1..n : probed[i] = j
      BY <1>6, <3>3 DEF Range
    <3>5. [id |-> r.id, score |-> Quantized(qvec, r.row.vector)] \in Range(ss[i])
      <4>1. [id |-> r.id, score |-> Quantized(qvec, r.row.vector)] \in ScoredBy(Coarse(A \cap Shard(j), qvec))
        BY <1>11, <3>1
      <4>. QED
        BY <1>9, <3>4, <4>1
    <3>. QED
      BY <1>12, <3>5
  <2>4. \A x \in ScoredBy(Coarse(A, qvec)) : x \in Range(parts)
    BY <2>1, <2>3
  <2>. QED
    BY <2>2, <2>4
<1>14. Apart(ss)
  <2>1. ASSUME NEW i \in 1..n, NEW j \in 1..n, NEW x, x \in Range(ss[i]), x \in Range(ss[j])
        PROVE  i = j
    <3>1. PICK r \in A : NearestFirst(r.row.vector)[1] = probed[i] /\ x.id = r.id
      <4>1. x \in ScoredBy(Coarse(A \cap Shard(probed[i]), qvec))
        BY <1>9, <2>1
      <4>2. PICK a \in A : /\ NearestFirst(a.row.vector)[1] = probed[i]
                           /\ x = [id |-> a.id, score |-> Quantized(qvec, a.row.vector)]
        BY <1>11, <4>1
      <4>. QED
        BY <4>2
    <3>2. PICK s \in A : NearestFirst(s.row.vector)[1] = probed[j] /\ x.id = s.id
      <4>1. x \in ScoredBy(Coarse(A \cap Shard(probed[j]), qvec))
        BY <1>9, <2>1
      <4>2. PICK a \in A : /\ NearestFirst(a.row.vector)[1] = probed[j]
                           /\ x = [id |-> a.id, score |-> Quantized(qvec, a.row.vector)]
        BY <1>11, <4>1
      <4>. QED
        BY <4>2
    <3>3. r = s
      BY <3>1, <3>2 DEF IdsKept
    <3>. QED
      BY <1>4, <1>6, <3>1, <3>2, <3>3 DEF EachOnce
  <2>. QED
    BY <1>9, <1>10, <2>1 DEF Apart
<1>15. parts \in Seq(Scored) /\ EachOnce(parts)
  BY <1>8, <1>10, <1>14, FlattenType, FlattenHas
<1>16. Len(parts) <= k
  <2>1. Len(parts) = Cardinality(ScoredBy(Coarse(A, qvec)))
    BY <1>13, <1>15, OnceLong
  <2>2. /\ Cardinality(ScoredBy(Coarse(A, qvec))) <= Cardinality(A) /\ Cardinality(A) \in Nat
        /\ Cardinality(ScoredBy(Coarse(A, qvec))) \in Nat
    BY CoarseType, ScoredByIs
  <2>. QED
    BY <2>1, <2>2
<1>17. IvfSearch(qvec, k, A, TRUE, nprobe) = Merged(parts, k)
  <2>1. parts = Parts(probed, A, qvec, k)
    BY <1>6, <1>7, <1>8, Zenon DEF Parts
  <2>. QED
    BY <1>5, <2>1, IvfMerges
<1>. QED
  BY <1>13, <1>15, <1>16, <1>17, MergedAll

-----------------------------------------------------------------------------
\* A filter depends on the records only.
LEMMA SameFilter ==
  ASSUME rows' = rows, NEW scope, NEW filt
  PROVE  Filtered(scope, filt)' = Filtered(scope, filt)
BY DEF Filtered

\* And so does what a question comes down to.
LEMMA SameAsked ==
  ASSUME rows' = rows, question' = question
  PROVE  /\ Plain(question)' <=> Plain(question)
         /\ Filtered(question.scope, question.filt)' = Filtered(question.scope, question.filt)
         /\ RescoreK(Depth(question))' = RescoreK(Depth(question))
         /\ QueryVector(question)' = QueryVector(question)
         /\ Depth(question)' = Depth(question)
<1>1. Plain(question)' <=> Plain(question)
  BY DEF Plain, Has
<1>2. Filtered(question.scope, question.filt)' = Filtered(question.scope, question.filt)
  BY DEF Filtered
<1>3. RescoreK(Depth(question))' = RescoreK(Depth(question))
  BY DEF RescoreK, Depth
<1>4. QueryVector(question)' = QueryVector(question)
  BY DEF QueryVector
<1>5. Depth(question)' = Depth(question)
  BY DEF Depth
<1>. QED
  BY <1>1, <1>2, <1>3, <1>4, <1>5

\* A step that leaves what the vector leg was made of.
LEMMA SameFiltered ==
  ASSUME rows' = rows, question' = question, ivf' = ivf, legs'.vec = legs.vec, FilteredIsExact
  PROVE  FilteredIsExact'
BY SameAsked, Zenon DEF FilteredIsExact

\* Finitely many numbers have a greatest.
LEMMA GreatestOfAll ==
  ASSUME NEW S \in SUBSET Int, IsFiniteSet(S), S # {}
  PROVE  Max(S) \in S /\ \A x \in S : x <= Max(S)
<1>1. PICK s : Lists(s, Rising(S), S)
  BY SortedNumbers
<1>2. PICK n \in Nat : n = Len(s) /\ DOMAIN s = 1..n /\ \A i \in 1..n : s[i] \in S
  BY <1>1 DEF Lists
<1>3. \A x \in S : \E i \in 1..n : s[i] = x
  <2>1. Range(s) = S
    BY <1>1 DEF Lists
  <2>2. \A x : x \in Range(s) <=> \E i \in 1..n : s[i] = x
    BY <1>2, Zenon DEF Range
  <2>. QED
    BY <2>1, <2>2
<1>4. n \in 1..n
  <2>1. PICK x \in S : TRUE
    OBVIOUS
  <2>2. PICK i \in 1..n : s[i] = x
    BY <1>3
  <2>. QED
    BY <1>2
<1>5. ASSUME NEW i \in 1..n
      PROVE  s[n] >= s[i]
  <2>1. CASE i < n
    <3>1. <<s[i], s[n]>> \in Rising(S)
      BY <1>1, <1>2, <1>4, <2>1 DEF Lists
    <3>2. s[i] < s[n]
      BY <3>1 DEF Rising
    <3>3. s[i] \in Int /\ s[n] \in Int
      BY <1>2, <1>4
    <3>. QED
      BY <3>2, <3>3
  <2>2. CASE ~(i < n)
    <3>1. i = n
      BY <1>2, <2>2
    <3>2. PICK x \in Int : x = s[n]
      BY <1>2, <1>4
    <3>. QED
      BY <3>1, <3>2
  <2>. QED
    BY <2>1, <2>2
<1>6. \E x \in S : \A y \in S : x >= y
  <2>1. \A y \in S : s[n] >= y
    BY <1>3, <1>5
  <2>. QED
    BY <1>2, <1>4, <2>1
<1>7. Max(S) \in S /\ \A y \in S : Max(S) >= y
  BY <1>6 DEF Max
<1>. QED
  BY <1>7

\* What a job does to the records.
LEMMA WorkRows ==
  ASSUME IInv, Work
  PROVE  \/ rows' = rows
         \/ \E n \in Seq(Rows) :
              rows' = (rows \ GoneFor(n, rows)) \cup PutAfter(n, Max({0} \cup {r.id : r \in rows}))
<1> DEFINE new(i) == Vectored(PayloadRows(Decode(jobs[i].data)), Embed)
           top == Max({0} \cup {r.id : r \in rows})
           gone(i) == {r \in rows : \E j \in DOMAIN new(i) : new(i)[j].ext = r.row.ext}
           put(i) == {Stored(top + j, new(i)[j], TRUE) : j \in DOMAIN new(i)}
<1>1. PICK i \in DOMAIN jobs :
        \/ Decodable(jobs[i].data) /\ rows' = (rows \ gone(i)) \cup put(i)
        \/ rows' = rows
  BY Zenon DEF Work
<1>2. jobs[i] \in JobRecords /\ DataKept(jobs[i])
  BY DEF IInv, JobsKept
<1>3. PICK docs \in Seq(Documents(Texts)) : docs = jobs[i].docs
  BY <1>2 DEF JobRecords
<1>4. CASE Decodable(jobs[i].data) /\ rows' = (rows \ gone(i)) \cup put(i)
  <2>1. Decode(jobs[i].data) = docs
    BY <1>2, <1>3, <1>4, DecodedIsPosted
  <2>2. PICK n : n = Vectored(PayloadRows(docs), Embed)
    OBVIOUS
  <2>3. n \in Seq(SaidRows(Texts, Embed))
    BY <2>2, NewRowsSay
  <2>4. n \in Seq(Rows)
    BY <2>3 DEF Rows
  <2>5. new(i) = n
    BY <2>1, <2>2, Zenon
  <2>6. PICK t : t = top
    OBVIOUS
  <2>7. rows' = (rows \ GoneFor(n, rows)) \cup PutAfter(n, t)
    <3> HIDE DEF top, new
    <3>1. gone(i) = GoneFor(n, rows)
      BY <2>5, Zenon DEF GoneFor
    <3>2. put(i) = PutAfter(n, t)
      BY <2>5, <2>6, Zenon DEF PutAfter
    <3>. QED
      BY <1>4, <3>1, <3>2, Zenon
  <2>. QED
    BY <2>4, <2>6, <2>7
<1>. QED
  BY <1>1, <1>4

\* At first ids are places.
LEMMA InitIdsKept == Init => IdsKept
<1> SUFFICES ASSUME Init PROVE IdsKept
  OBVIOUS
<1>1. rows = {Stored(i, Old[i], FALSE) : i \in DOMAIN Old} /\ DOMAIN Old \subseteq Int
  BY OldAssumption DEF Init
<1>2. ASSUME NEW r \in rows
      PROVE  \E i \in DOMAIN Old : r = Stored(i, Old[i], FALSE) /\ r.id = i
  BY <1>1 DEF Stored
<1>3. \A r \in rows : r.id \in Int
  BY <1>1, <1>2
<1>4. ASSUME NEW a \in rows, NEW b \in rows, a.id = b.id
      PROVE  a = b
  <2>1. PICK i \in DOMAIN Old : a = Stored(i, Old[i], FALSE) /\ a.id = i
    BY <1>2
  <2>2. PICK j \in DOMAIN Old : b = Stored(j, Old[j], FALSE) /\ b.id = j
    BY <1>2
  <2>. QED
    BY <1>4, <2>1, <2>2
<1>. QED
  BY <1>3, <1>4 DEF IdsKept

\* A job gives its rows ids above all others.
LEMMA WorkIdsKept ==
  ASSUME IInv, IdsKept, Work
  PROVE  IdsKept'
<1>1. CASE rows' = rows
  BY <1>1 DEF IdsKept
<1>2. ASSUME NEW n \in Seq(Rows),
             rows' = (rows \ GoneFor(n, rows)) \cup PutAfter(n, Max({0} \cup {r.id : r \in rows}))
      PROVE  IdsKept'
  <2>1. PICK ids : ids = {r.id : r \in rows}
    OBVIOUS
  <2>2. ids \in SUBSET Int /\ IsFiniteSet(ids)
    <3>1. PICK f : f = [r \in rows |-> r.id]
      OBVIOUS
    <3>2. f \in Surjection(rows, ids)
      <4>1. \A r \in rows : r.id \in ids
        BY <2>1
      <4>2. f \in [rows -> ids]
        BY <3>1, <4>1
      <4>3. \A x \in ids : \E r \in rows : f[r] = x
        BY <2>1, <3>1
      <4>. QED
        BY <4>2, <4>3 DEF Surjection
    <3>3. IsFiniteSet(ids)
      BY <3>2, RowsAre, FS_Surjection
    <3>. QED
      BY <2>1, <3>3 DEF IdsKept
  <2>3. PICK set : set = {0} \cup ids
    OBVIOUS
  <2>4. set \in SUBSET Int /\ IsFiniteSet(set) /\ set # {}
    <3>1. IsFiniteSet(set)
      BY <2>2, <2>3, FS_AddElement
    <3>. QED
      BY <2>2, <2>3, <3>1
  <2>5. PICK top \in Int : top = Max(set) /\ \A x \in set : x <= top
    BY <2>4, GreatestOfAll
  <2>6. \A r \in rows : r.id \in Int /\ r.id <= top
    BY <2>1, <2>3, <2>5 DEF IdsKept
  <2>7. PICK m \in Nat : DOMAIN n = 1..m
    OBVIOUS
  <2>8. rows' = (rows \ GoneFor(n, rows)) \cup PutAfter(n, top)
    BY <1>2, <2>1, <2>3, <2>5
  <2>9. ASSUME NEW a \in rows'
        PROVE  a \in rows \/ \E j \in 1..m : a = Stored(top + j, n[j], TRUE) /\ a.id = top + j
    <3>1. ASSUME NEW j \in 1..m
          PROVE  Stored(top + j, n[j], TRUE).id = top + j
      BY DEF Stored
    <3>2. a \in rows \/ a \in PutAfter(n, top)
      BY <2>8
    <3>3. a \in PutAfter(n, top) => \E j \in 1..m : a = Stored(top + j, n[j], TRUE)
      BY <2>7 DEF PutAfter
    <3>. QED
      BY <3>1, <3>2, <3>3
  <2>12. \A j \in 1..m : top + j \in Int /\ top + j > top
    OBVIOUS
  <2>13. \A j, k \in 1..m : top + j = top + k => j = k
    OBVIOUS
  <2>10. \A a \in rows' : a.id \in Int
    BY <2>6, <2>9, <2>12, Zenon
  <2>11. ASSUME NEW a \in rows', NEW b \in rows', a.id = b.id
         PROVE  a = b
    <3>1. CASE a \in rows /\ b \in rows
      BY <2>11, <3>1 DEF IdsKept
    <3>2. ASSUME a \in rows, NEW j \in 1..m, b.id = top + j
          PROVE  FALSE
      <4>1. PICK x \in Int : x = a.id /\ x <= top
        BY <2>6, <3>2
      <4>2. x = top + j
        BY <2>11, <3>2, <4>1, Zenon
      <4>3. top + j > top
        BY <2>12
      <4>. QED
        BY <4>1, <4>2, <4>3
    <3>3. ASSUME b \in rows, NEW j \in 1..m, a.id = top + j
          PROVE  FALSE
      <4>1. PICK x \in Int : x = b.id /\ x <= top
        BY <2>6, <3>3
      <4>2. x = top + j
        BY <2>11, <3>3, <4>1, Zenon
      <4>3. top + j > top
        BY <2>12
      <4>. QED
        BY <4>1, <4>2, <4>3
    <3>4. ASSUME NEW j \in 1..m, a = Stored(top + j, n[j], TRUE), a.id = top + j,
                 NEW k \in 1..m, b = Stored(top + k, n[k], TRUE), b.id = top + k
          PROVE  a = b
      <4>1. top + j = top + k
        BY <2>11, <3>4, Zenon
      <4>2. j = k
        BY <2>13, <4>1, Zenon
      <4>. QED
        BY <3>4, <4>2, Zenon
    <3>. QED
      BY <2>9, <3>1, <3>2, <3>3, <3>4
  <2>. QED
    BY <2>10, <2>11 DEF IdsKept
<1>. QED
  BY <1>1, <1>2, WorkRows

-----------------------------------------------------------------------------
\* How deep the index is asked.
LEMMA RescoreKType ==
  ASSUME IInv, NEW n \in Nat
  PROVE  RescoreK(n) \in Nat
<1>1. PICK c \in Nat : c = Cardinality(rows)
  BY RowsAre, FS_CardinalityType
<1>2. PICK a \in Int : a = Max({RescoreFloor, RescoreMult * n})
  <2>1. RescoreFloor \in Int /\ RescoreMult \in Int
    BY RetrievalAssumption
  <2>2. PICK b \in Int : b = RescoreMult * n
    BY <2>1
  <2>. QED
    BY <2>1, <2>2, OfTwo
<1>3. PICK cap \in Int : cap = RescoreCap
  BY RetrievalAssumption
<1>4. Min({a, cap, c}) \in Int
  <2>1. \E x \in {a, cap, c} : \A y \in {a, cap, c} : x <= y
    OBVIOUS
  <2>2. Min({a, cap, c}) \in {a, cap, c}
    BY <2>1 DEF Min
  <2>. QED
    BY <2>2
<1>5. PICK m \in Int : m = Min({a, cap, c})
  BY <1>4
<1>6. Max({1, m}) \in Nat
  BY MaxOf2
<1>7. RescoreK(n) = Max({1, m})
  BY <1>1, <1>2, <1>3, <1>5, Zenon DEF RescoreK
<1>. QED
  BY <1>6, <1>7

\* The score of a record by its vector, where that is retained.
ScoreOf(qvec, r) == IF r.blob THEN Cosine(qvec, r.row.vector) ELSE Quantized(qvec, r.row.vector)
Exactly(A, qvec) == {[id |-> r.id, score |-> ScoreOf(qvec, r)] : r \in A}

\* An id leads back to its record.
LEMMA RowIs ==
  ASSUME IdsKept, NEW r \in rows
  PROVE  Row(r.id) = r
<1>1. \A s \in rows : s.id = r.id => s = r
  BY DEF IdsKept
<1>. QED
  BY <1>1 DEF Row

\* Found by the index, ranked by the vectors.
LEMMA RescoredIs ==
  ASSUME IdsKept, NEW A \in SUBSET rows, NEW qvec \in Int, NEW n, NEW found,
         Range(found) = ScoredBy(Coarse(A, qvec))
  PROVE  Rescored(qvec, found, n) = Best(Exactly(A, qvec), n)
<1> DEFINE E(x) == [id |-> x.id, score |-> IF Row(x.id).blob THEN Cosine(qvec, Row(x.id).row.vector)
                                           ELSE x.score]
<1>1. \A x : x \in Range(found) <=> \E r \in A : x = [id |-> r.id, score |-> Quantized(qvec, r.row.vector)]
  BY DEF ScoredBy, Coarse
<1>2. ASSUME NEW r \in A
      PROVE  E([id |-> r.id, score |-> Quantized(qvec, r.row.vector)]) = [id |-> r.id, score |-> ScoreOf(qvec, r)]
  BY RowIs DEF ScoreOf
<1>3. PICK set : set = {E(x) : x \in Range(found)}
  OBVIOUS
<1>4. set = Exactly(A, qvec)
  <2>1. ASSUME NEW x \in Range(found)
        PROVE  E(x) \in Exactly(A, qvec)
    <3>1. PICK r \in A : x = [id |-> r.id, score |-> Quantized(qvec, r.row.vector)]
      BY <1>1
    <3>2. E(x) = [id |-> r.id, score |-> ScoreOf(qvec, r)]
      BY <1>2, <3>1
    <3> HIDE DEF E
    <3>. QED
      BY <3>2 DEF Exactly
  <2>2. ASSUME NEW r \in A
        PROVE  [id |-> r.id, score |-> ScoreOf(qvec, r)] \in set
    <3>1. PICK x \in Range(found) : x = [id |-> r.id, score |-> Quantized(qvec, r.row.vector)]
      BY <1>1
    <3>2. E(x) = [id |-> r.id, score |-> ScoreOf(qvec, r)]
      BY <1>2, <3>1
    <3> HIDE DEF E
    <3>. QED
      BY <1>3, <3>2
  <2> HIDE DEF E
  <2>3. \A y \in set : y \in Exactly(A, qvec)
    BY <1>3, <2>1
  <2>4. \A y \in Exactly(A, qvec) : y \in set
    BY <2>2 DEF Exactly
  <2>. QED
    BY <2>3, <2>4
<1>. QED
  BY <1>3, <1>4 DEF Rescored

\* A search of an allowlist no larger than the over-fetch (and small, with shards) ranks all of it.
LEMMA AllowedExact ==
  ASSUME IInv, IdsKept, NEW A \in SUBSET rows, NEW qvec \in Int, NEW n \in Nat, NEW nprobe,
         Cardinality(A) <= RescoreK(n), ivf => Cardinality(A) <= Tiny
  PROVE  SearchAllowed(qvec, n, A, nprobe) = Best(Exactly(A, qvec), n)
<1>1. CASE \A r \in A : r.blob
  <2>1. {[id |-> r.id, score |-> Cosine(qvec, r.row.vector)] : r \in A} = Exactly(A, qvec)
    BY <1>1 DEF Exactly, ScoreOf
  <2>. QED
    BY <1>1, <2>1, Zenon DEF SearchAllowed
<1>2. CASE ~ \A r \in A : r.blob
  <2>1. PICK k \in Nat : k = RescoreK(n)
    BY RescoreKType
  <2>2. PICK found : found = IndexSearch(qvec, k, A, TRUE, nprobe)
    OBVIOUS
  <2>3. Range(found) = ScoredBy(Coarse(A, qvec))
    <3>1. CASE ivf
      BY <2>1, <2>2, <3>1, IvfAll DEF IndexSearch
    <3>2. CASE ~ivf
      BY <2>1, <2>2, <3>2, ScanAll DEF IndexSearch
    <3>. QED
      BY <3>1, <3>2
  <2>4. Rescored(qvec, found, n) = Best(Exactly(A, qvec), n)
    BY <2>3, RescoredIs
  <2>5. SearchAllowed(qvec, n, A, nprobe) = Rescored(qvec, found, n)
    BY <1>2, <2>1, <2>2, Zenon DEF SearchAllowed, SearchRescored
  <2>. QED
    BY <2>4, <2>5
<1>. QED
  BY <1>1, <1>2

\* What a question needs for its legs is there.
LEMMA QuestionHas ==
  ASSUME NEW q \in Questions
  PROVE  /\ Needs(q, "vec") => q.mode \in {"vector", "hybrid"} /\ QueryVector(q) \in Int
         /\ Needs(q, "text") => q.mode \in {"text", "hybrid"} /\ q.text \in Texts
         /\ q.mode \in {"vector", "text", "hybrid"} =>
              /\ q.k \in Nat \ {0} /\ Depth(q) \in Nat \ {0} /\ Depth(q) <= AndCand
<1>1. Needs(q, "vec") => q.mode \in {"vector", "hybrid"}
  BY DEF Needs
<1>2. Needs(q, "text") => q.mode \in {"text", "hybrid"}
  BY DEF Needs
<1>3. ASSUME q.mode \in {"vector", "hybrid"}
      PROVE  QueryVector(q) \in Int
  BY <1>3, QuestionsAssumption, VectorsAssumption DEF QueryVector
<1>4. ASSUME q.mode \in {"vector", "text", "hybrid"}
      PROVE  q.k \in Nat \ {0} /\ Depth(q) \in Nat \ {0}
  <2>1. q.k \in Nat \ {0} /\ HybridDepth \in Nat
    BY <1>4, QuestionsAssumption, RetrievalAssumption
  <2>2. Max({HybridDepth, q.k}) = IF HybridDepth <= q.k THEN q.k ELSE HybridDepth
    BY <2>1, MaxOf2
  <2>3. Max({HybridDepth, q.k}) \in Nat \ {0}
    BY <2>1, <2>2
  <2>. QED
    BY <2>1, <2>3 DEF Depth
<1>. QED
  BY <1>1, <1>2, <1>3, <1>4, QuestionsAssumption

\* Without a question, no leg has found anything.
LegsKept == legs = [vec |-> legs.vec, text |-> legs.text] /\ (question = Unasked => legs = NoLegs)
FInv == SInv /\ IdsKept /\ LegsKept /\ FilteredIsExact

\* FilteredIsExact, by Exactly.
LEMMA ExactIs ==
  ASSUME legs.vec.done => \/ question = Unasked
                          \/ Plain(question)
                          \/ rows = {}
                          \/ ~(/\ Cardinality(Filtered(question.scope, question.filt)) <= RescoreK(Depth(question))
                               /\ ivf => Cardinality(Filtered(question.scope, question.filt)) <= Tiny)
                          \/ legs.vec.ranking = Best(Exactly(Filtered(question.scope, question.filt),
                                                             QueryVector(question)), Depth(question))
  PROVE  FilteredIsExact
BY Zenon DEF FilteredIsExact, Exactly, ScoreOf

\* At first no leg is done.
LEMMA InitFInv == Init => FInv
<1> SUFFICES ASSUME Init PROVE FInv
  OBVIOUS
<1>1. legs = NoLegs /\ question = Unasked
  BY DEF Init
<1>2. LegsKept
  BY <1>1 DEF LegsKept, NoLegs
<1>3. FilteredIsExact
  BY <1>1, ExactIs
<1>. QED
  BY <1>2, <1>3, InitSInv, InitIdsKept DEF FInv

\* Every step keeps the ids apart.
LEMMA NextIdsKept ==
  ASSUME IInv, IdsKept, [Next]_vars
  PROVE  IdsKept'
<1>1. CASE Work
  BY <1>1, WorkIdsKept
<1>2. CASE rows' = rows
  BY <1>2 DEF IdsKept
<1>3. Work \/ rows' = rows
  BY DEF Next, vars, Post, Tear, Ask, VectorLeg, TextLeg, Answer, Sent
<1>. QED
  BY <1>1, <1>2, <1>3

\* The vector leg of a search that excludes something.
LEMMA VectorLegExact ==
  ASSUME FInv, VectorLeg
  PROVE  FilteredIsExact' /\ LegsKept'
<1>1. PICK nprobe, depth : legs' = [legs EXCEPT !.vec = Leg(VectorIds(question, nprobe, depth))]
  BY DEF VectorLeg
<1>2. rows' = rows /\ question' = question /\ ivf' = ivf
  BY DEF VectorLeg
<1>3. question \in Questions
  <2>1. question # Unasked
    BY DEF VectorLeg, Needs, Unasked
  <2>. QED
    BY <2>1 DEF FInv, SInv
<1>4. QueryVector(question) \in Int /\ Depth(question) \in Nat
  <2>1. Needs(question, "vec")
    BY DEF VectorLeg
  <2>. QED
    BY <1>3, <2>1, QuestionHas
<1>5. PICK ranking : ranking = VectorIds(question, nprobe, depth)
  OBVIOUS
<1>6. legs' = [vec |-> Leg(ranking), text |-> legs.text]
  BY <1>1, <1>5 DEF FInv, LegsKept
<1>7. LegsKept'
  <2>1. question' # Unasked
    BY <1>2 DEF VectorLeg, Needs, Unasked
  <2>. QED
    BY <1>6, <2>1 DEF LegsKept
<1>8. PICK A \in SUBSET rows : A = Filtered(question.scope, question.filt)
  BY DEF Filtered
<1>9. ASSUME ~Plain(question), rows # {}, Cardinality(A) <= RescoreK(Depth(question)),
             ivf => Cardinality(A) <= Tiny
      PROVE  ranking = Best(Exactly(A, QueryVector(question)), Depth(question))
  <2>1. ranking = SearchAllowed(QueryVector(question), Depth(question), A, ProbeOf(question))
    BY <1>5, <1>8, <1>9 DEF VectorIds
  <2>. QED
    BY <1>4, <1>9, <2>1, AllowedExact DEF FInv, SInv
<1>10. legs'.vec.ranking = ranking
  BY <1>6 DEF Leg
<1>11. /\ Plain(question)' <=> Plain(question)
       /\ Filtered(question.scope, question.filt)' = A
       /\ RescoreK(Depth(question))' = RescoreK(Depth(question))
       /\ QueryVector(question)' = QueryVector(question)
       /\ Depth(question)' = Depth(question)
  BY <1>2, <1>8, SameAsked
<1>12. FilteredIsExact'
  BY <1>2, <1>9, <1>10, <1>11, Zenon DEF FilteredIsExact, Exactly, ScoreOf
<1>. QED
  BY <1>7, <1>12

\* Every step keeps what the vector leg found.
LEMMA NextFInv == FInv /\ [Next]_vars => FInv'
<1> SUFFICES ASSUME FInv, [Next]_vars PROVE FilteredIsExact' /\ LegsKept'
  BY NextSInv, NextIdsKept DEF FInv, SInv
<1>1. ASSUME question' = Unasked, legs' = NoLegs
      PROVE  FilteredIsExact' /\ LegsKept'
  BY <1>1 DEF FilteredIsExact, LegsKept, NoLegs
<1>2. ASSUME rows' = rows, question' = question, ivf' = ivf, legs' = legs
      PROVE  FilteredIsExact' /\ LegsKept'
  <2>1. FilteredIsExact'
    BY <1>2, SameFiltered DEF FInv
  <2>2. LegsKept'
    BY <1>2 DEF FInv, LegsKept
  <2>. QED
    BY <2>1, <2>2
<1>3. Idle => question = Unasked /\ legs = NoLegs
  BY DEF Idle, FInv, LegsKept
<1>4. ASSUME NEW docs \in Payloads, Post(docs) PROVE FilteredIsExact' /\ LegsKept'
  BY <1>1, <1>3, <1>4 DEF Post
<1>5. CASE Tear
  BY <1>1, <1>3, <1>5 DEF Tear
<1>6. CASE Work
  BY <1>1, <1>3, <1>6 DEF Work
<1>7. ASSUME NEW q \in Questions, Ask(q) PROVE FilteredIsExact' /\ LegsKept'
  <2>1. legs' = NoLegs
    BY <1>3, <1>7 DEF Ask
  <2>2. ~legs'.vec.done
    BY <2>1 DEF NoLegs, Pending
  <2>. QED
    BY <2>1, <2>2 DEF FilteredIsExact, LegsKept, NoLegs
<1>8. CASE VectorLeg
  BY <1>8, VectorLegExact
<1>9. CASE TextLeg
  <2>1. rows' = rows /\ question' = question /\ ivf' = ivf
    BY <1>9 DEF TextLeg
  <2>2. PICK leg : legs' = [legs EXCEPT !.text = leg]
    BY <1>9 DEF TextLeg
  <2>3. legs' = [vec |-> legs.vec, text |-> leg]
    BY <2>2 DEF FInv, LegsKept
  <2>4. FilteredIsExact'
    BY <2>1, <2>3, SameFiltered DEF FInv
  <2>5. question' # Unasked
    BY <1>9, <2>1 DEF TextLeg, Needs, Unasked
  <2>. QED
    BY <2>3, <2>4, <2>5 DEF LegsKept
<1>10. CASE Answer
  BY <1>1, <1>10 DEF Answer
<1>11. CASE Sent
  BY <1>2, <1>11 DEF Sent
<1>12. CASE UNCHANGED vars
  BY <1>2, <1>12 DEF vars
<1>. QED
  BY <1>4, <1>5, <1>6, <1>7, <1>8, <1>9, <1>10, <1>11, <1>12 DEF Next

\* A filtered search loses no row to a shard that was not probed and ranks by retained vectors
\* what has one: an allowlist that fits the over-fetch, and is looked up shard by shard, is ranked
\* exactly, with an IVF index and without (_search_allowed, _IvfIndex.search, _rescore_rows).
THEOREM FilteredAlwaysExact == Spec => []FilteredIsExact
<1>1. FInv => FilteredIsExact
  BY DEF FInv
<1>. QED
  BY <1>1, InitFInv, NextFInv, PTL DEF Spec

-----------------------------------------------------------------------------
\* One step of Selected.
Selected1(acc, x, S) == IF x \in S THEN Append(acc, x) ELSE acc

SelectsBy(g, s, S) ==
  /\ g[0] = <<>> /\ g[Len(s)] = Selected(s, S)
  /\ \A i \in 1..Len(s) : g[i] = Selected1(g[i - 1], s[i], S)
\* Selected, element by element.
LEMMA SelectedSteps ==
  ASSUME NEW R, NEW s \in Seq(R), NEW S
  PROVE  \E g \in [0..Len(s) -> Seq(R)] :
           SelectsBy(g, s, S)
<1> DEFINE n == Len(s)
           V == Seq(R)
           base == <<>>
           Step(f, t) == IF t = {} THEN base ELSE Selected1(f[t \ {Max(t)}], s[Max(t)], S)
           G == [i \in 1..n |-> [v \in V |-> Selected1(v, s[i], S)]]
           f == CHOOSE f : f = [t \in SUBSET DOMAIN s |-> Step(f, t)]
<1>1. n \in Nat /\ DOMAIN s = 1..n
  OBVIOUS
<1>2. base \in V
  OBVIOUS
<1>3. ASSUME NEW v \in V, NEW i \in 1..n
      PROVE  Selected1(v, s[i], S) \in V
  BY <1>3 DEF Selected1
<1>4. G \in [1..n -> [V -> V]]
  <2> HIDE DEF V
  <2>1. ASSUME NEW i \in 1..n
        PROVE  [v \in V |-> Selected1(v, s[i], S)] \in [V -> V]
    BY <1>3
  <2> HIDE DEF n
  <2>. QED
    BY <2>1
<1>5. Selected(s, S) = f[1..n]
  BY <1>1 DEF FoldLeft, MapThenFoldSet, Selected, Selected1
<1>6. PICK h \in [SUBSET (1..n) -> V] : IsFold(h, n, base, G)
  <2> HIDE DEF n, V, base, G
  <2>. QED
    BY <1>1, <1>2, <1>4, FoldExists
<1>7. ASSUME NEW t \in SUBSET (1..n)
      PROVE  h[t] = Step(h, t)
  <2> HIDE DEF n, V, base
  <2>1. CASE t = {}
    BY <1>6, <2>1 DEF IsFold
  <2>2. CASE t # {}
    <3>1. Max(t) \in 1..n
      BY <1>1, <2>2, MaxOf
    <3>2. h[t \ {Max(t)}] \in V
      OBVIOUS
    <3>3. h[t] = G[Max(t)][h[t \ {Max(t)}]]
      BY <1>6, <2>2 DEF IsFold
    <3>. QED
      BY <2>2, <3>1, <3>2, <3>3
  <2>. QED
    BY <2>1, <2>2
<1>8. f = [t \in SUBSET (1..n) |-> Step(f, t)]
  <2> HIDE DEF Step, n, V, base
  <2>1. h = [t \in SUBSET DOMAIN s |-> Step(h, t)]
    BY <1>1, <1>7
  <2>. QED
    BY <1>1, <2>1
<1> HIDE DEF f
<1>9. f[{}] = base
  <2> HIDE DEF base, n
  <2>. QED
    BY <1>8
<1>10. ASSUME NEW i \in 1..n, f[1..(i - 1)] \in V
       PROVE  f[1..i] = G[i][f[1..(i - 1)]]
  <2> HIDE DEF n, V, base
  <2>1. Max(1..i) = i /\ (1..i) \ {i} = 1..(i - 1) /\ 1..i # {} /\ 1..i \in SUBSET (1..n)
    BY <1>1, MaxUpTo
  <2>2. f[1..i] = Step(f, 1..i)
    <3> HIDE DEF Step
    <3>. QED
      BY <1>8, <2>1
  <2>3. f[1..i] = Selected1(f[1..(i - 1)], s[i], S)
    BY <2>1, <2>2
  <2>. QED
    BY <1>10, <2>3
<1>11. PICK g \in [0..n -> V] : g[n] = f[1..n] /\ Steps(g, n, base, G)
  <2> HIDE DEF n, V, base, G
  <2>. QED
    BY <1>1, <1>2, <1>4, <1>9, <1>10, FoldPrefixes
<1>12. ASSUME NEW i \in 1..n
       PROVE  g[i] = Selected1(g[i - 1], s[i], S)
  <2> HIDE DEF n, V, base
  <2>1. g[i - 1] \in V
    BY <1>1
  <2>2. g[i] = G[i][g[i - 1]]
    BY <1>11 DEF Steps
  <2>. QED
    BY <2>1, <2>2
<1>13. g[0] = base
  BY <1>11 DEF Steps
<1>. QED
  BY <1>5, <1>11, <1>12, <1>13, Zenon DEF SelectsBy

\* So far: the elements of the first i that are in S.
SelectedTo(q, s, S, i) ==
  /\ Len(q) <= i /\ (Len(q) = i <=> \A j \in 1..i : s[j] \in S)
  /\ \A x : x \in Range(q) <=> x \in S /\ \E j \in 1..i : s[j] = x

\* One element more.
LEMMA SelectedNext ==
  ASSUME NEW R, NEW s, NEW S, NEW i \in Nat, NEW q \in Seq(R), SelectedTo(q, s, S, i), s[i + 1] \in R
  PROVE  SelectedTo(Selected1(q, s[i + 1], S), s, S, i + 1)
<1>1. PICK y \in R : y = s[i + 1]
  OBVIOUS
<1>2. \A j : j \in 1..(i + 1) <=> j \in 1..i \/ j = i + 1
  OBVIOUS
<1>3. PICK m \in Nat : m = Len(q) /\ DOMAIN q = 1..m
  OBVIOUS
<1>4. m <= i /\ (m = i <=> \A j \in 1..i : s[j] \in S)
  BY <1>3 DEF SelectedTo
<1>5. \A x : x \in Range(q) <=> x \in S /\ \E j \in 1..i : s[j] = x
  BY DEF SelectedTo
<1>6. CASE y \in S
  <2>1. PICK p \in Seq(R) : p = Append(q, y)
    BY AppendProperties
  <2>2. Len(p) = m + 1 /\ DOMAIN p = 1..(m + 1) /\ p[m + 1] = y /\ \A j \in 1..m : p[j] = q[j]
    BY <1>3, <2>1, AppendProperties
  <2>3. \A x : x \in Range(p) <=> x \in Range(q) \/ x = y
    <3>1. \A x : x \in Range(q) <=> \E j \in 1..m : q[j] = x
      BY <1>3, Zenon DEF Range
    <3>2. \A x : x \in Range(p) <=> \E j \in 1..(m + 1) : p[j] = x
      BY <2>2, Zenon DEF Range
    <3>3. \A j : j \in 1..(m + 1) <=> j \in 1..m \/ j = m + 1
      OBVIOUS
    <3>. QED
      BY <2>2, <3>1, <3>2, <3>3
  <2>4. \A x : x \in Range(p) <=> x \in S /\ \E j \in 1..(i + 1) : s[j] = x
    BY <1>1, <1>2, <1>5, <1>6, <2>3
  <2>5. m + 1 = i + 1 <=> \A j \in 1..(i + 1) : s[j] \in S
    BY <1>1, <1>2, <1>4, <1>6
  <2>6. SelectedTo(p, s, S, i + 1)
    BY <1>4, <2>2, <2>4, <2>5 DEF SelectedTo
  <2>. QED
    BY <1>1, <1>6, <2>1, <2>6 DEF Selected1
<1>7. CASE y \notin S
  <2>1. \A x : x \in Range(q) <=> x \in S /\ \E j \in 1..(i + 1) : s[j] = x
    BY <1>1, <1>2, <1>5, <1>7
  <2>2. m # i + 1 /\ m <= i + 1 /\ ~ \A j \in 1..(i + 1) : s[j] \in S
    BY <1>1, <1>2, <1>4, <1>7
  <2>3. SelectedTo(q, s, S, i + 1)
    BY <1>3, <2>1, <2>2 DEF SelectedTo
  <2>. QED
    BY <1>1, <1>7, <2>3 DEF Selected1
<1>. QED
  BY <1>6, <1>7

\* What is selected: all that is in S, in its order.
LEMMA SelectedIs ==
  ASSUME NEW R, NEW s \in Seq(R), NEW S
  PROVE  /\ Selected(s, S) \in Seq(R) /\ Len(Selected(s, S)) <= Len(s)
         /\ Len(Selected(s, S)) = Len(s) <=> Range(s) \subseteq S
         /\ \A x : x \in Range(Selected(s, S)) <=> x \in Range(s) /\ x \in S
<1>1. PICK n \in Nat : n = Len(s) /\ DOMAIN s = 1..n /\ \A i \in 1..n : s[i] \in R
  OBVIOUS
<1>2. PICK g \in [0..n -> Seq(R)] :
        /\ g[0] = <<>> /\ g[n] = Selected(s, S)
        /\ \A i \in 1..n : g[i] = Selected1(g[i - 1], s[i], S)
  <2>1. PICK g \in [0..Len(s) -> Seq(R)] : SelectsBy(g, s, S)
    BY SelectedSteps
  <2>. QED
    BY <1>1, <2>1, Zenon DEF SelectsBy
<1> DEFINE I == {i \in 0..n : SelectedTo(g[i], s, S, i)}
<1>3. 0 \in I
  <2>1. 1..0 = {} /\ Len(<<>>) = 0 /\ DOMAIN <<>> = {}
    OBVIOUS
  <2>2. \A x : x \notin Range(<<>>)
    BY <2>1 DEF Range
  <2>3. SelectedTo(<<>>, s, S, 0)
    BY <2>1, <2>2 DEF SelectedTo
  <2>. QED
    BY <1>2, <2>3
<1>4. ASSUME NEW i \in 0..(n - 1), i \in I
      PROVE  i + 1 \in I
  <2>1. i + 1 \in 1..n /\ i \in 0..n /\ (i + 1) - 1 = i /\ i \in Nat /\ i + 1 \in 0..n
    OBVIOUS
  <2>2. PICK q \in Seq(R) : q = g[i]
    BY <2>1
  <2>3. g[i + 1] = Selected1(q, s[i + 1], S)
    BY <1>2, <2>1, <2>2
  <2>4. SelectedTo(g[i + 1], s, S, i + 1)
    BY <1>1, <1>4, <2>1, <2>2, <2>3, SelectedNext
  <2>. QED
    BY <2>1, <2>4
<1> HIDE DEF I
<1>5. n \in I
  <2>1. \A k \in 0..(n - 1) : k \in I => k + 1 \in I
    BY <1>4
  <2>2. 0..n \subseteq I
    BY <1>3, <2>1, ReachedTo
  <2>. QED
    BY <2>2
<1>6. SelectedTo(Selected(s, S), s, S, n) /\ Selected(s, S) \in Seq(R)
  BY <1>2, <1>5 DEF I
<1>7. \A x : x \in Range(s) <=> \E i \in 1..n : s[i] = x
  BY <1>1, Zenon DEF Range
<1>8. Range(s) \subseteq S <=> \A i \in 1..n : s[i] \in S
  BY <1>7
<1>. QED
  BY <1>1, <1>6, <1>7, <1>8 DEF SelectedTo

-----------------------------------------------------------------------------
\* Which token is taken when, and the taking of one.
OrderOf(once, df) ==
  ByRank(DOMAIN once, [x \in DOMAIN once |->
                         Cardinality({y \in DOMAIN once : \/ df[once[y]] < df[once[x]]
                                                          \/ (df[once[y]] = df[once[x]] /\ y < x)})])
NothingTaken == [spent |-> 0, kept |-> {}, any |-> FALSE, stop |-> FALSE]
Take2(acc, i, once, df) == Take(acc, [token |-> once[i], df |-> df[once[i]]])
TakenOf(once, df, order) ==
  FoldLeft(LAMBDA acc, i : Take2(acc, i, once, df), NothingTaken, order)
Takings(R) == [spent : Int, kept : SUBSET R, any : BOOLEAN, stop : BOOLEAN]

\* _prune_common, by its parts.
LEMMA PruneCommonIs ==
  ASSUME NEW toks, NEW df
  PROVE  PruneCommon(toks, df)
           = Selected(toks, TakenOf(Distinct(toks), df, OrderOf(Distinct(toks), df)).kept)
BY DEF PruneCommon, Sorted, ByRank, OrderOf, TakenOf, Take2, NothingTaken

\* All frequencies are there.
NatOn(df, S) == \A t \in S : df[t] \in Nat
\* A token is taken, or the taking stops, but only when one that matches was taken.
LEMMA Take2Is ==
  ASSUME NEW R, NEW once \in Seq(R), NEW df, NatOn(df, R),
         NEW i \in 1..Len(once), NEW acc \in Takings(R)
  PROVE  /\ Take2(acc, i, once, df) \in Takings(R)
         /\ \/ /\ Take2(acc, i, once, df).stop /\ (acc.stop \/ acc.any)
               /\ Take2(acc, i, once, df).kept = acc.kept /\ Take2(acc, i, once, df).any = acc.any
            \/ /\ Take2(acc, i, once, df).stop = acc.stop /\ ~acc.stop
               /\ Take2(acc, i, once, df).kept = acc.kept \cup {once[i]}
               /\ Take2(acc, i, once, df).any <=> acc.any \/ df[once[i]] > 0
<1>1. PICK t \in R : t = once[i]
  OBVIOUS
<1>2. PICK d \in Nat : d = df[t]
  BY <1>1 DEF NatOn
<1>3. PICK spent \in Int, kept \in SUBSET R, any \in BOOLEAN, stop \in BOOLEAN :
        acc = [spent |-> spent, kept |-> kept, any |-> any, stop |-> stop]
  BY DEF Takings
<1>4. PICK x : x = [token |-> t, df |-> d]
  OBVIOUS
<1>5. PICK more : more = Taken(acc, x)
  OBVIOUS
<1>6. /\ more \in Takings(R) /\ more.stop = stop /\ more.kept = kept \cup {t}
      /\ more.any <=> any \/ d > 0
  <2>1. spent + d \in Int
    OBVIOUS
  <2>2. more = [spent |-> spent + d, kept |-> kept \cup {t}, any |-> (any \/ d > 0), stop |-> stop]
    BY <1>3, <1>4, <1>5 DEF Taken
  <2>3. kept \cup {t} \in SUBSET R /\ (any \/ d > 0) \in BOOLEAN
    OBVIOUS
  <2>. QED
    BY <2>1, <2>2, <2>3 DEF Takings
<1>7. PICK less : less = [acc EXCEPT !.stop = TRUE]
  OBVIOUS
<1>8. less \in Takings(R) /\ less.stop /\ less.kept = kept /\ less.any = any
  <2>1. less = [spent |-> spent, kept |-> kept, any |-> any, stop |-> TRUE]
    BY <1>3, <1>7
  <2>. QED
    BY <2>1 DEF Takings
<1>9. Take2(acc, i, once, df) = IF acc.stop \/ (d > 0 /\ acc.any /\ acc.spent + d > ScanBudget) THEN less ELSE more
  BY <1>1, <1>2, <1>4, <1>5, <1>7 DEF Take2, Take
<1>10. acc.stop = stop /\ acc.any = any /\ acc.kept = kept
  BY <1>3
<1>11. CASE acc.stop \/ (d > 0 /\ acc.any /\ acc.spent + d > ScanBudget)
  <2>1. Take2(acc, i, once, df) = less
    BY <1>9, <1>11, Zenon
  <2>. QED
    BY <1>8, <1>10, <1>11, <2>1
<1>12. CASE ~(acc.stop \/ (d > 0 /\ acc.any /\ acc.spent + d > ScanBudget))
  <2>1. Take2(acc, i, once, df) = more
    BY <1>9, <1>12, Zenon
  <2>2. ~acc.stop
    BY <1>12
  <2>. QED
    BY <1>1, <1>2, <1>6, <1>10, <2>1, <2>2, Zenon
<1>. QED
  BY <1>11, <1>12

TakesBy(g, once, df, order) ==
  /\ g[0] = NothingTaken /\ g[Len(order)] = TakenOf(once, df, order)
  /\ \A i \in 1..Len(order) : g[i] = Take2(g[i - 1], order[i], once, df)
\* The taking, token by token.
LEMMA TakenSteps ==
  ASSUME NEW R, NEW once \in Seq(R), NEW df, NatOn(df, R),
         NEW order \in Seq(1..Len(once))
  PROVE  \E g \in [0..Len(order) -> Takings(R)] :
           TakesBy(g, once, df, order)
<1> DEFINE n == Len(order)
           V == Takings(R)
           base == NothingTaken
           Step(f, t) == IF t = {} THEN base ELSE Take2(f[t \ {Max(t)}], order[Max(t)], once, df)
           G == [i \in 1..n |-> [v \in V |-> Take2(v, order[i], once, df)]]
           f == CHOOSE f : f = [t \in SUBSET DOMAIN order |-> Step(f, t)]
<1>1. n \in Nat /\ DOMAIN order = 1..n
  OBVIOUS
<1>2. base \in V
  BY DEF NothingTaken, Takings
<1>3. ASSUME NEW v \in V, NEW i \in 1..n
      PROVE  Take2(v, order[i], once, df) \in V
  <2>1. order[i] \in 1..Len(once)
    BY <1>3
  <2>. QED
    BY <1>3, <2>1, Take2Is
<1>4. G \in [1..n -> [V -> V]]
  <2> HIDE DEF V
  <2>1. ASSUME NEW i \in 1..n
        PROVE  [v \in V |-> Take2(v, order[i], once, df)] \in [V -> V]
    BY <1>3
  <2> HIDE DEF n
  <2>. QED
    BY <2>1
<1>5. TakenOf(once, df, order) = f[1..n]
  BY <1>1 DEF FoldLeft, MapThenFoldSet, TakenOf
<1>6. PICK h \in [SUBSET (1..n) -> V] : IsFold(h, n, base, G)
  <2> HIDE DEF n, V, base, G
  <2>. QED
    BY <1>1, <1>2, <1>4, FoldExists
<1>7. ASSUME NEW t \in SUBSET (1..n)
      PROVE  h[t] = Step(h, t)
  <2> HIDE DEF n, V, base
  <2>1. CASE t = {}
    BY <1>6, <2>1 DEF IsFold
  <2>2. CASE t # {}
    <3>1. Max(t) \in 1..n
      BY <1>1, <2>2, MaxOf
    <3>2. h[t \ {Max(t)}] \in V
      OBVIOUS
    <3>3. h[t] = G[Max(t)][h[t \ {Max(t)}]]
      BY <1>6, <2>2 DEF IsFold
    <3>. QED
      BY <2>2, <3>1, <3>2, <3>3
  <2>. QED
    BY <2>1, <2>2
<1>8. f = [t \in SUBSET (1..n) |-> Step(f, t)]
  <2> HIDE DEF Step, n, V, base
  <2>1. h = [t \in SUBSET DOMAIN order |-> Step(h, t)]
    BY <1>1, <1>7
  <2>. QED
    BY <1>1, <2>1
<1> HIDE DEF f
<1>9. f[{}] = base
  <2> HIDE DEF base, n
  <2>. QED
    BY <1>8
<1>10. ASSUME NEW i \in 1..n, f[1..(i - 1)] \in V
       PROVE  f[1..i] = G[i][f[1..(i - 1)]]
  <2> HIDE DEF n, V, base
  <2>1. Max(1..i) = i /\ (1..i) \ {i} = 1..(i - 1) /\ 1..i # {} /\ 1..i \in SUBSET (1..n)
    BY <1>1, MaxUpTo
  <2>2. f[1..i] = Step(f, 1..i)
    <3> HIDE DEF Step
    <3>. QED
      BY <1>8, <2>1
  <2>3. f[1..i] = Take2(f[1..(i - 1)], order[i], once, df)
    BY <2>1, <2>2
  <2>. QED
    BY <1>10, <2>3
<1>11. PICK g \in [0..n -> V] : g[n] = f[1..n] /\ Steps(g, n, base, G)
  <2> HIDE DEF n, V, base, G
  <2>. QED
    BY <1>1, <1>2, <1>4, <1>9, <1>10, FoldPrefixes
<1>12. ASSUME NEW i \in 1..n
       PROVE  g[i] = Take2(g[i - 1], order[i], once, df)
  <2> HIDE DEF n, V, base
  <2>1. g[i - 1] \in V
    BY <1>1
  <2>2. g[i] = G[i][g[i - 1]]
    BY <1>11 DEF Steps
  <2>. QED
    BY <2>1, <2>2
<1>13. g[0] = base
  BY <1>11 DEF Steps
<1>. QED
  BY <1>5, <1>11, <1>12, <1>13, Zenon DEF TakesBy

\* So far: tokens are taken until there is one that matches.
TakenTo(acc, once, df, order, i) ==
  /\ \A t \in acc.kept : \E j \in 1..i : once[order[j]] = t
  /\ acc.any <=> \E t \in acc.kept : df[t] > 0
  /\ acc.any \/ (~acc.stop /\ \A j \in 1..i : once[order[j]] \in acc.kept)

\* One token more.
LEMMA TakenNext ==
  ASSUME NEW R, NEW once \in Seq(R), NEW df, NatOn(df, R), NEW order, NEW i \in Nat,
         order[i + 1] \in 1..Len(once), NEW acc \in Takings(R), TakenTo(acc, once, df, order, i)
  PROVE  TakenTo(Take2(acc, order[i + 1], once, df), once, df, order, i + 1)
<1>1. PICK more \in Takings(R) : more = Take2(acc, order[i + 1], once, df)
  BY Take2Is
<1>2. PICK t : t = once[order[i + 1]]
  OBVIOUS
<1>3. \A j : j \in 1..(i + 1) <=> j \in 1..i \/ j = i + 1
  OBVIOUS
<1>4. \/ more.stop /\ (acc.stop \/ acc.any) /\ more.kept = acc.kept /\ more.any = acc.any
      \/ /\ more.stop = acc.stop /\ ~acc.stop /\ more.kept = acc.kept \cup {t}
         /\ more.any <=> acc.any \/ df[t] > 0
  BY <1>1, <1>2, Take2Is
<1>5. /\ \A u \in acc.kept : \E j \in 1..i : once[order[j]] = u
      /\ acc.any <=> \E u \in acc.kept : df[u] > 0
      /\ acc.any \/ (~acc.stop /\ \A j \in 1..i : once[order[j]] \in acc.kept)
  BY DEF TakenTo
<1>6. \A u \in more.kept : \E j \in 1..(i + 1) : once[order[j]] = u
  BY <1>2, <1>3, <1>4, <1>5
<1>7. more.any <=> \E u \in more.kept : df[u] > 0
  BY <1>4, <1>5
<1>8. more.any \/ (~more.stop /\ \A j \in 1..(i + 1) : once[order[j]] \in more.kept)
  BY <1>2, <1>3, <1>4, <1>5
<1>. QED
  BY <1>1, <1>6, <1>7, <1>8 DEF TakenTo

\* Some of S, and one of them matches unless it is all.
KeepsOf(kept, S, df) == kept \subseteq S /\ ((\E t \in kept : df[t] > 0) \/ kept = S)
\* What is kept has a token that matches, or is all.
LEMMA TakenIs ==
  ASSUME NEW R, NEW once \in Seq(R), NEW df, NatOn(df, R),
         NEW order \in Seq(1..Len(once)), Range(order) = 1..Len(once), NEW kept, kept = TakenOf(once, df, order).kept
  PROVE  KeepsOf(kept, Range(once), df)
<1>1. PICK n \in Nat : n = Len(order) /\ DOMAIN order = 1..n /\ \A i \in 1..n : order[i] \in 1..Len(once)
  OBVIOUS
<1>2. PICK g \in [0..n -> Takings(R)] :
        /\ g[0] = NothingTaken /\ g[n] = TakenOf(once, df, order)
        /\ \A i \in 1..n : g[i] = Take2(g[i - 1], order[i], once, df)
  <2>1. PICK g \in [0..Len(order) -> Takings(R)] : TakesBy(g, once, df, order)
    BY TakenSteps
  <2>. QED
    BY <1>1, <2>1, Zenon DEF TakesBy
<1> DEFINE I == {i \in 0..n : TakenTo(g[i], once, df, order, i)}
<1>3. 0 \in I
  <2>1. 1..0 = {}
    OBVIOUS
  <2>2. TakenTo(NothingTaken, once, df, order, 0)
    BY <2>1 DEF TakenTo, NothingTaken
  <2>. QED
    BY <1>2, <2>2
<1>4. ASSUME NEW i \in 0..(n - 1), i \in I
      PROVE  i + 1 \in I
  <2>1. i + 1 \in 1..n /\ i \in 0..n /\ (i + 1) - 1 = i /\ i \in Nat /\ i + 1 \in 0..n
    OBVIOUS
  <2>2. PICK acc \in Takings(R) : acc = g[i]
    BY <2>1
  <2>3. g[i + 1] = Take2(acc, order[i + 1], once, df)
    BY <1>2, <2>1, <2>2
  <2>4. TakenTo(acc, once, df, order, i) /\ order[i + 1] \in 1..Len(once)
    BY <1>1, <1>4, <2>1, <2>2
  <2>5. TakenTo(g[i + 1], once, df, order, i + 1)
    BY <2>1, <2>3, <2>4, TakenNext
  <2>. QED
    BY <2>1, <2>5
<1> HIDE DEF I
<1>5. n \in I
  <2>1. \A k \in 0..(n - 1) : k \in I => k + 1 \in I
    BY <1>4
  <2>2. 0..n \subseteq I
    BY <1>3, <2>1, ReachedTo
  <2>. QED
    BY <2>2
<1>6. PICK end \in Takings(R) : end = TakenOf(once, df, order) /\ TakenTo(end, once, df, order, n)
  BY <1>2, <1>5 DEF I
<1>7. kept = end.kept
  BY <1>6
<1>8. PICK m \in Nat : m = Len(once) /\ DOMAIN once = 1..m
  OBVIOUS
<1>9. \A x : x \in Range(once) <=> \E k \in 1..m : once[k] = x
  BY <1>8, Zenon DEF Range
<1>10. \A x : x \in 1..m <=> \E j \in 1..n : order[j] = x
  <2>1. \A x : x \in Range(order) <=> \E j \in 1..n : order[j] = x
    BY <1>1, Zenon DEF Range
  <2>. QED
    BY <1>8, <2>1
<1>11. \A t \in kept : t \in Range(once)
  <2>1. \A t \in kept : \E j \in 1..n : once[order[j]] = t
    BY <1>6, <1>7 DEF TakenTo
  <2>. QED
    BY <1>9, <1>10, <2>1
<1>12. ASSUME ~ \E t \in kept : df[t] > 0
       PROVE  \A x \in Range(once) : x \in kept
  <2>1. \A j \in 1..n : once[order[j]] \in kept
    BY <1>6, <1>7, <1>12 DEF TakenTo
  <2>. QED
    BY <1>9, <1>10, <2>1
<1>. QED
  BY <1>11, <1>12 DEF KeepsOf

\* The order of the taking covers all tokens.
LEMMA OrderOfIs ==
  ASSUME NEW R, NEW once \in Seq(R), NEW df, NatOn(df, R)
  PROVE  OrderOf(once, df) \in Seq(1..Len(once)) /\ Range(OrderOf(once, df)) = 1..Len(once)
<1>1. PICK n \in Nat : n = Len(once) /\ DOMAIN once = 1..n /\ \A i \in 1..n : once[i] \in R
  OBVIOUS
<1>2. PICK f : f = [i \in 1..n |-> - df[once[i]]]
  OBVIOUS
<1>3. \A i \in 1..n : df[once[i]] \in Nat
  BY <1>1 DEF NatOn
<1>4. f \in [1..n -> Int]
  <2>1. \A i \in 1..n : - df[once[i]] \in Int
    BY <1>3
  <2>. QED
    BY <1>2, <2>1
<1>5. ASSUME NEW x \in 1..n
      PROVE  {y \in 1..n : df[once[y]] < df[once[x]] \/ (df[once[y]] = df[once[x]] /\ y < x)}
               = {y \in 1..n : <<y, x>> \in Greatest(f, n)}
  <2>1. ASSUME NEW y \in 1..n
        PROVE  <<y, x>> \in Greatest(f, n) <=> df[once[y]] < df[once[x]] \/ (df[once[y]] = df[once[x]] /\ y < x)
    <3>1. f[y] = - df[once[y]] /\ f[x] = - df[once[x]]
      BY <1>2
    <3>2. <<y, x>> \in Greatest(f, n) <=> f[y] > f[x] \/ (f[y] = f[x] /\ y < x)
      BY DEF Greatest
    <3>3. PICK a \in Int, b \in Int : a = df[once[x]] /\ b = df[once[y]]
      BY <1>3
    <3>. QED
      BY <3>1, <3>2, <3>3
  <2>. QED
    BY <2>1
<1>6. RankIn(Greatest(f, n), 1..n)
        = [x \in 1..n |-> Cardinality({y \in 1..n : \/ df[once[y]] < df[once[x]]
                                                    \/ (df[once[y]] = df[once[x]] /\ y < x)})]
  BY <1>5 DEF RankIn
<1>7. PICK order : order = OrderOf(once, df)
  OBVIOUS
<1>8. order = ByRank(1..n, RankIn(Greatest(f, n), 1..n))
  BY <1>1, <1>6, <1>7, Zenon DEF OrderOf
<1>9. order \in Seq(1..n) /\ Range(order) = 1..n
  BY <1>4, <1>8, ListsPlaces
<1>. QED
  BY <1>1, <1>7, <1>9

\* Pruning keeps some of the tokens, and one that matches where there is one.
LEMMA PruneCommonKeeps ==
  ASSUME NEW R, NEW toks \in Seq(R), NEW df, \A t \in Range(toks) : df[t] \in Nat
  PROVE  /\ PruneCommon(toks, df) \in Seq(R) /\ Len(PruneCommon(toks, df)) <= Len(toks)
         /\ Range(PruneCommon(toks, df)) \subseteq Range(toks)
         /\ Len(PruneCommon(toks, df)) = Len(toks) => Range(PruneCommon(toks, df)) = Range(toks)
         /\ Range(toks) # {} => Range(PruneCommon(toks, df)) # {}
         /\ (\E t \in Range(toks) : df[t] > 0) => \E t \in Range(PruneCommon(toks, df)) : df[t] > 0
<1>1. PICK S : S = Range(toks)
  OBVIOUS
<1>2. toks \in Seq(S)
  BY <1>1 DEF Range
<1>3. PICK once \in Seq(S) : once = Distinct(toks) /\ Range(once) = S
  BY <1>1, <1>2, DistinctIs
<1>4. PICK order : order = OrderOf(once, df)
  OBVIOUS
<1>5. NatOn(df, S)
  BY <1>1 DEF NatOn
<1>6. order \in Seq(1..Len(once)) /\ Range(order) = 1..Len(once)
  BY <1>4, <1>5, OrderOfIs
<1>7. PICK kept : kept = TakenOf(once, df, order).kept
  OBVIOUS
<1>8. kept \subseteq S /\ ((\E t \in kept : df[t] > 0) \/ kept = S)
  <2>1. KeepsOf(kept, Range(once), df)
    BY <1>5, <1>6, <1>7, TakenIs
  <2>. QED
    BY <1>3, <2>1 DEF KeepsOf
<1>9. PICK p : p = PruneCommon(toks, df)
  OBVIOUS
<1>10. p = Selected(toks, kept)
  BY <1>3, <1>4, <1>7, <1>9, PruneCommonIs
<1>11. /\ p \in Seq(R) /\ Len(p) <= Len(toks) /\ (Len(p) = Len(toks) <=> S \subseteq kept)
       /\ \A x : x \in Range(p) <=> x \in S /\ x \in kept
  BY <1>1, <1>10, SelectedIs
<1>12. Range(p) = kept
  BY <1>8, <1>11
<1>. QED
  BY <1>1, <1>8, <1>9, <1>11, <1>12

-----------------------------------------------------------------------------
\* A product is no less than its factors.
LEMMA ProductAtLeast ==
  ASSUME NEW a \in Nat \ {0}, NEW b \in Nat \ {0}
  PROVE  a * b \in Nat \ {0} /\ a * b >= a /\ a * b >= b /\ a * b >= a + b - 1
<1>1. PICK u \in Nat, v \in Nat : a = u + 1 /\ b = v + 1
  <2>1. a - 1 \in Nat /\ b - 1 \in Nat /\ a = (a - 1) + 1 /\ b = (b - 1) + 1
    OBVIOUS
  <2>. QED
    BY <2>1
<1>2. PICK w \in Nat : w = u * v
  BY Times
<1>3. (u + 1) * (v + 1) = u * v + u + v + 1
  OBVIOUS
<1>4. a * b = w + u + v + 1
  BY <1>1, <1>2, <1>3
<1>. QED
  BY <1>1, <1>4

\* Scores are fine enough that a term is worth something.
LEMMA TermPositive ==
  ASSUME NEW idf \in Nat \ {0}, NEW tf \in Nat \ {0}, NEW dl \in 1..Scale, NEW mean \in Nat \ {0}
  PROVE  Term(idf, tf, dl, mean) \in Nat \ {0}
<1>1. PICK s \in Nat \ {0} : s = Scale
  BY ScoringAssumption
<1>2. PICK a \in Nat \ {0} : a = 2 * s /\ a >= s + 1
  BY <1>1
<1>3. PICK b \in Nat \ {0} : b = a * idf /\ b >= a
  BY ProductAtLeast
<1>4. PICK c \in Nat \ {0} : c = b * tf
  BY ProductAtLeast
<1>5. PICK d \in Nat \ {0} : d = c * mean
  BY ProductAtLeast
<1>6. PICK e \in Nat \ {0} : e = tf * mean
  BY ProductAtLeast
<1>7. d = b * e
  <2>1. (b * tf) * mean = b * (tf * mean)
    OBVIOUS
  <2>. QED
    BY <1>4, <1>5, <1>6, <2>1
<1>8. d >= b + e - 1
  BY <1>7, ProductAtLeast
<1>9. PICK l \in Nat \ {0} : l = dl /\ l <= s
  BY <1>1
<1>10. PICK x \in Nat \ {0} : x = e + l
  OBVIOUS
<1>11. d >= x
  BY <1>2, <1>3, <1>8, <1>9, <1>10
<1>12. d \div x \in Nat \ {0}
  <2>1. d \div x >= 1
    BY <1>11
  <2>2. d \div x \in Int
    OBVIOUS
  <2>. QED
    BY <2>1, <2>2
<1>13. Term(idf, tf, dl, mean) = d \div x
  BY <1>1, <1>2, <1>3, <1>4, <1>5, <1>6, <1>9, <1>10 DEF Term
<1>. QED
  BY <1>12, <1>13

\* A pair adds to a score or leaves it.
LEMMA PairTermNat ==
  ASSUME NEW D, NEW idf \in [D -> Nat \ {0}], NEW x \in D, NEW y \in D, NEW tf \in Nat \ {0},
         NEW dl \in 1..Scale, NEW mean \in Nat \ {0}
  PROVE  PairTerm(idf, x, y, tf, dl, mean) \in Nat
<1>1. PICK a \in Nat \ {0} : a = idf[x] + idf[y]
  <2>1. PICK i \in Nat \ {0}, j \in Nat \ {0} : i = idf[x] /\ j = idf[y]
    OBVIOUS
  <2>. QED
    BY <2>1
<1>2. PICK t \in Nat \ {0} : t = Term(a, tf, dl, mean)
  BY TermPositive
<1>3. t \div 2 \in Nat
  OBVIOUS
<1>. QED
  BY <1>1, <1>2, <1>3 DEF PairTerm

\* A sum of what is not negative is 0 only if nothing is added.
LEMMA SumPositive ==
  ASSUME NEW S, IsFiniteSet(S), NEW g \in [S -> Nat]
  PROVE  /\ SumFunction(g) \in Nat
         /\ S = {} => SumFunction(g) = 0
         /\ \A x \in S : SumFunction(g) >= g[x]
<1>1. g \in [S -> Int]
  OBVIOUS
<1>2. PICK f : IsSum(f, S, g) /\ SumFunction(g) = f[S]
  BY <1>1, SumFunctionIs
<1>3. S = {} => f[S] = 0
  BY <1>2 DEF IsSum
<1>4. ASSUME NEW x \in S
      PROVE  f[S] >= g[x]
  <2>1. PICK T : T = S \ {x}
    OBVIOUS
  <2>2. IsFiniteSet(T) /\ T \subseteq S
    BY <2>1, FS_Subset
  <2>3. f[S] = g[x] + f[T]
    BY <1>1, <1>2, <2>1, SumTakes
  <2>4. PICK h : h = [y \in T |-> g[y]]
    OBVIOUS
  <2>5. h \in [T -> Nat] /\ h \in [T -> Int]
    BY <2>2, <2>4
  <2>6. PICK e : e = [t \in SUBSET T |-> f[t]]
    OBVIOUS
  <2>7. IsSum(e, T, h)
    <3>1. e \in [SUBSET T -> Int] /\ e[{}] = 0
      BY <1>2, <2>2, <2>6 DEF IsSum
    <3>2. ASSUME NEW t \in SUBSET T, t # {}
          PROVE  e[t] = h[OneOf(t)] + e[t \ {OneOf(t)}]
      <4>1. OneOf(t) \in t /\ t \in SUBSET S
        BY <2>2, <3>2, OneOfIn
      <4>2. f[t] = g[OneOf(t)] + f[t \ {OneOf(t)}]
        BY <1>2, <3>2, <4>1 DEF IsSum
      <4>. QED
        BY <2>4, <2>6, <4>1, <4>2
    <3>. QED
      BY <3>1, <3>2 DEF IsSum
  <2>8. e[T] \in Nat
    <3>1. PICK b : IsSum(b, T, h) /\ SumFunction(h) = b[T]
      BY <2>2, <2>5, SumFunctionIs
    <3>2. Renames([y \in T |-> y], T, h, T, h)
      BY DEF Renames
    <3>3. e[T] = b[T]
      BY <2>2, <2>5, <2>7, <3>1, <3>2, SumRenamed
    <3>4. SumFunction(h) \in Nat
      BY <2>2, <2>5, SumIsNat
    <3>. QED
      BY <3>1, <3>3, <3>4
  <2>9. f[T] \in Nat
    BY <2>6, <2>8
  <2>10. g[x] \in Nat
    OBVIOUS
  <2>. QED
    BY <2>3, <2>9, <2>10
<1>. QED
  BY <1>2, <1>3, <1>4, SumIsNat

-----------------------------------------------------------------------------
\* How often a token is in a text, or a pair of them.
LEMMA FrequencyIs ==
  ASSUME NEW tk \in Seq(Toks), NEW t
  PROVE  Frequency(t, tk) \in Nat /\ (Frequency(t, tk) > 0 <=> t \in Range(tk))
<1>1. PICK n \in Nat : n = Len(tk) /\ DOMAIN tk = 1..n
  OBVIOUS
<1>2. Frequency(t, tk) = CountIn(tk, t, n)
  BY <1>1 DEF Frequency, CountIn
<1>3. t \in Range(tk) <=> \E i \in 1..n : tk[i] = t
  BY <1>1, Zenon DEF Range
<1>. QED
  BY <1>2, <1>3, CountInIs

\* The same of pairs.
LEMMA PairFrequencyIs ==
  ASSUME NEW tk \in Seq(Toks), NEW p
  PROVE  PairFrequency(p, tk) \in Nat /\ (PairFrequency(p, tk) > 0 => p[1] \in Range(tk))
<1>1. PICK n \in Nat : n = Len(tk) /\ DOMAIN tk = 1..n
  OBVIOUS
<1>2. PICK J : J = {i \in 1..(n - 1) : <<tk[i], tk[i + 1]>> = p}
  OBVIOUS
<1>3. IsFiniteSet(J)
  <2>1. IsFiniteSet(1..(n - 1)) /\ J \in SUBSET (1..(n - 1))
    BY <1>2, FS_Interval
  <2>. QED
    BY <2>1, FS_Subset
<1>4. Cardinality(J) \in Nat /\ (Cardinality(J) = 0 <=> J = {})
  BY <1>3, FS_CardinalityType, FS_EmptySet
<1>5. PairFrequency(p, tk) = Cardinality(J)
  BY <1>1, <1>2 DEF PairFrequency
<1>6. ASSUME J # {}
      PROVE  p[1] \in Range(tk)
  <2>1. PICK i \in J : TRUE
    BY <1>6
  <2>2. i \in 1..n /\ p[1] = tk[i]
    BY <1>2
  <2>. QED
    BY <1>1, <2>2 DEF Range
<1>. QED
  BY <1>4, <1>5, <1>6

\* What a sequence has is finite.
LEMMA RangeFinite ==
  ASSUME NEW R, NEW s \in Seq(R)
  PROVE  IsFiniteSet(Range(s)) /\ Range(s) \subseteq R
<1>1. s \in [1..Len(s) -> Range(s)] /\ Range(s) \subseteq R
  BY DEF Range
<1>2. s \in Surjection(1..Len(s), Range(s))
  BY <1>1 DEF Surjection, Range
<1>3. IsFiniteSet(1..Len(s))
  BY FS_Interval
<1>. QED
  BY <1>1, <1>2, <1>3, FS_Surjection

\* A text's score is more than 0 where it has a token of the query, and only there.
LEMMA Bm25ScoreIs ==
  ASSUME NEW qtoks \in Seq(Toks), NEW idf \in [Range(qtoks) -> Nat \ {0}], NEW mean \in Nat \ {0},
         NEW text, Tokens(text) \in Seq(Toks), Len(Tokens(text)) <= Scale
  PROVE  /\ Bm25Score(qtoks, idf, mean, text) \in Nat
         /\ Bm25Score(qtoks, idf, mean, text) > 0 <=> TokenSet(text) \cap Range(qtoks) # {}
<1>1. PICK tk \in Seq(Toks) : tk = Tokens(text)
  OBVIOUS
<1>2. PICK Q : Q = Range(qtoks) /\ IsFiniteSet(Q)
  BY RangeFinite
<1>3. PICK dl \in 1..Scale : dl = AtLeast1(Len(tk))
  <2>1. PICK l \in Nat : l = Len(tk) /\ l <= Scale
    BY <1>1
  <2>2. PICK top \in Nat \ {0} : top = Scale
    BY ScoringAssumption
  <2>3. PICK x : x = AtLeast1(l)
    OBVIOUS
  <2>4. x = IF l = 0 THEN 1 ELSE l
    BY <2>3 DEF AtLeast1
  <2>5. x \in 1..top
    BY <2>1, <2>2, <2>4
  <2>. QED
    BY <2>1, <2>2, <2>3, <2>5, Zenon
<1>4. PICK X : X = {t \in Q : Frequency(t, tk) > 0}
  OBVIOUS
<1>5. \A t : t \in X <=> t \in Q /\ t \in Range(tk)
  BY <1>4, FrequencyIs
<1>6. PICK Y : Y = {p \in QueryPairs(qtoks) : PairFrequency(p, tk) > 0}
  OBVIOUS
<1>7. QueryPairs(qtoks) \subseteq Q \X Q
  BY <1>2 DEF QueryPairs, Adjacent, Range
<1>8. IsFiniteSet(X) /\ IsFiniteSet(Y)
  <2>1. IsFiniteSet(Q \X Q)
    BY <1>2, FS_Product
  <2>2. X \subseteq Q /\ Y \subseteq Q \X Q
    BY <1>4, <1>6, <1>7
  <2>. QED
    BY <1>2, <2>1, <2>2, FS_Subset
<1>9. X = {} => Y = {}
  <2>1. ASSUME NEW p \in Y
        PROVE  p[1] \in X
    <3>1. p[1] \in Q /\ PairFrequency(p, tk) > 0
      BY <1>6, <1>7
    <3>2. p[1] \in Range(tk)
      BY <3>1, PairFrequencyIs
    <3>. QED
      BY <1>5, <3>1, <3>2
  <2>. QED
    BY <2>1
<1>10. PICK g : g = [t \in X |-> Term(idf[t], Frequency(t, tk), dl, mean)]
  OBVIOUS
<1>11. ASSUME NEW t \in X
       PROVE  g[t] \in Nat \ {0}
  <2>1. PICK c \in Nat \ {0} : c = Frequency(t, tk)
    BY <1>4, FrequencyIs
  <2>2. PICK i \in Nat \ {0} : i = idf[t]
    BY <1>2, <1>4
  <2>3. g[t] = Term(i, c, dl, mean)
    BY <1>10, <2>1, <2>2
  <2>. QED
    BY <2>3, TermPositive
<1>12. g \in [X -> Nat]
  <2>1. \A t \in X : g[t] \in Nat
    BY <1>11
  <2>2. g = [t \in X |-> g[t]]
    BY <1>10, Zenon
  <2>. QED
    BY <2>1, <2>2
<1>13. PICK h : h = [p \in Y |-> PairTerm(idf, p[1], p[2], PairFrequency(p, tk), dl, mean)]
  OBVIOUS
<1>14. ASSUME NEW p \in Y
       PROVE  h[p] \in Nat
  <2>1. PICK c \in Nat \ {0} : c = PairFrequency(p, tk)
    BY <1>6, PairFrequencyIs
  <2>2. PICK x \in Q, y \in Q : x = p[1] /\ y = p[2]
    BY <1>6, <1>7
  <2>3. h[p] = PairTerm(idf, x, y, c, dl, mean)
    BY <1>13, <2>1, <2>2
  <2>4. idf \in [Q -> Nat \ {0}]
    BY <1>2
  <2>5. PairTerm(idf, x, y, c, dl, mean) \in Nat
    BY <2>4, PairTermNat
  <2>. QED
    BY <2>3, <2>5
<1>15. h \in [Y -> Nat]
  <2>1. \A p \in Y : h[p] \in Nat
    BY <1>14
  <2>2. h = [p \in Y |-> h[p]]
    BY <1>13, Zenon
  <2>. QED
    BY <2>1, <2>2
<1>16. PICK a \in Nat : a = SumFunction(g) /\ (X = {} => a = 0) /\ \A t \in X : a >= g[t]
  BY <1>8, <1>12, SumPositive
<1>17. PICK b \in Nat : b = SumFunction(h) /\ (Y = {} => b = 0)
  BY <1>8, <1>15, SumPositive
<1>18. Bm25Score(qtoks, idf, mean, text) = a + b \div 5
  BY <1>1, <1>2, <1>3, <1>4, <1>6, <1>10, <1>13, <1>16, <1>17, Zenon DEF Bm25Score
<1>19. PICK c \in Nat : c = b \div 5 /\ (b = 0 => c = 0)
  <2>1. b \div 5 \in Nat /\ (b = 0 => b \div 5 = 0)
    OBVIOUS
  <2>. QED
    BY <2>1
<1>20. a + c \in Nat
  OBVIOUS
<1>21. a + c > 0 <=> X # {}
  <2>1. CASE X = {}
    BY <1>9, <1>16, <1>17, <1>19, <2>1
  <2>2. CASE X # {}
    <3>1. PICK t \in X : TRUE
      BY <2>2
    <3>2. a >= g[t] /\ g[t] \in Nat \ {0}
      BY <1>11, <1>16
    <3>. QED
      BY <2>2, <3>2
  <2>. QED
    BY <2>1, <2>2
<1>22. X # {} <=> TokenSet(text) \cap Range(qtoks) # {}
  BY <1>1, <1>2, <1>5 DEF TokenSet
<1>. QED
  BY <1>18, <1>19, <1>20, <1>21, <1>22

\* A weight is more than 0.
LEMMA IdfPositive ==
  ASSUME IInv, NEW df \in Nat
  PROVE  Idf(df) \in Nat \ {0}
<1>1. PICK total \in Nat : total = Cardinality(rows)
  BY RowsAre, FS_CardinalityType
<1>2. PICK n \in Nat : n = Min({df, total})
  <2>1. Min({df, total}) \in {df, total}
    BY OfTwo
  <2>. QED
    BY <2>1
<1>3. PICK q \in Int : q = (4 * (total - n) + 2) \div (2 * n + 1)
  OBVIOUS
<1>4. Max({1, q}) \in Nat \ {0}
  BY MaxOf2
<1>5. Idf(df) = Max({1, (4 * (total - n) + 2) \div (2 * n + 1)})
  BY <1>1, <1>2, Zenon DEF Idf
<1>. QED
  BY <1>3, <1>4, <1>5

\* The tokens of a record's text.
LEMMA RowTokens ==
  ASSUME IInv, NEW r \in rows
  PROVE  Tokens(r.row.text) \in Seq(Toks) /\ Len(Tokens(r.row.text)) <= Scale
<1>1. r.row.text \in Texts
  BY RowsAre
<1>. QED
  BY <1>1, TokensType, TextsAssumption

\* A rescoring is a ranking by such scores.
TellsMatches(f, toks) ==
  \A r \in DOMAIN f : f[r] \in Nat /\ (f[r] > 0 <=> TokenSet(r.row.text) \cap Range(toks) # {})
\* _bm25_rescore ranks by scores that tell what matches.
LEMMA Bm25RescoreIs ==
  ASSUME IInv, NEW mean \in Nat \ {0}, NEW toks \in Seq(Toks), toks # <<>>, NEW df, \A t \in Range(toks) : df[t] \in Nat,
         NEW A \in SUBSET rows, A # {}, NEW n
  PROVE  \E f \in [A -> Int] : TellsMatches(f, toks) /\ Bm25Rescore(toks, df, A, mean, n) = Best(ScoredBy(f), n)
<1>1. PICK idf : idf = IdfsFor(toks, df)
  OBVIOUS
<1>2. idf \in [Range(toks) -> Nat \ {0}]
  <2>1. \A t \in Range(toks) : Idf(df[t]) \in Nat \ {0}
    BY IdfPositive
  <2>. QED
    BY <1>1, <2>1 DEF IdfsFor
<1>4. PICK f : f = [r \in A |-> Bm25Score(toks, idf, mean, r.row.text)]
  OBVIOUS
<1>5. ASSUME NEW r \in A
      PROVE  f[r] \in Nat /\ (f[r] > 0 <=> TokenSet(r.row.text) \cap Range(toks) # {})
  BY <1>2, <1>4, RowTokens, Bm25ScoreIs
<1>6. f \in [A -> Int] /\ TellsMatches(f, toks)
  <2>1. f = [r \in A |-> f[r]] /\ DOMAIN f = A
    BY <1>4, Zenon
  <2>2. \A r \in A : f[r] \in Int
    BY <1>5
  <2>. QED
    BY <1>5, <2>1, <2>2 DEF TellsMatches
<1>7. {[id |-> c.id, score |-> Bm25Score(toks, idf, mean, c.text)] : c \in Candidates(A)} = ScoredBy(f)
  <2>1. PICK L : L = {[id |-> c.id, score |-> Bm25Score(toks, idf, mean, c.text)] : c \in Candidates(A)}
    OBVIOUS
  <2>2. PICK F : F = ScoredBy(f)
    OBVIOUS
  <2>3. F = {[id |-> r.id, score |-> f[r]] : r \in A}
    BY <1>4, <2>2 DEF ScoredBy
  <2>4. ASSUME NEW x \in L
        PROVE  x \in F
    <3>1. PICK c \in Candidates(A) : x = [id |-> c.id, score |-> Bm25Score(toks, idf, mean, c.text)]
      BY <2>1
    <3>2. PICK r \in A : c = [id |-> r.id, text |-> r.row.text]
      BY DEF Candidates
    <3>3. c.id = r.id /\ c.text = r.row.text
      BY <3>2
    <3>4. x = [id |-> r.id, score |-> Bm25Score(toks, idf, mean, r.row.text)]
      BY <3>1, <3>3, Zenon
    <3>5. f[r] = Bm25Score(toks, idf, mean, r.row.text)
      BY <1>4
    <3>. QED
      BY <2>3, <3>4, <3>5
  <2>5. ASSUME NEW x \in F
        PROVE  x \in L
    <3>1. PICK r \in A : x = [id |-> r.id, score |-> f[r]]
      BY <2>3
    <3>2. PICK c : c = [id |-> r.id, text |-> r.row.text]
      OBVIOUS
    <3>3. c \in Candidates(A) /\ c.id = r.id /\ c.text = r.row.text
      BY <3>2 DEF Candidates
    <3>4. f[r] = Bm25Score(toks, idf, mean, c.text)
      BY <1>4, <3>3
    <3>. QED
      BY <2>1, <3>1, <3>3, <3>4
  <2>6. L = F
    BY <2>4, <2>5
  <2>. QED
    BY <2>1, <2>2, <2>6
<1>8. Bm25Rescore(toks, df, A, mean, n) = Best(ScoredBy(f), n)
  BY <1>1, <1>7, Zenon DEF Bm25Rescore, Bm25TopN
<1>. QED
  BY <1>6, <1>8

\* FTS5's mean length is a positive number.
LEMMA FtsAvgDlType ==
  ASSUME IInv
  PROVE  FtsAvgDl \in Nat \ {0}
<1>1. PICK g : g = [r \in rows |-> Len(Tokens(r.row.text))]
  OBVIOUS
<1>2. g \in [rows -> Nat]
  <2>1. \A r \in rows : Len(Tokens(r.row.text)) \in Nat
    BY RowTokens
  <2>. QED
    BY <1>1, <2>1
<1>3. PICK total \in Nat : total = SumFunction(g)
  BY <1>2, RowsAre, SumIsNat
<1>4. PICK c \in Nat : c = Cardinality(rows) /\ (rows # {} => c # 0)
  BY RowsAre, FS_CardinalityType, FS_EmptySet
<1>5. FtsAvgDl = IF rows = {} THEN 1 ELSE Max({1, total \div c})
  BY <1>1, <1>3, <1>4, Zenon DEF FtsAvgDl
<1>6. rows # {} => total \div c \in Int
  BY <1>4
<1>7. rows # {} => Max({1, total \div c}) \in Nat \ {0}
  BY <1>6, MaxOf2
<1>. QED
  BY <1>5, <1>7

\* FTS5's is a ranking, too.
LEMMA FtsRankIs ==
  ASSUME IInv, NEW toks \in Seq(Toks), NEW A \in SUBSET rows, NEW n
  PROVE  \E f \in [A -> Int] : FtsRank(toks, A, n) = Best(ScoredBy(f), n)
<1>1. PICK df : df = [t \in Range(toks) |-> Df(t)]
  OBVIOUS
<1>2. \A t \in Range(toks) : df[t] \in Nat
  <2>1. ASSUME NEW t PROVE Df(t) \in Nat
    <3>1. IsFiniteSet(Matching({t}))
      BY RowsAre, FS_Subset DEF Matching
    <3>. QED
      BY <3>1, FS_CardinalityType DEF Df
  <2>. QED
    BY <1>1, <2>1
<1>3. PICK f : f = [r \in A |->
        SumFunction([t \in Range(toks) \cap TokenSet(r.row.text) |->
                       Term(Idf(df[t]), Frequency(t, Tokens(r.row.text)),
                            AtLeast1(Len(Tokens(r.row.text))), FtsAvgDl)])]
  OBVIOUS
<1>4. ASSUME NEW r \in A
      PROVE  f[r] \in Int
  <2>1. PICK tk \in Seq(Toks) : tk = Tokens(r.row.text)
    BY RowTokens
  <2>2. PICK X : X = Range(toks) \cap TokenSet(r.row.text)
    OBVIOUS
  <2>3. PICK mean \in Nat \ {0} : mean = FtsAvgDl
    BY FtsAvgDlType
  <2>4. PICK dl \in 1..Scale : dl = AtLeast1(Len(tk))
    <3>1. PICK l \in Nat : l = Len(tk) /\ l <= Scale
      BY <2>1, RowTokens
    <3>2. Scale \in Nat \ {0}
      BY ScoringAssumption
    <3>. QED
      BY <3>1, <3>2 DEF AtLeast1
  <2>5. PICK g : g = [t \in X |-> Term(Idf(df[t]), Frequency(t, tk), dl, mean)]
    OBVIOUS
  <2>6. ASSUME NEW t \in X
        PROVE  g[t] \in Nat
    <3>1. PICK i \in Nat \ {0} : i = Idf(df[t])
      BY <1>2, <2>2, IdfPositive
    <3>2. PICK c \in Nat \ {0} : c = Frequency(t, tk)
      BY <2>1, <2>2, FrequencyIs DEF TokenSet
    <3>3. g[t] = Term(i, c, dl, mean)
      BY <2>5, <3>1, <3>2
    <3>. QED
      BY <3>3, TermPositive
  <2>7. g \in [X -> Nat]
    <3>1. g = [t \in X |-> g[t]]
      BY <2>5, Zenon
    <3>2. \A t \in X : g[t] \in Nat
      BY <2>6
    <3>. QED
      BY <3>1, <3>2
  <2>8. IsFiniteSet(X)
    BY <2>2, RangeFinite, FS_Subset
  <2>9. f[r] = SumFunction(g)
    BY <1>3, <2>1, <2>2, <2>3, <2>4, <2>5, Zenon
  <2>10. SumFunction(g) \in Nat
    BY <2>7, <2>8, SumIsNat
  <2>. QED
    BY <2>9, <2>10
<1>5. f \in [A -> Int]
  <2>1. f = [r \in A |-> f[r]]
    BY <1>3, Zenon
  <2>2. \A r \in A : f[r] \in Int
    BY <1>4
  <2>. QED
    BY <2>1, <2>2
<1>6. FtsRank(toks, A, n) = Best(ScoredBy(f), n)
  <2>1. {[id |-> r.id, score |->
            SumFunction([t \in Range(toks) \cap TokenSet(r.row.text) |->
                           Term(Idf(df[t]), Frequency(t, Tokens(r.row.text)),
                                AtLeast1(Len(Tokens(r.row.text))), FtsAvgDl)])] : r \in A}
          = ScoredBy(f)
    BY <1>3 DEF ScoredBy
  <2>. QED
    BY <1>1, <2>1, Zenon DEF FtsRank
<1>. QED
  BY <1>5, <1>6

-----------------------------------------------------------------------------
\* As many scores as there are records: ids are distinct.
LEMMA ScoredBySize ==
  ASSUME IInv, IdsKept, NEW A \in SUBSET rows, NEW f \in [A -> Int]
  PROVE  Cardinality(A) <= Cardinality(ScoredBy(f))
<1>1. IsFiniteSet(ScoredBy(f))
  BY ScoredByIs
<1>2. PICK E : E = ScoredBy(f)
  OBVIOUS
<1>3. E = {[id |-> r.id, score |-> f[r]] : r \in A}
  BY <1>2 DEF ScoredBy
<1>4. PICK e : e = [r \in A |-> [id |-> r.id, score |-> f[r]]]
  OBVIOUS
<1>5. e \in [A -> E]
  BY <1>3, <1>4
<1>6. \A a, b \in A : e[a] = e[b] => a = b
  <2>1. SUFFICES ASSUME NEW a \in A, NEW b \in A, e[a] = e[b] PROVE a = b
    OBVIOUS
  <2>2. e[a].id = a.id /\ e[b].id = b.id
    BY <1>4
  <2>3. a.id = b.id
    BY <2>1, <2>2
  <2>. QED
    BY <2>3 DEF IdsKept
<1>7. e \in Injection(A, E)
  BY <1>5, <1>6 DEF Injection, IsInjective
<1>. QED
  BY <1>1, <1>2, <1>7, FS_Injection

\* A ranking of records: of their ids, all if there is room; what is missing is no better.
RankedBy(r, f, n) ==
  /\ r \in Seq(Scored) /\ Len(r) <= n
  /\ \A x \in Range(r) : \E a \in DOMAIN f : x.id = a.id /\ x.score = f[a]
  /\ \A a \in DOMAIN f : \/ \E x \in Range(r) : x.id = a.id /\ x.score = f[a]
                         \/ Len(r) = n /\ \A x \in Range(r) : x.score >= f[a]
  /\ Len(r) = n \/ Cardinality(DOMAIN f) <= Len(r)

\* What a ranking leaves out is no better than what it has, and only for want of room.
LEMMA BestTakes ==
  ASSUME NEW S \in SUBSET Scored, IsFiniteSet(S), NEW n \in Nat
  PROVE  /\ Best(S, n) \in Seq(S) /\ Len(Best(S, n)) <= n
         /\ \A x \in S : \/ x \in Range(Best(S, n))
                         \/ Len(Best(S, n)) = n /\ \A y \in Range(Best(S, n)) : y.score >= x.score
         /\ Len(Best(S, n)) = n \/ Len(Best(S, n)) = Cardinality(S)
<1>1. PICK s : Lists(s, BestFirst(S), S) /\ Best(S, n) \in Seq(S) /\ Firsts(Best(S, n), s, n)
  BY BestIs
<1>2. PICK r \in Seq(S) : r = Best(S, n)
  BY <1>1
<1>3. PICK l \in Nat : l = Len(s) /\ DOMAIN s = 1..l
  BY <1>1 DEF Lists
<1>4. s \in Seq(S) /\ l = Cardinality(S) /\ Range(s) = S
  BY <1>1, <1>3 DEF Lists
<1>5. PICK m \in Nat : m = Len(r)
  BY <1>2
<1>6. m = (IF n <= l THEN n ELSE l) /\ DOMAIN r = 1..m /\ \A i \in 1..m : r[i] = s[i]
  BY <1>1, <1>2, <1>3, <1>5 DEF Firsts
<1>7. m <= n /\ m <= l /\ (m = n \/ m = l)
  BY <1>6
<1>8. ASSUME NEW x \in S
      PROVE  \/ x \in Range(r)
             \/ m = n /\ \A y \in Range(r) : y.score >= x.score
  <2>1. PICK k \in 1..l : s[k] = x
    BY <1>3, <1>4 DEF Range
  <2>2. CASE k <= m
    <3>1. k \in 1..m /\ r[k] = x
      BY <1>6, <2>1, <2>2
    <3>. QED
      BY <1>6, <3>1 DEF Range
  <2>3. CASE k > m
    <3>1. m = n
      BY <1>7, <2>1, <2>3
    <3>2. ASSUME NEW y \in Range(r)
          PROVE  y.score >= x.score
      <4>1. PICK i \in 1..m : r[i] = y
        BY <1>6 DEF Range
      <4>2. i \in 1..l /\ i < k /\ s[i] = y
        BY <1>6, <1>7, <2>1, <2>3, <4>1
      <4>3. <<s[i], s[k]>> \in BestFirst(S)
        BY <1>1, <1>3, <2>1, <4>2 DEF Lists
      <4>4. y \in S /\ <<y, x>> \in BestFirst(S)
        <5>1. s[i] \in S
          BY <1>3, <1>4, <4>2
        <5>. QED
          BY <2>1, <4>2, <4>3, <5>1
      <4>5. PICK u \in Int, v \in Int : u = y.score /\ v = x.score
        BY <4>4 DEF Scored
      <4>6. u > v \/ u = v
        BY <4>4, <4>5 DEF BestFirst
      <4>7. u >= v
        BY <4>6
      <4>. QED
        BY <4>5, <4>7
    <3>. QED
      BY <3>1, <3>2
  <2>. QED
    BY <2>1, <2>2, <2>3
<1>. QED
  BY <1>2, <1>4, <1>5, <1>7, <1>8

\* So a ranking of records is one.
LEMMA BestRanks ==
  ASSUME IInv, IdsKept, NEW A \in SUBSET rows, NEW f \in [A -> Int], NEW n \in Nat
  PROVE  RankedBy(Best(ScoredBy(f), n), f, n)
<1>1. PICK E : E = ScoredBy(f)
  OBVIOUS
<1>2. E \in SUBSET Scored /\ IsFiniteSet(E) /\ Cardinality(A) \in Nat /\ Cardinality(A) <= Cardinality(E)
  BY <1>1, ScoredByIs, ScoredBySize
<1>3. E = {[id |-> a.id, score |-> f[a]] : a \in A} /\ DOMAIN f = A
  BY <1>1 DEF ScoredBy
<1>4. PICK r : r = Best(E, n)
  OBVIOUS
<1>5. /\ r \in Seq(E) /\ Len(r) <= n
      /\ \A x \in E : \/ x \in Range(r)
                      \/ Len(r) = n /\ \A y \in Range(r) : y.score >= x.score
      /\ Len(r) = n \/ Len(r) = Cardinality(E)
  BY <1>2, <1>4, BestTakes
<1>6. r \in Seq(Scored)
  BY <1>2, <1>5
<1>7. ASSUME NEW x \in Range(r)
      PROVE  \E a \in A : x.id = a.id /\ x.score = f[a]
  <2>1. x \in E
    BY <1>5 DEF Range
  <2>2. PICK a \in A : x = [id |-> a.id, score |-> f[a]]
    BY <1>3, <2>1
  <2>3. x.id = a.id /\ x.score = f[a]
    BY <2>2
  <2>. QED
    BY <2>3
<1>8. ASSUME NEW a \in A
      PROVE  \/ \E x \in Range(r) : x.id = a.id /\ x.score = f[a]
             \/ Len(r) = n /\ \A x \in Range(r) : x.score >= f[a]
  <2>1. PICK x \in E : x = [id |-> a.id, score |-> f[a]]
    BY <1>3
  <2>2. x.id = a.id /\ x.score = f[a]
    BY <2>1
  <2>3. CASE x \in Range(r)
    BY <2>2, <2>3
  <2>4. CASE Len(r) = n /\ \A y \in Range(r) : y.score >= x.score
    BY <2>2, <2>4
  <2>. QED
    BY <1>5, <2>3, <2>4
<1>9. Len(r) = n \/ Cardinality(A) <= Len(r)
  BY <1>2, <1>5
<1>10. RankedBy(r, f, n)
  BY <1>3, <1>5, <1>6, <1>7, <1>8, <1>9 DEF RankedBy
<1>. QED
  BY <1>1, <1>4, <1>10

\* The first rows of a set by id: all, unless there are n of them.
LEMMA FirstRowsMany ==
  ASSUME IInv, IdsKept, NEW S \in SUBSET rows, NEW n \in Nat, NEW r \in S, r \notin FirstRows(S, n)
  PROVE  /\ IsFiniteSet(FirstRows(S, n)) /\ Cardinality(FirstRows(S, n)) \in Nat
         /\ n <= Cardinality(FirstRows(S, n))
<1>1. IsFiniteSet(S)
  BY RowsAre, FS_Subset
<1>2. PICK R : R = {p \in S \X S : p[1].id < p[2].id}
  OBVIOUS
<1>3. ASSUME NEW a \in S, NEW b \in S
      PROVE  <<a, b>> \in R <=> a.id < b.id
  BY <1>2
<1>4. \A a \in S : a.id \in Int
  BY DEF IdsKept
<1>5. \A a, b \in S : a.id = b.id => a = b
  BY DEF IdsKept
<1>6. Orders(R, S)
  <2>1. \A a \in S : <<a, a>> \notin R
    BY <1>3, <1>4
  <2>2. \A a, b \in S : a # b => <<a, b>> \in R \/ <<b, a>> \in R
    BY <1>3, <1>4, <1>5
  <2>3. \A a, b, c \in S : <<a, b>> \in R /\ <<b, c>> \in R => <<a, c>> \in R
    BY <1>3, <1>4
  <2>. QED
    BY <2>1, <2>2, <2>3 DEF Orders
<1>7. PICK c \in Nat : c = Cardinality(S)
  BY <1>1, FS_CardinalityType
<1>8. PICK rank \in [S -> 0..(c - 1)] : rank = RankIn(R, S)
  BY <1>1, <1>6, <1>7, RankIs
<1>9. \A k \in 0..(c - 1) : \E x \in S : rank[x] = k
  BY <1>1, <1>6, <1>7, <1>8, RankIs
<1>10. ASSUME NEW x \in S
       PROVE  rank[x] = Cardinality({y \in S : y.id < x.id})
  <2>1. {y \in S : <<y, x>> \in R} = {y \in S : y.id < x.id}
    BY <1>3
  <2>. QED
    BY <1>8, <2>1 DEF RankIn
<1>11. PICK F : F = FirstRows(S, n)
  OBVIOUS
<1>12. F = {x \in S : rank[x] < n}
  BY <1>10, <1>11 DEF FirstRows
<1>13. n <= c - 1
  <2>1. rank[r] \in 0..(c - 1) /\ ~(rank[r] < n)
    BY <1>8, <1>11, <1>12
  <2>. QED
    BY <2>1
<1>14. IsFiniteSet(F)
  BY <1>1, <1>12, FS_Subset
<1>15. PICK g : g = [x \in F |-> rank[x]]
  OBVIOUS
<1>16. g \in [F -> 0..(n - 1)]
  <2>1. ASSUME NEW x \in F
        PROVE  rank[x] \in 0..(n - 1)
    <3>1. rank[x] \in 0..(c - 1) /\ rank[x] < n
      BY <1>8, <1>12
    <3>. QED
      BY <3>1
  <2>. QED
    BY <1>15, <2>1
<1>17. ASSUME NEW k \in 0..(n - 1)
       PROVE  \E x \in F : g[x] = k
  <2>1. k \in 0..(c - 1) /\ k < n
    BY <1>13
  <2>2. PICK x \in S : rank[x] = k
    BY <1>9, <2>1
  <2>. QED
    BY <1>12, <1>15, <2>1, <2>2
<1>18. g \in Surjection(F, 0..(n - 1))
  BY <1>16, <1>17 DEF Surjection
<1>19. Cardinality(0..(n - 1)) <= Cardinality(F) /\ Cardinality(F) \in Nat
  BY <1>14, <1>18, FS_Surjection, FS_CardinalityType
<1>20. Cardinality(0..(n - 1)) = n
  BY FS_Interval
<1>. QED
  BY <1>11, <1>14, <1>19, <1>20

-----------------------------------------------------------------------------
\* What a search for T among A must do: find what has one of them; all that has every one
\* of them, unless it found enough; and something at all.
Finds(r, T, A, n, some) ==
  /\ r \in Seq(Scored)
  /\ \A x \in Range(r) : \E a \in A \cap Matching(T) : x.id = a.id
  /\ T # {} /\ Len(r) < n => \A a \in A \cap MatchingAll(T) : \E x \in Range(r) : x.id = a.id
  /\ some => Range(r) # {}

\* A sequence that is not empty has something.
LEMMA SomeInRange ==
  ASSUME NEW R, NEW s \in Seq(R)
  PROVE  Range(s) \subseteq R /\ (Len(s) > 0 <=> Range(s) # {}) /\ Len(s) \in Nat
<1>1. PICK n \in Nat : n = Len(s) /\ DOMAIN s = 1..n
  OBVIOUS
<1>2. \A i \in 1..n : s[i] \in R
  BY <1>1
<1>3. \A x : x \in Range(s) <=> \E i \in 1..n : s[i] = x
  BY <1>1, Zenon DEF Range
<1>4. n > 0 => s[1] \in Range(s)
  BY <1>1, <1>3
<1>5. Range(s) # {} => n > 0
  BY <1>3
<1>. QED
  BY <1>1, <1>2, <1>3, <1>4, <1>5

\* What a ranking finds: all, if there is room; and something, if there is anything.
LEMMA RankedFinds ==
  ASSUME NEW f, NEW n \in Nat \ {0}, NEW r, RankedBy(r, f, n)
  PROVE  /\ Len(r) < n => \A a \in DOMAIN f : \E x \in Range(r) : x.id = a.id
         /\ DOMAIN f # {} => Range(r) # {}
<1>1. r \in Seq(Scored) /\ Len(r) \in Nat /\ (Len(r) > 0 <=> Range(r) # {})
  BY SomeInRange DEF RankedBy
<1>2. Len(r) < n => \A a \in DOMAIN f : \E x \in Range(r) : x.id = a.id
  BY <1>1 DEF RankedBy
<1>3. Len(r) = n => Range(r) # {}
  BY <1>1
<1>4. ASSUME NEW a \in DOMAIN f
      PROVE  Range(r) # {}
  BY <1>3 DEF RankedBy
<1>. QED
  BY <1>2, <1>4

\* _bm25_rescore, of any records.
LEMMA RescoreRanks ==
  ASSUME IInv, IdsKept, NEW toks \in Seq(Toks), toks # <<>>, NEW df,
         \A t \in Range(toks) : df[t] \in Nat, NEW A \in SUBSET rows, NEW n \in Nat,
         NEW mean, A # {} => mean \in Nat \ {0}
  PROVE  \E f \in [A -> Int] : TellsMatches(f, toks) /\ RankedBy(Bm25Rescore(toks, df, A, mean, n), f, n)
<1>1. CASE A = {}
  <2>1. PICK f \in [A -> Int] : DOMAIN f = {}
    <3>1. [r \in A |-> 0] \in [A -> Int] /\ DOMAIN [r \in A |-> 0] = {}
      BY <1>1
    <3>. QED
      BY <3>1
  <2>2. TellsMatches(f, toks)
    BY <2>1 DEF TellsMatches
  <2>3. Bm25Rescore(toks, df, A, mean, n) = <<>>
    BY <1>1 DEF Bm25Rescore
  <2>4. <<>> \in Seq(Scored) /\ Len(<<>>) = 0 /\ Range(<<>>) = {}
    BY DEF Range
  <2>5. Cardinality(DOMAIN f) = 0
    BY <2>1, FS_EmptySet
  <2>6. RankedBy(<<>>, f, n)
    BY <2>1, <2>4, <2>5 DEF RankedBy
  <2>. QED
    BY <2>2, <2>3, <2>6
<1>2. CASE A # {}
  <2>1. PICK f \in [A -> Int] : TellsMatches(f, toks) /\ Bm25Rescore(toks, df, A, mean, n) = Best(ScoredBy(f), n)
    BY <1>2, Bm25RescoreIs
  <2>2. RankedBy(Best(ScoredBy(f), n), f, n)
    BY BestRanks
  <2>. QED
    BY <2>1, <2>2
<1>. QED
  BY <1>1, <1>2

\* FTS5, of any records.
LEMMA FtsRanks ==
  ASSUME IInv, IdsKept, NEW toks \in Seq(Toks), NEW A \in SUBSET rows, NEW n \in Nat
  PROVE  \E f \in [A -> Int] : RankedBy(FtsRank(toks, A, n), f, n)
<1>1. PICK f \in [A -> Int] : FtsRank(toks, A, n) = Best(ScoredBy(f), n)
  BY FtsRankIs
<1>2. RankedBy(Best(ScoredBy(f), n), f, n)
  BY BestRanks
<1>. QED
  BY <1>1, <1>2

\* A small document, ranked by itself: what scores 0 is left out.
LEMMA DirectFinds ==
  ASSUME NEW A \in SUBSET rows, NEW n \in Nat \ {0}, NEW f \in [A -> Int], NEW toks \in Seq(Toks), TellsMatches(f, toks),
         NEW ranked, RankedBy(ranked, f, n), NEW r, r = Selected(ranked, {x \in Range(ranked) : x.score > 0}),
         NEW some, some => A \cap Matching(Range(toks)) # {}
  PROVE  Finds(r, Range(toks), A, n, some)
<1>1. PICK T : T = Range(toks)
  OBVIOUS
<1>2. ranked \in Seq(Scored) /\ Len(ranked) \in Nat /\ Len(ranked) <= n
  BY SomeInRange DEF RankedBy
<1>3. PICK P : P = {x \in Range(ranked) : x.score > 0}
  OBVIOUS
<1>4. /\ r \in Seq(Scored) /\ Len(r) <= Len(ranked)
      /\ Len(r) = Len(ranked) <=> Range(ranked) \subseteq P
      /\ \A x : x \in Range(r) <=> x \in Range(ranked) /\ x \in P
  BY <1>2, <1>3, SelectedIs
<1>5. \A x : x \in Range(r) <=> x \in Range(ranked) /\ x.score > 0
  BY <1>3, <1>4
<1>6. ASSUME NEW a \in A
      PROVE  f[a] \in Nat /\ (f[a] > 0 <=> a \in Matching(T))
  BY <1>1 DEF TellsMatches, Matching
<1>7. ASSUME NEW x \in Range(r)
      PROVE  \E a \in A \cap Matching(T) : x.id = a.id
  <2>1. x \in Range(ranked) /\ x.score > 0
    BY <1>5
  <2>2. PICK a \in A : x.id = a.id /\ x.score = f[a]
    BY <2>1 DEF RankedBy
  <2>. QED
    BY <1>6, <2>1, <2>2
<1>8. ASSUME NEW a \in A \cap Matching(T)
      PROVE  \/ \E x \in Range(r) : x.id = a.id
             \/ Len(r) = n
  <2>1. a \in A /\ f[a] \in Nat /\ f[a] > 0
    BY <1>6
  <2>2. CASE \E x \in Range(ranked) : x.id = a.id /\ x.score = f[a]
    BY <1>5, <2>1, <2>2
  <2>3. CASE Len(ranked) = n /\ \A x \in Range(ranked) : x.score >= f[a]
    <3>1. ASSUME NEW x \in Range(ranked)
          PROVE  x \in P
      <4>1. x \in Scored
        BY <1>2, SomeInRange
      <4>2. PICK v \in Int : v = x.score
        BY <4>1 DEF Scored
      <4>3. v >= f[a]
        BY <2>3, <4>2
      <4>4. v > 0
        BY <2>1, <4>3
      <4>. QED
        BY <1>3, <4>2, <4>4
    <3>. QED
      BY <1>4, <2>3, <3>1
  <2>. QED
    BY <2>1, <2>2, <2>3 DEF RankedBy
<1>9. ASSUME NEW a \in A \cap Matching(T)
      PROVE  Range(r) # {}
  <2>1. Len(r) > 0 <=> Range(r) # {}
    BY <1>4, SomeInRange
  <2>2. CASE Len(r) = n
    BY <2>1, <2>2
  <2>. QED
    BY <1>8, <2>2
<1>10. T # {} => MatchingAll(T) \subseteq Matching(T)
  BY DEF Matching, MatchingAll
<1>11. T # {} /\ Len(r) < n => \A a \in A \cap MatchingAll(T) : \E x \in Range(r) : x.id = a.id
  <2>1. Len(r) < n => Len(r) # n
    BY <1>4, SomeInRange
  <2>. QED
    BY <1>8, <1>10, <2>1
<1>12. some => Range(r) # {}
  BY <1>1, <1>9
<1>13. Finds(r, T, A, n, some)
  BY <1>4, <1>7, <1>11, <1>12 DEF Finds
<1>. QED
  BY <1>1, <1>13

\* The tokens that are kept, when something is to be found.
LEMMA KeptMatch ==
  ASSUME IInv, NEW toks \in Seq(Toks), NEW df, \A t \in Range(toks) : df[t] \in Nat,
         \A t \in Range(toks) : df[t] = Df(t), Matching(Range(toks)) # {}
  PROVE  Matching(Range(PruneCommon(toks, df))) # {}
<1>1. \A t : IsFiniteSet(Matching({t}))
  <2>1. ASSUME NEW t PROVE IsFiniteSet(Matching({t}))
    BY RowsAre, FS_Subset DEF Matching
  <2>. QED
    BY <2>1
<1>2. \A t : Df(t) \in Nat /\ (Df(t) > 0 <=> Matching({t}) # {})
  <2>1. ASSUME NEW t PROVE Df(t) \in Nat /\ (Df(t) > 0 <=> Matching({t}) # {})
    <3>1. PICK M : M = Matching({t}) /\ IsFiniteSet(M)
      BY <1>1
    <3>2. PICK c \in Nat : c = Cardinality(M) /\ (c = 0 <=> M = {})
      BY <3>1, FS_CardinalityType, FS_EmptySet
    <3>3. Df(t) = c
      BY <3>1, <3>2 DEF Df
    <3>4. c > 0 <=> M # {}
      BY <3>2
    <3>. QED
      BY <3>1, <3>3, <3>4
  <2>. QED
    BY <2>1
<1>3. PICK t \in Range(toks) : Matching({t}) # {}
  BY DEF Matching
<1>4. df[t] > 0
  BY <1>2, <1>3
<1>5. PICK u \in Range(PruneCommon(toks, df)) : df[u] > 0
  BY <1>4, PruneCommonKeeps
<1>6. u \in Range(toks)
  BY <1>5, PruneCommonKeeps
<1>7. Matching({u}) # {}
  BY <1>2, <1>5, <1>6
<1>. QED
  BY <1>5, <1>7 DEF Matching

-----------------------------------------------------------------------------
\* One ranked query: no token was dropped.
LEMMA OneStageFinds ==
  ASSUME IInv, IdsKept, NEW A \in SUBSET rows, NEW n \in Nat \ {0}, NEW kept \in Seq(Toks), NEW T, T = Range(kept),
         NEW some, some => A \cap Matching(T) # {}
  PROVE  Finds(FtsRank(kept, Matching(T) \cap A, n), T, A, n, some)
<1>1. PICK M \in SUBSET rows : M = Matching(T) \cap A
  OBVIOUS
<1>2. PICK r : r = FtsRank(kept, M, n)
  OBVIOUS
<1>3. PICK f \in [M -> Int] : RankedBy(r, f, n)
  BY <1>2, FtsRanks
<1>4. DOMAIN f = M
  OBVIOUS
<1>5. r \in Seq(Scored) /\ \A x \in Range(r) : \E a \in A \cap Matching(T) : x.id = a.id
  BY <1>1, <1>3, <1>4 DEF RankedBy
<1>6. T # {} => MatchingAll(T) \subseteq Matching(T)
  BY DEF Matching, MatchingAll
<1>7. /\ Len(r) < n => \A a \in M : \E x \in Range(r) : x.id = a.id
      /\ M # {} => Range(r) # {}
  BY <1>3, <1>4, RankedFinds
<1>8. T # {} /\ Len(r) < n => \A a \in A \cap MatchingAll(T) : \E x \in Range(r) : x.id = a.id
  BY <1>1, <1>6, <1>7
<1>9. some => Range(r) # {}
  BY <1>1, <1>7
<1>10. Finds(r, T, A, n, some)
  BY <1>5, <1>8, <1>9 DEF Finds
<1>. QED
  BY <1>1, <1>2, <1>10

\* Two stages: the candidates of the tokens kept, and rows with every token.
Candidates2(kept, T, A) ==
  {Row(i) : i \in Range(Ids(FtsRank(kept, Matching(Range(kept)) \cap A, OrCand)))}
  \cup FirstRows(MatchingAll(T) \cap A, AndCand)
\* The ids of a ranking.
LEMMA IdsRange ==
  ASSUME NEW R, NEW s \in Seq(R), NEW i
  PROVE  i \in Range(Ids(s)) <=> \E x \in Range(s) : x.id = i
<1>1. PICK n \in Nat : n = Len(s) /\ DOMAIN s = 1..n
  OBVIOUS
<1>2. PICK ids : ids = Ids(s)
  OBVIOUS
<1>3. DOMAIN ids = 1..n /\ \A j \in 1..n : ids[j] = s[j].id
  BY <1>1, <1>2 DEF Ids
<1>4. i \in Range(ids) <=> \E j \in 1..n : ids[j] = i
  BY <1>3, Zenon DEF Range
<1>5. \A x : x \in Range(s) <=> \E j \in 1..n : s[j] = x
  BY <1>1, Zenon DEF Range
<1>6. i \in Range(ids) <=> \E x \in Range(s) : x.id = i
  BY <1>3, <1>4, <1>5
<1>. QED
  BY <1>2, <1>6

\* They match, hold every row with all tokens or as many as are wanted, and are some if there
\* are any.
LEMMA CandidatesAre ==
  ASSUME IInv, IdsKept, NEW A \in SUBSET rows, NEW kept \in Seq(Toks), NEW T, T # {}, Range(kept) \subseteq T
  PROVE  /\ Candidates2(kept, T, A) \subseteq A \cap Matching(T)
         /\ \A a \in A \cap MatchingAll(T) :
              a \in Candidates2(kept, T, A) \/ AndCand <= Cardinality(Candidates2(kept, T, A))
         /\ A \cap Matching(Range(kept)) # {} => Candidates2(kept, T, A) # {}
<1>1. PICK M \in SUBSET rows : M = Matching(Range(kept)) \cap A
  OBVIOUS
<1>2. OrCand \in Nat \ {0} /\ AndCand \in Nat
  BY RetrievalAssumption, CandidatesAssumption
<1>3. PICK r : r = FtsRank(kept, M, OrCand)
  OBVIOUS
<1>4. PICK f \in [M -> Int] : RankedBy(r, f, OrCand)
  BY <1>2, <1>3, FtsRanks
<1>5. DOMAIN f = M
  OBVIOUS
<1>6. PICK G : G = {Row(i) : i \in Range(Ids(r))}
  OBVIOUS
<1>7. PICK D \in SUBSET rows : D = MatchingAll(T) \cap A
  OBVIOUS
<1>8. PICK F : F = FirstRows(D, AndCand)
  OBVIOUS
<1>9. Candidates2(kept, T, A) = G \cup F
  BY <1>1, <1>3, <1>6, <1>7, <1>8 DEF Candidates2
<1>10. M \subseteq A \cap Matching(T) /\ D \subseteq A \cap Matching(T)
  BY <1>1, <1>7 DEF Matching, MatchingAll
<1>11. \A i : i \in Range(Ids(r)) <=> \E x \in Range(r) : x.id = i
  BY <1>4, IdsRange DEF RankedBy
<1>12. ASSUME NEW g \in G
       PROVE  g \in M
  <2>1. PICK i \in Range(Ids(r)) : g = Row(i)
    BY <1>6
  <2>2. PICK x \in Range(r) : x.id = i
    BY <1>11
  <2>3. PICK a \in M : x.id = a.id
    BY <1>4, <1>5 DEF RankedBy
  <2>4. g = Row(a.id)
    BY <2>1, <2>2, <2>3
  <2>. QED
    BY <2>4, RowIs
<1>13. F \subseteq D
  BY <1>8 DEF FirstRows
<1>14. G \cup F \subseteq A \cap Matching(T)
  BY <1>10, <1>12, <1>13
<1>15. IsFiniteSet(G \cup F)
  BY <1>14, RowsAre, FS_Subset
<1>16. ASSUME NEW a \in D, a \notin G \cup F
       PROVE  AndCand <= Cardinality(G \cup F)
  <2>1. a \notin FirstRows(D, AndCand)
    BY <1>8, <1>16
  <2>2. Cardinality(F) \in Nat /\ AndCand <= Cardinality(F)
    BY <1>2, <1>8, <2>1, FirstRowsMany
  <2>3. Cardinality(F) <= Cardinality(G \cup F) /\ Cardinality(G \cup F) \in Nat
    BY <1>15, FS_Subset, FS_CardinalityType
  <2>. QED
    BY <1>2, <2>2, <2>3
<1>17. M # {} => G # {}
  <2>1. ASSUME M # {}
        PROVE  \E x : x \in Range(r)
    BY <1>2, <1>4, <1>5, <2>1, RankedFinds
  <2>. QED
    BY <1>6, <1>11, <2>1
<1>. QED
  BY <1>1, <1>7, <1>9, <1>14, <1>16, <1>17

\* Stage 2 ranks them by the whole query.
LEMMA TwoStagesFind ==
  ASSUME IInv, IdsKept, NEW A \in SUBSET rows, NEW n \in Nat \ {0}, n <= AndCand,
         NEW toks \in Seq(Toks), toks # <<>>, NEW df, \A t \in Range(toks) : df[t] \in Nat,
         NEW kept \in Seq(Toks), Range(kept) \subseteq Range(toks),
         NEW some, some => A \cap Matching(Range(kept)) # {},
         NEW mean, Candidates2(kept, Range(toks), A) # {} => mean \in Nat \ {0}
  PROVE  Finds(Bm25Rescore(toks, df, Candidates2(kept, Range(toks), A), mean, n), Range(toks), A, n, some)
<1>1. PICK T : T = Range(toks)
  OBVIOUS
<1>2. T # {}
  <2>1. Len(toks) # 0
    OBVIOUS
  <2>. QED
    BY <1>1, <2>1, SomeInRange
<1>3. PICK C : C = Candidates2(kept, T, A)
  OBVIOUS
<1>4. /\ C \subseteq A \cap Matching(T)
      /\ \A a \in A \cap MatchingAll(T) : a \in C \/ AndCand <= Cardinality(C)
      /\ A \cap Matching(Range(kept)) # {} => C # {}
  BY <1>1, <1>2, <1>3, CandidatesAre
<1>5. C \in SUBSET rows /\ n \in Nat
  BY <1>4
<1>6. PICK r : r = Bm25Rescore(toks, df, C, mean, n)
  OBVIOUS
<1>7. PICK f \in [C -> Int] : RankedBy(r, f, n)
  BY <1>1, <1>3, <1>5, <1>6, RescoreRanks
<1>8. DOMAIN f = C
  OBVIOUS
<1>9. /\ Len(r) < n => \A a \in C : \E x \in Range(r) : x.id = a.id
      /\ C # {} => Range(r) # {}
  BY <1>7, <1>8, RankedFinds
<1>10. r \in Seq(Scored) /\ \A x \in Range(r) : \E a \in A \cap Matching(T) : x.id = a.id
  BY <1>4, <1>7, <1>8 DEF RankedBy
<1>11. Len(r) \in Nat /\ Cardinality(C) \in Nat /\ AndCand \in Nat
  <2>1. IsFiniteSet(C)
    BY <1>5, RowsAre, FS_Subset
  <2>. QED
    BY <1>10, <2>1, SomeInRange, FS_CardinalityType, RetrievalAssumption
<1>12. Len(r) = n \/ Cardinality(C) <= Len(r)
  BY <1>7, <1>8 DEF RankedBy
<1>13. Len(r) < n => ~(AndCand <= Cardinality(C))
  BY <1>11, <1>12
<1>14. Len(r) < n => \A a \in A \cap MatchingAll(T) : \E x \in Range(r) : x.id = a.id
  BY <1>4, <1>9, <1>13
<1>15. some => Range(r) # {}
  BY <1>4, <1>9
<1>16. Finds(r, T, A, n, some)
  BY <1>10, <1>14, <1>15 DEF Finds
<1>. QED
  BY <1>1, <1>3, <1>6, <1>16

SomeFresh(T, A, df) == (\A t \in T : df[t] = Df(t)) /\ A = rows /\ Matching(T) # {}
\* _text_ids, whichever way it goes.
LEMMA TextIdsFind ==
  ASSUME IInv, IdsKept, NEW q, q.text \in Texts, Depth(q) \in Nat \ {0}, Depth(q) <= AndCand,
         NEW df, \A t \in Range(Tokens(q.text)) : df[t] \in Nat,
         NEW mean, Rescores(q, df) => mean \in Nat \ {0}
  PROVE  Finds(TextIds(q, df, mean), Range(Tokens(q.text)), Filtered(q.scope, q.filt), Depth(q),
               SomeFresh(Range(Tokens(q.text)), Filtered(q.scope, q.filt), df))
<1>1. PICK toks \in Seq(Toks) : toks = Tokens(q.text)
  BY TokensType
<1>2. PICK T : T = Range(toks) /\ \A t \in T : df[t] \in Nat
  BY <1>1
<1>3. PICK A \in SUBSET rows : A = Filtered(q.scope, q.filt)
  BY DEF Filtered
<1>4. PICK n \in Nat \ {0} : n = Depth(q) /\ n <= AndCand
  OBVIOUS
<1>5. PICK some : some = SomeFresh(T, A, df)
  OBVIOUS
<1>6. PICK kept : kept = PruneCommon(toks, df)
  OBVIOUS
<1>7. /\ kept \in Seq(Toks) /\ Len(kept) <= Len(toks) /\ Range(kept) \subseteq T
      /\ Len(kept) = Len(toks) => Range(kept) = T
      /\ T # {} => Range(kept) # {}
  BY <1>2, <1>6, PruneCommonKeeps
<1>8. some => Matching(Range(kept)) # {} /\ A = rows
  BY <1>1, <1>2, <1>5, <1>6, KeptMatch DEF SomeFresh
<1>9. some => A \cap Matching(Range(kept)) # {} /\ A \cap Matching(T) # {}
  BY <1>7, <1>8 DEF Matching
<1>10. kept # <<>> => toks # <<>>
  <2>1. Len(kept) \in Nat /\ Len(toks) \in Nat
    BY <1>7
  <2>2. kept # <<>> => Len(kept) # 0
    BY <1>7
  <2>3. toks = <<>> => Len(toks) = 0
    OBVIOUS
  <2>. QED
    BY <1>7, <2>1, <2>2, <2>3
<1>11. PICK r : r = TextIds(q, df, mean)
  OBVIOUS
<1>12. ASSUME kept = <<>>
       PROVE  Finds(r, T, A, n, some)
  <2>1. r = <<>>
    BY <1>1, <1>6, <1>11, <1>12 DEF TextIds
  <2>2. Range(<<>>) = {} /\ <<>> \in Seq(Scored)
    BY DEF Range
  <2>3. T = {}
    BY <1>7, <1>12, <2>2
  <2>4. ~some
    BY <1>9, <2>3 DEF Matching
  <2>. QED
    BY <2>1, <2>2, <2>3, <2>4 DEF Finds
<1>13. ASSUME kept # <<>> /\ Direct(q)
       PROVE  Finds(r, T, A, n, some)
  <2>1. PICK ranked : ranked = Bm25Rescore(toks, df, A, mean, n)
    OBVIOUS
  <2>2. r = Selected(ranked, {x \in Range(ranked) : x.score > 0})
    BY <1>1, <1>3, <1>4, <1>6, <1>11, <1>13, <2>1 DEF TextIds
  <2>3. A # {} => mean \in Nat \ {0}
    BY <1>1, <1>3, <1>6, <1>13 DEF Rescores
  <2>4. PICK f \in [A -> Int] : TellsMatches(f, toks) /\ RankedBy(ranked, f, n)
    BY <1>2, <1>10, <1>13, <2>1, <2>3, RescoreRanks
  <2>. QED
    BY <1>2, <1>9, <2>2, <2>4, DirectFinds
<1>14. ASSUME kept # <<>> /\ ~Direct(q) /\ TwoStage(toks, kept)
       PROVE  Finds(r, T, A, n, some)
  <2>1. Stage2(q, toks, kept) = Candidates2(kept, T, A)
    BY <1>2, <1>3 DEF Stage2, Candidates2
  <2>2. r = Bm25Rescore(toks, df, Candidates2(kept, T, A), mean, n)
    BY <1>1, <1>4, <1>6, <1>11, <1>14, <2>1 DEF TextIds
  <2>3. Candidates2(kept, T, A) # {} => mean \in Nat \ {0}
    BY <1>1, <1>6, <1>14, <2>1 DEF Rescores
  <2>. QED
    BY <1>2, <1>4, <1>7, <1>9, <1>10, <1>14, <2>2, <2>3, TwoStagesFind
<1>15. ASSUME kept # <<>> /\ ~Direct(q) /\ ~TwoStage(toks, kept)
       PROVE  Finds(r, T, A, n, some)
  <2>1. Len(kept) = Len(toks)
    <3>1. Len(kept) \in Nat /\ Len(toks) \in Nat
      BY <1>7
    <3>. QED
      BY <1>7, <1>15, <3>1 DEF TwoStage
  <2>2. Range(kept) = T
    BY <1>7, <2>1
  <2>3. r = FtsRank(kept, Matching(T) \cap A, n)
    BY <1>1, <1>3, <1>4, <1>6, <1>11, <1>15, <2>2 DEF TextIds
  <2>. QED
    BY <1>7, <1>9, <2>2, <2>3, OneStageFinds
<1>16. Finds(r, T, A, n, some)
  BY <1>12, <1>13, <1>14, <1>15
<1>. QED
  BY <1>1, <1>2, <1>3, <1>4, <1>5, <1>11, <1>16

-----------------------------------------------------------------------------
\* MatchesAreFound, of a ranking and the frequencies it was made with.
FoundFor(r, q, df) ==
  LET toks == Range(Tokens(q.text))
      ids == Range(Ids(r))
      allowed == Filtered(q.scope, q.filt)
      fresh == \A t \in toks : df[t] = Df(t)
  IN  /\ ids \subseteq {a.id : a \in allowed \cap Matching(toks)}
      /\ toks # {} /\ Len(r) < Depth(q) => {a.id : a \in MatchingAll(toks) \cap allowed} \subseteq ids
      /\ fresh /\ allowed = rows /\ Matching(toks) # {} => ids # {}

\* What MatchesAreFound says of that.
LEMMA FindsFound ==
  ASSUME NEW r, NEW q, NEW df,
         Finds(r, Range(Tokens(q.text)), Filtered(q.scope, q.filt), Depth(q),
               SomeFresh(Range(Tokens(q.text)), Filtered(q.scope, q.filt), df))
  PROVE  FoundFor(r, q, df)
<1>1. PICK T : T = Range(Tokens(q.text))
  OBVIOUS
<1>2. PICK A : A = Filtered(q.scope, q.filt)
  OBVIOUS
<1>3. PICK n : n = Depth(q)
  OBVIOUS
<1>4. PICK some : some = SomeFresh(T, A, df)
  OBVIOUS
<1>5. Finds(r, T, A, n, some)
  BY <1>1, <1>2, <1>3, <1>4
<1>6. PICK ids : ids = Range(Ids(r))
  OBVIOUS
<1>7. \A i : i \in ids <=> \E x \in Range(r) : x.id = i
  BY <1>5, <1>6, IdsRange DEF Finds
<1>8. ids \subseteq {a.id : a \in A \cap Matching(T)}
  BY <1>5, <1>7 DEF Finds
<1>9. T # {} /\ Len(r) < n => {a.id : a \in MatchingAll(T) \cap A} \subseteq ids
  <2>1. ASSUME T # {}, Len(r) < n, NEW i \in {a.id : a \in MatchingAll(T) \cap A}
        PROVE  i \in ids
    <3>1. PICK a \in A \cap MatchingAll(T) : i = a.id
      OBVIOUS
    <3>2. PICK x \in Range(r) : x.id = a.id
      BY <1>5, <2>1 DEF Finds
    <3>. QED
      BY <1>7, <3>1, <3>2
  <2>. QED
    BY <2>1
<1>10. (\A t \in T : df[t] = Df(t)) /\ A = rows /\ Matching(T) # {} => ids # {}
  <2>1. some => Range(r) # {}
    BY <1>5 DEF Finds
  <2>2. Range(r) # {} => ids # {}
    BY <1>7
  <2>. QED
    BY <1>4, <2>1, <2>2 DEF SomeFresh
<1>. QED
  BY <1>1, <1>2, <1>3, <1>6, <1>8, <1>9, <1>10, Zenon DEF FoundFor

\* It depends on the records only.
LEMMA SameFound ==
  ASSUME rows' = rows, NEW r, NEW q, NEW df, FoundFor(r, q, df)
  PROVE  FoundFor(r, q, df)'
<1>1. Filtered(q.scope, q.filt)' = Filtered(q.scope, q.filt)
  BY SameFilter
<1>2. ASSUME NEW T
      PROVE  Matching(T)' = Matching(T) /\ MatchingAll(T)' = MatchingAll(T) /\ Df(T)' = Df(T)
  BY DEF Matching, MatchingAll, Df
<1>. QED
  BY <1>1, <1>2, Zenon DEF FoundFor

\* MatchesAreFound, by that.
LEMMA FoundIs ==
  MatchesAreFound <=>
    (question # Unasked /\ legs.text.done =>
       IF legs.text.raised THEN PunctuationPosted ELSE FoundFor(legs.text.ranking, question, dfs))
BY Zenon DEF MatchesAreFound, FoundFor

\* A step that leaves what the text leg was made of.
LEMMA SameMatches ==
  ASSUME jobs' = jobs, rows' = rows, question' = question, dfs' = dfs, legs'.text = legs.text,
         MatchesAreFound
  PROVE  MatchesAreFound'
<1> SUFFICES ASSUME question # Unasked, legs.text.done
             PROVE  IF legs.text.raised THEN PunctuationPosted'
                    ELSE FoundFor(legs.text.ranking, question, dfs)'
  BY Zenon DEF MatchesAreFound, FoundFor
<1>1. CASE legs.text.raised
  <2>1. PunctuationPosted' = PunctuationPosted
    BY DEF PunctuationPosted, DoneRows
  <2>. QED
    BY <1>1, <2>1, FoundIs
<1>2. CASE ~legs.text.raised
  <2>1. PICK r, q, df : r = legs.text.ranking /\ q = question /\ df = dfs
    OBVIOUS
  <2>2. FoundFor(r, q, df)
    BY <1>2, <2>1, FoundIs
  <2>3. FoundFor(r, q, df)'
    BY <2>2, SameFound
  <2>4. r = legs'.text.ranking /\ q = question' /\ df = dfs'
    BY <2>1
  <2>. QED
    BY <1>2, <2>3, <2>4, Zenon DEF FoundFor
<1>. QED
  BY <1>1, <1>2

-----------------------------------------------------------------------------
\* The text leg finds what there is to find, or raises for a mean length of 0.
LEMMA TextLegFinds ==
  ASSUME FInv, TextLeg
  PROVE  MatchesAreFound'
<1>1. PICK q \in Questions : q = question
  <2>1. question # Unasked
    BY DEF TextLeg, Needs, Unasked
  <2>. QED
    BY <2>1 DEF FInv, SInv
<1>2. PICK df : df = DfsFor(Tokens(q.text))
  OBVIOUS
<1>3. PICK mean : mean = avgdl'
  OBVIOUS
<1>4. PICK r : r = TextIds(q, df, mean)
  OBVIOUS
<1>5. PICK leg : leg = IF Rescores(q, df) /\ mean = 0 THEN Raised ELSE Leg(r)
  OBVIOUS
<1>6. /\ dfs' = df /\ rows' = rows /\ question' = question /\ jobs' = jobs
      /\ legs' = [legs EXCEPT !.text = leg]
      /\ Rescores(q, df) => mean \in MeansFor(Tokens(q.text))
  BY <1>1, <1>2, <1>3, <1>4, <1>5, Zenon DEF TextLeg
<1>7. legs'.text = leg
  BY <1>6 DEF FInv, LegsKept
<1>8. q.text \in Texts /\ Depth(q) \in Nat \ {0} /\ Depth(q) <= AndCand
  <2>1. Needs(q, "text")
    BY <1>1 DEF TextLeg
  <2>. QED
    BY <2>1, QuestionHas
<1>9. \A t \in Range(Tokens(q.text)) : df[t] \in Nat
  BY <1>2, DfsForIs DEF FInv, SInv
<1>10. Rescores(q, df) => mean \in Nat /\ (mean = 0 => PunctuationPosted)
  BY <1>6, MeansAre DEF FInv, SInv
<1>11. CASE Rescores(q, df) /\ mean = 0
  <2>1. leg = Raised
    BY <1>5, <1>11
  <2>2. legs'.text.raised
    BY <1>7, <2>1 DEF Raised
  <2>3. PunctuationPosted' = PunctuationPosted
    BY <1>6 DEF PunctuationPosted, DoneRows
  <2>4. PunctuationPosted'
    BY <1>10, <1>11, <2>3
  <2>. QED
    BY <2>2, <2>4, Zenon DEF MatchesAreFound
<1>12. CASE ~(Rescores(q, df) /\ mean = 0)
  <2>1. leg = Leg(r)
    BY <1>5, <1>12
  <2>2. legs'.text.ranking = r /\ ~legs'.text.raised
    BY <1>7, <2>1 DEF Leg
  <2>3. Rescores(q, df) => mean \in Nat \ {0}
    BY <1>10, <1>12
  <2>4. FoundFor(r, q, df)
    BY <1>4, <1>8, <1>9, <2>3, TextIdsFind, FindsFound DEF FInv, SInv
  <2>5. FoundFor(r, q, df)'
    BY <1>6, <2>4, SameFound
  <2>6. r = legs'.text.ranking /\ q = question' /\ df = dfs'
    BY <1>1, <1>6, <2>2
  <2>7. FoundFor(legs.text.ranking, question, dfs)'
    BY <2>5, <2>6, Zenon DEF FoundFor
  <2>. QED
    BY <2>2, <2>7, Zenon DEF MatchesAreFound, FoundFor
<1>. QED
  BY <1>11, <1>12

\* The inductive invariant of all this module's properties.
MInv == FInv /\ MatchesAreFound

\* At first no leg is done.
LEMMA InitMInv == Init => MInv
<1>1. Init => question = Unasked
  BY DEF Init
<1>. QED
  BY <1>1, InitFInv DEF MInv, MatchesAreFound

\* Every step keeps the invariant.
LEMMA NextMInv == MInv /\ [Next]_vars => MInv'
<1> SUFFICES ASSUME MInv, [Next]_vars PROVE MatchesAreFound'
  BY NextFInv DEF MInv
<1> USE DEF MInv
<1>1. ASSUME question' = Unasked
      PROVE  MatchesAreFound'
  BY <1>1 DEF MatchesAreFound
<1>2. ASSUME jobs' = jobs, rows' = rows, question' = question, dfs' = dfs, legs' = legs
      PROVE  MatchesAreFound'
  BY <1>2, SameMatches
<1>3. Idle => question = Unasked /\ legs = NoLegs
  BY DEF Idle, FInv, LegsKept
<1>4. ASSUME NEW docs \in Payloads, Post(docs) PROVE MatchesAreFound'
  BY <1>1, <1>3, <1>4 DEF Post
<1>5. CASE Tear
  BY <1>1, <1>3, <1>5 DEF Tear
<1>6. CASE Work
  BY <1>1, <1>3, <1>6 DEF Work
<1>7. ASSUME NEW q \in Questions, Ask(q) PROVE MatchesAreFound'
  <2>1. legs' = NoLegs
    BY <1>3, <1>7 DEF Ask
  <2>2. ~legs'.text.done
    BY <2>1 DEF NoLegs, Pending
  <2>. QED
    BY <2>2 DEF MatchesAreFound
<1>8. CASE VectorLeg
  <2>1. jobs' = jobs /\ rows' = rows /\ question' = question /\ dfs' = dfs
    BY <1>8 DEF VectorLeg
  <2>2. PICK leg : legs' = [legs EXCEPT !.vec = leg]
    BY <1>8 DEF VectorLeg
  <2>3. legs'.text = legs.text
    BY <2>2 DEF FInv, LegsKept
  <2>. QED
    BY <2>1, <2>3, SameMatches
<1>9. CASE TextLeg
  BY <1>9, TextLegFinds
<1>10. CASE Answer
  BY <1>1, <1>10 DEF Answer
<1>11. CASE Sent
  BY <1>2, <1>11 DEF Sent
<1>12. CASE UNCHANGED vars
  BY <1>2, <1>12 DEF vars
<1>. QED
  BY <1>4, <1>5, <1>6, <1>7, <1>8, <1>9, <1>10, <1>11, <1>12 DEF Next

\* Text search finds what there is to find, for all its pruning: every hit is allowed and has a
\* token of the query, a row with every token is left out only for others, and a query of which
\* anything is in a record finds something; it raises only after punctuation alone was posted
\* (_text_ids, _prune_common, _avgdl, _bm25_rescore).
THEOREM MatchesAlwaysFound == Spec => []MatchesAreFound
<1>1. MInv => MatchesAreFound
  BY DEF MInv
<1>. QED
  BY <1>1, InitMInv, NextMInv, PTL DEF Spec
=============================================================================
