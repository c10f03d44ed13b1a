------------------------------ MODULE Retrieval ------------------------------
(***************************************************************************)
(* What of memory an agent is shown, and which pairs of it are held to     *)
(* contradict each other: keyword and hybrid search (store/retrieval.ts),  *)
(* the always-on slice and a query's answer packed into their allowances   *)
(* (retrieval/context-builder.ts), the ranking of the embedding index      *)
(* (store/embeddings.ts) and the detection of conflicts                    *)
(* (core/conflicts.ts).  Functions of the memory: Derived has the states.  *)
(*                                                                         *)
(* An item has a fixed part (Fixed: category, importance, who said it) and *)
(* one that changes.  What a text is, to a search or a comparison, is      *)
(* given by tables of naturals; tokens are naturals; weights are per cent. *)
(***************************************************************************)
EXTENDS Integers, Sequences, FiniteSets, SequencesExt, FiniteSetsExt

CONSTANTS
  Id, Text, None,
  Fixed,         \* [Id -> [category, importance, stated, sure, rule]]
  Query,         \* queries: [words, exact, categories]; no words make a listing
  Relevance,     \* [Query -> [Text -> Nat]]: how well the words match, 0 not at all
  Likeness,      \* [Query -> [Text -> Nat]]: cosine of the query's vector and a text's
  Signal,        \* [Text -> [Text -> 0..3]]: how strongly two statements seem to conflict
  Edge,          \* graph edges, from and to
  Lineage,       \* pairs {i, j} one of which superseded the other
  Section,       \* the always-on sections: [categories, allowance], in order
  Size,          \* [Text -> Nat]: tokens of an item's whole line
  ClipTo,        \* tokens of the line of an item cut to BOOTSTRAP_ITEM_CHARS
  TaskTokens,    \* the section of the current task
  TITLE,         \* tokens of a section's title
  MARKER_RESERVE,
  ReserveForRetrieval,
  MAX_BOOTSTRAP_RECOVERY_RULES,
  ListLimit,     \* rows byCategory reads (50)
  SearchLimit,   \* hits of a query (12)
  RowsPerHit,    \* rows read for each hit (6)
  HopWeight,     \* what is left of a score after a hop
  SemanticWeight, MinSimilarity

Importances == {"critical", "high", "medium", "low"}
Weight(importance) ==
  CASE importance = "critical" -> 22 [] importance = "high" -> 16
    [] importance = "medium" -> 10 [] importance = "low" -> 6

Item ==
  [text : Text, status : {"active", "retired"}, closed : BOOLEAN, expired : BOOLEAN, at : Nat]

ASSUME RetrievalAssumption ==
  /\ Id \subseteq Nat /\ IsFiniteSet(Id) /\ None \notin Text
  /\ \A i \in Id : Fixed[i].importance \in Importances
  /\ Relevance \in [Query -> [Text -> Nat]] /\ Likeness \in [Query -> [Text -> Nat]]
  /\ Signal \in [Text -> [Text -> Nat]] /\ \A t, u \in Text : Signal[t][u] = Signal[u][t]
  /\ Size \in [Text -> Nat] /\ ClipTo \in Nat /\ TITLE \in Nat
  /\ Section \in Seq([categories : Seq(STRING), allowance : Nat])
  /\ MAX_BOOTSTRAP_RECOVERY_RULES \in Nat
  /\ ListLimit \in Nat \ {0} /\ SearchLimit \in Nat \ {0} /\ RowsPerHit \in Nat \ {0}
  /\ HopWeight \in 1..100 /\ SemanticWeight \in 0..100

isLive(item) == item.status = "active" /\ ~item.expired

Firsts(seq, n) == SubSeq(seq, 1, IF n < Len(seq) THEN n ELSE Len(seq))
\* A sequence, member by member.
Each(seq, Op(_)) == [n \in DOMAIN seq |-> Op(seq[n])] \o <<>>

\* The members of S, those before others first; `before` is a set of pairs.
InOrder(S, before) ==
  [n \in 1..Cardinality(S) |->
     CHOOSE x \in S : Cardinality({y \in S \ {x} : <<y, x>> \in before}) = n - 1] \o <<>>
Ascending(S) == {r \in S \X S : r[1] < r[2]}
\* What a sequence has at some of its positions, taken in an order; its members that are in S.
Taken(seq, positions, before) ==
  LET order == InOrder(positions, before) IN [n \in 1..Cardinality(positions) |-> seq[order[n]]] \o <<>>
Those(seq, S) ==
  LET positions == {n \in DOMAIN seq : seq[n] \in S} IN Taken(seq, positions, Ascending(positions))

MoreImportant(i, j) == Weight(Fixed[i].importance) > Weight(Fixed[j].importance)
\* The later written first; rows written at once come in the table's order.
Later(items, i, j) ==
  \/ items[i].at > items[j].at
  \/ (items[i].at = items[j].at /\ i < j)
\* ORDER BY importance, updated_at DESC.
Listed(items, i, j) ==
  \/ MoreImportant(i, j)
  \/ /\ Fixed[i].importance = Fixed[j].importance
     /\ Later(items, i, j)
ByImportance(items) == {r \in Id \X Id : Listed(items, r[1], r[2])}
ByDate(items) == {r \in Id \X Id : Later(items, r[1], r[2])}
LiveIn(items) == {i \in Id : isLive(items[i])}

-----------------------------------------------------------------------------
(* Search.  A hit is an item as it was read, with its score.               *)

Hit(items, i, score) == [id |-> i, text |-> items[i].text, score |-> score]
Ids(hits) == {hits[n].id : n \in DOMAIN hits}

\* Highest score first, a stable sort.
Higher(hits) ==
  {r \in (DOMAIN hits) \X (DOMAIN hits) :
     \/ hits[r[1]].score > hits[r[2]].score
     \/ (hits[r[1]].score = hits[r[2]].score /\ r[1] < r[2])}
ByScore(hits) == Taken(hits, DOMAIN hits, Higher(hits))

Asked(q, i) == q.categories = {} \/ Fixed[i].category \in q.categories
Matches(items, q) ==
  {i \in Id : Asked(q, i) /\ (q.words => Relevance[q][items[i].text] > 0)}

\* ORDER BY bm25.
ByRelevance(items, q) ==
  LET worth(i) == Relevance[q][items[i].text]
  IN {r \in Id \X Id : worth(r[1]) > worth(r[2]) \/ (worth(r[1]) = worth(r[2]) /\ r[1] < r[2])}
\* The rows a search reads, best match first, dead ones among them.
Rows(items, q, limit) ==
  Firsts(InOrder(Matches(items, q), IF q.words THEN ByRelevance(items, q) ELSE ByImportance(items)),
         limit * RowsPerHit)

\* Recency and confidence, which scale a score, are left out of it.
Score(items, q, i) ==
  (IF q.words THEN Relevance[q][items[i].text] ELSE 1) * Weight(Fixed[i].importance)

search(items, q, limit) ==
  LET live == Those(Rows(items, q, limit), LiveIn(items))
  IN Firsts(ByScore(Each(live, LAMBDA i : Hit(items, i, Score(items, q, i)))), limit)

Others(i) == {j \in Id : <<i, j>> \in Edge \/ <<j, i>> \in Edge}

\* One hop out from the five best hits, at a part of their score.
expand(items, hits, limit) ==
  LET seeds == Firsts(hits, 5)
      around == (UNION {Others(i) : i \in Ids(seeds)} \ Ids(hits)) \cap LiveIn(items)
      base(j) == Max({seeds[n].score : n \in {k \in DOMAIN seeds : j \in Others(seeds[k].id)}})
      order == InOrder(around, Ascending(around))
      extra == Each(order, LAMBDA j : Hit(items, j, (base(j) * HopWeight) \div 100))
  IN Firsts(ByScore(hits \o extra), limit)

\* Raised for a query that names something exactly, never lowered.
adaptiveKeywordWeight(q, base) ==
  IF base = 0 THEN base
  ELSE CASE q.exact = "strong" -> Max({base, 80})
         [] q.exact = "exact" -> Max({base, 70})
         [] OTHER -> base

\* Vectors whose likeness is at least a standard deviation above the mean of all:
\* with n of them, sum S and sum of squares Q, nx - S >= 0 and (nx - S)^2 >= nQ - S^2.
standOut(scores) ==
  LET n == Cardinality(DOMAIN scores)
      sum == MapThenSumSet(LAMBDA i : scores[i], DOMAIN scores)
      squares == MapThenSumSet(LAMBDA i : scores[i] * scores[i], DOMAIN scores)
  IN {i \in DOMAIN scores :
        LET above == n * scores[i] - sum
        IN /\ scores[i] > 0 /\ scores[i] >= MinSimilarity
           /\ above >= 0 /\ above * above >= n * squares - sum * sum}

\* The stored vectors of active items against the query's: whichever text they were made from.
rank(items, vectors, q, limit) ==
  LET known == {i \in Id : items[i].status = "active" /\ vectors[i].made # None}
      scores == [i \in known |-> Likeness[q][vectors[i].made]]
      likelier == {r \in known \X known : \/ scores[r[1]] > scores[r[2]]
                                            \/ (scores[r[1]] = scores[r[2]] /\ r[1] < r[2])}
  IN Firsts(InOrder(standOut(scores), likelier), limit)

Place(seq, i) == {n \in DOMAIN seq : seq[n] = i}
Share(seq, i, weight) ==
  IF Place(seq, i) = {} THEN 0 ELSE (weight * 1000000) \div (60 + Max(Place(seq, i)))
reciprocalRankFusion(keyword, semantic, weight, i) ==
  Share(keyword, i, weight) + Share(semantic, i, 100 - weight)

\* mutant: what the index ranks is served
TrustsTheIndex(items, keyword, semantic, q) ==
  LET words == Each(keyword, LAMBDA h : h.id)
      weight == adaptiveKeywordWeight(q, 100 - SemanticWeight)
      more == Those(semantic, Id \ Ids(keyword))
      fused(i) == reciprocalRankFusion(words, semantic, weight, i)
  IN ByScore(Each(keyword, LAMBDA h : [h EXCEPT !.score = fused(h.id)])
               \o Each(more, LAMBDA i : Hit(items, i, fused(i))))
\* The keyword hits as they were read before the query was embedded, with what only the
\* index found, which is read now.
Fused(items, keyword, semantic, q) ==
  LET words == Each(keyword, LAMBDA h : h.id)
      weight == adaptiveKeywordWeight(q, 100 - SemanticWeight)
      more == Those(semantic, {i \in LiveIn(items) \ Ids(keyword) : Asked(q, i)})
      fused(i) == reciprocalRankFusion(words, semantic, weight, i)
  IN ByScore(Each(keyword, LAMBDA h : [h EXCEPT !.score = fused(h.id)])
               \o Each(more, LAMBDA i : Hit(items, i, fused(i))))

searchHybrid(items, keyword, semantic, q) ==
  expand(items, Firsts(IF semantic = <<>> THEN keyword ELSE Fused(items, keyword, semantic, q),
                       SearchLimit), SearchLimit)

-----------------------------------------------------------------------------
(* The slice every session is given, and a query's answer.                 *)

\* Closing comes first: it is how what the user said leaves the slice.
alwaysOnEligible(items, i) ==
  /\ ~items[i].closed
  /\ Fixed[i].stated \/ Fixed[i].importance = "critical" \/ Fixed[i].sure

byCategory(items, c) ==
  LET active == {i \in Id : Fixed[i].category = c /\ items[i].status = "active"}
  IN Those(Firsts(InOrder(active, ByImportance(items)), ListLimit), LiveIn(items))

\* Learned rules after what was stated, the latest to hold first, and only so many.
capRecoveryRules(items, ids) ==
  LET rules == {i \in ToSet(ids) : Fixed[i].rule}
      ranked == InOrder(rules, ByDate(items))
      best == Firsts(ranked, MAX_BOOTSTRAP_RECOVERY_RULES)
  IN [served |-> Those(ids, Id \ rules) \o best, held |-> Those(ranked, Id \ ToSet(best))]

\* Only part of a long item is shown where every session pays for it.
needsClip(text, i) == Size[text] > ClipTo /\ Fixed[i].category # "important_files"

\* Fill a section up to its allowance; what does not fit is passed over, not the end of it.
pack(entries, allowance, clips) ==
  LET line(e) == IF clips /\ needsClip(e.text, e.id) THEN ClipTo ELSE Size[e.text]
      add(s, e) ==
        IF s.tokens + line(e) > allowance
        THEN [s EXCEPT !.dropped = Append(@, e.id)]
        ELSE [s EXCEPT !.tokens = @ + line(e),
                       !.shown = Append(@, e.id),
                       !.clipped = IF clips /\ needsClip(e.text, e.id) THEN @ \cup {e.id} ELSE @]
      after[n \in 0..Len(entries)] ==
        IF n = 0 THEN [tokens |-> TITLE, shown |-> <<>>, clipped |-> {}, dropped |-> <<>>]
        ELSE add(after[n - 1], entries[n])
  IN after[Len(entries)]

Configured == MapThenSumSet(LAMBDA n : Section[n].allowance, DOMAIN Section)

\* A section's allowance under an explicit budget: the task is paid first, then the reserve
\* for the markers, and the sections share what is left.
Scaled(allowance, budget) ==
  IF budget = None THEN allowance
  ELSE LET left == budget - TaskTokens - Len(Section) * MARKER_RESERVE
       IN CASE left >= Configured -> allowance
            [] left <= 0 -> 0
            [] OTHER -> (allowance * left) \div Configured

Eligible(items, s) ==
  LET of(c) == Those(byCategory(items, c), {i \in Id : alwaysOnEligible(items, i)})
  IN FlattenSeq(Each(s.categories, of))

SectionOf(items, s, budget) ==
  LET rules == capRecoveryRules(items, Eligible(items, s))
      entries == Each(rules.served, LAMBDA i : Hit(items, i, 0))
  IN [pack(entries, Scaled(s.allowance, budget), TRUE) EXCEPT !.dropped = @ \o rules.held]

bootstrap(items, budget) == Each(Section, LAMBDA s : SectionOf(items, s, budget))

\* A section without a line is left out, and its marker with it.
Kept(sections) == {n \in DOMAIN sections : sections[n].shown # <<>>}
OnScreen(sections) == UNION {ToSet(sections[n].shown) : n \in Kept(sections)}
Clipped(sections) == UNION {sections[n].clipped : n \in DOMAIN sections}

\* mutant: the start of an item is taken for all of it
AllOnScreen(sections) == OnScreen(sections)
\* What a query need not show again: what the slice shows in full.
WholeOnScreen(sections) == OnScreen(sections) \ Clipped(sections)

serveQuery(items, found) ==
  LET whole == WholeOnScreen(bootstrap(items, None))
  IN pack(Those(found, {h \in ToSet(found) : h.id \notin whole}), ReserveForRetrieval, FALSE)

forQuery(items, q) == expand(items, search(items, q, SearchLimit), SearchLimit)

-----------------------------------------------------------------------------
(* Pairs of items that seem to contradict each other.                      *)

CONFLICT_PRONE ==
  {"constraints", "decisions", "architecture", "requirements", "goals", "conventions"}
COMPARABLE ==
  {{"constraints", "decisions"}, {"constraints", "architecture"}, {"constraints", "conventions"},
   {"requirements", "decisions"}, {"requirements", "architecture"}, {"goals", "decisions"},
   {"architecture", "decisions"}}
comparable(c, d) == c = d \/ {c, d} \in COMPARABLE

Candidates(items) ==
  {i \in Id : /\ isLive(items[i]) /\ Fixed[i].category \in CONFLICT_PRONE
              /\ Fixed[i].importance # "low"}

Conflicting(items) ==
  {pair \in SUBSET Candidates(items) :
     /\ Cardinality(pair) = 2 /\ pair \notin Lineage
     /\ \A i, j \in pair : /\ comparable(Fixed[i].category, Fixed[j].category)
                           /\ i # j => Signal[items[i].text][items[j].text] > 0}

Strength(items, pair) == Signal[items[Min(pair)].text][items[Max(pair)].text]

\* Strongest signal first; of one signal, as they were met.
ByStrength(items, pairs) ==
  LET met(p, r) == Min(p) < Min(r) \/ (Min(p) = Min(r) /\ Max(p) < Max(r))
  IN {r \in pairs \X pairs :
        \/ Strength(items, r[1]) > Strength(items, r[2])
        \/ (Strength(items, r[1]) = Strength(items, r[2]) /\ met(r[1], r[2]))}
detectConflicts(items, maxPairs) ==
  Firsts(InOrder(Conflicting(items), ByStrength(items, Conflicting(items))), maxPairs)

\* What a judgement of a pair depends on: category and importance are Fixed's.
pairFingerprint(items, pair) == [i \in pair |-> <<items[i].text, items[i].status>>]

withoutReviewed(items, pairs, reviews) ==
  Those(pairs, {p \in ToSet(pairs) : p \notin DOMAIN reviews \/ reviews[p] # pairFingerprint(items, p)})

=============================================================================
