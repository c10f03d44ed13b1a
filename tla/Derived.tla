------------------------------- MODULE Derived -------------------------------
(***************************************************************************)
(* What is derived from memory outside the transaction that wrote it: the  *)
(* embedding index (backfill, store/embeddings.ts), the answer to a hybrid *)
(* query (forQueryHybrid) and the judgement of conflicting pairs           *)
(* (selectBatch and runOnce of a conflict_resolution run, dismissConflict, *)
(* conflicts, daemon/manager.ts).  Each reads items, awaits a provider,    *)
(* and uses what it read; people and workers write memory meanwhile.       *)
(*                                                                         *)
(* Everything a process does between two awaits is one step.  Retrieval    *)
(* has the functions.                                                      *)
(***************************************************************************)
EXTENDS Retrieval

CONSTANTS
  Searcher,      \* sessions that query memory
  Embedder,      \* processes that run `contextd embed`
  Judge,         \* processes that run `contextd reconcile`
  BatchSize,     \* embeddings.batch_size
  ListedPairs,   \* pairs `conflicts` lists (20)
  JudgedPairs,   \* pairs one run asks about (8)
  Budgets,       \* budgets a slice is asked for under, None when there is none
  MaxEdits,      \* bounds the writes to memory
  Settings       \* [start, edits, queries, indexes, judges] of a behaviour

ASSUME DerivedAssumption ==
  /\ BatchSize \in Nat \ {0} /\ ListedPairs \in Nat \ {0} /\ JudgedPairs \in Nat \ {0}
  /\ Settings \subseteq
       [start : [Id -> Item], edits : SUBSET {"rewrite", "retire", "close", "age", "clear"},
        queries : SUBSET Query, indexes : BOOLEAN, judges : BOOLEAN]

VARIABLES
  items,      \* [Id -> Item], memory_items
  edits,      \* writes so far
  vectors,    \* memory_embeddings: the text a vector was made from, and the one its hash is of
  reviews,    \* conflict_reviews: pair -> fingerprint
  judged,     \* every pair somebody judged compatible, as it was shown to them
  searching,  \* what each querying session holds across its awaits
  embedding,  \* the items each `embed` has asked vectors for, as they were read
  judging,    \* the pairs each run has asked about, as they were read
  setting     \* never changes

vars == <<items, edits, vectors, reviews, judged, searching, embedding, judging, setting>>
derived == <<vectors, reviews, judged>>
actors == <<searching, embedding, judging>>

NoVector == [made |-> None, hash |-> None]
Idle == [phase |-> "idle", query |-> None, batch |-> <<>>, keyword |-> <<>>, live |-> {}]
Nothing == <<>>

\* What is live, and what it says.
LiveTexts(m) == {<<i, m[i].text>> : i \in {j \in Id : isLive(m[j])}}

TypeOK ==
  /\ items \in [Id -> Item] /\ edits \in 0..MaxEdits
  /\ \A i \in Id : \/ vectors[i] = NoVector
                   \/ vectors[i].made \in Text /\ vectors[i].hash \in Text
  /\ \A pair \in DOMAIN reviews : Cardinality(pair) = 2 /\ DOMAIN reviews[pair] = pair
  /\ \A s \in Searcher :
       /\ searching[s].phase \in {"idle", "filling", "ranking"}
       /\ searching[s].phase = "filling" <=> searching[s].batch # <<>>
       /\ Len(searching[s].batch) <= BatchSize
  /\ \A e \in Embedder : Len(embedding[e]) <= BatchSize
  /\ \A w \in Judge : Cardinality(DOMAIN judging[w]) <= JudgedPairs
  /\ setting \in Settings

Init ==
  /\ setting \in Settings
  /\ items = setting.start /\ edits = 0
  /\ vectors = [i \in Id |-> NoVector] /\ reviews = <<>> /\ judged = {}
  /\ searching = [s \in Searcher |-> Idle]
  /\ embedding = [e \in Embedder |-> <<>>]
  /\ judging = [w \in Judge |-> Nothing]

-----------------------------------------------------------------------------
(* Memory changes.                                                         *)

\* A session that is searching has seen what was live while it did.
Witness(next) ==
  [s \in Searcher |->
     IF searching[s].phase = "idle" THEN searching[s]
     ELSE [searching[s] EXCEPT !.live = @ \cup LiveTexts(next)]]
Becomes(next) ==
  /\ edits < MaxEdits /\ edits' = edits + 1
  /\ items' = next /\ searching' = Witness(next)
Updated(i, item) == [items EXCEPT ![i] = [item EXCEPT !.at = edits + 1]]

Rewrites(i, text) ==
  /\ "rewrite" \in setting.edits
  /\ items[i].status = "active" /\ text # items[i].text
  /\ Becomes(Updated(i, [items[i] EXCEPT !.text = text]))
  /\ UNCHANGED <<derived, embedding, judging, setting>>
RetiresItem(i) ==
  /\ "retire" \in setting.edits
  /\ items[i].status = "active"
  /\ ~(Fixed[i].stated /\ Fixed[i].importance = "critical")
  /\ Becomes(Updated(i, [items[i] EXCEPT !.status = "retired"]))
  /\ UNCHANGED <<derived, embedding, judging, setting>>
Closes(i) ==
  /\ "close" \in setting.edits
  /\ items[i].status = "active" /\ ~items[i].closed
  /\ Becomes(Updated(i, [items[i] EXCEPT !.closed = TRUE]))
  /\ UNCHANGED <<derived, embedding, judging, setting>>
\* Its time to live ends: nothing is written.
Ages(i) ==
  /\ "age" \in setting.edits
  /\ items[i].status = "active" /\ ~items[i].expired
  /\ Becomes([items EXCEPT ![i].expired = TRUE])
  /\ UNCHANGED <<derived, embedding, judging, setting>>

-----------------------------------------------------------------------------
(* The embedding index.                                                    *)

\* Active items whose text is not the one their vector's hash is of, as many as a batch takes.
stale ==
  LET rows == {i \in Id : items[i].status = "active" /\ vectors[i].hash # items[i].text}
  IN Firsts(InOrder(rows, Ascending(rows)), BatchSize)
Batch == Each(stale, LAMBDA i : [id |-> i, text |-> items[i].text])

\* mutant: the hash is of what the item says by now
HashesAnew(batch, count) ==
  [i \in Id |->
     IF \E n \in 1..count : batch[n].id = i
     THEN [made |-> batch[CHOOSE n \in 1..count : batch[n].id = i].text, hash |-> items[i].text]
     ELSE vectors[i]]
\* The provider may answer for the first `count` of a batch only.
Stored(batch, count) ==
  [i \in Id |->
     IF \E n \in 1..count : batch[n].id = i
     THEN LET n == CHOOSE k \in 1..count : batch[k].id = i
          IN [made |-> batch[n].text, hash |-> batch[n].text]
     ELSE vectors[i]]

Embeds(e) ==
  /\ setting.indexes /\ embedding[e] = <<>> /\ Batch # <<>>
  /\ embedding' = [embedding EXCEPT ![e] = Batch]
  /\ UNCHANGED <<items, edits, derived, searching, judging, setting>>
Stores(e) ==
  /\ embedding[e] # <<>>
  /\ \E count \in DOMAIN embedding[e] : vectors' = Stored(embedding[e], count)
  /\ embedding' = [embedding EXCEPT ![e] = <<>>]
  /\ UNCHANGED <<items, edits, reviews, judged, searching, judging, setting>>
FailsToEmbed(e) ==
  /\ embedding[e] # <<>>
  /\ embedding' = [embedding EXCEPT ![e] = <<>>]
  /\ UNCHANGED <<items, edits, derived, searching, judging, setting>>

-----------------------------------------------------------------------------
(* A hybrid query: memory_query.                                           *)

Keyword(q) == search(items, q, 2 * SearchLimit)

Asks(s, q) ==
  /\ searching[s].phase = "idle" /\ q \in setting.queries
  /\ searching' = [searching EXCEPT ![s] =
       [phase |-> IF Batch = <<>> THEN "ranking" ELSE "filling", query |-> q, batch |-> Batch,
        keyword |-> IF Batch = <<>> THEN Keyword(q) ELSE <<>>, live |-> LiveTexts(items)]]
  /\ UNCHANGED <<items, edits, derived, embedding, judging, setting>>
\* The index is brought up to date first; then words are matched, and the query is embedded.
Fills(s) ==
  /\ searching[s].phase = "filling"
  /\ \E count \in DOMAIN searching[s].batch : vectors' = Stored(searching[s].batch, count)
  /\ searching' = [searching EXCEPT
       ![s].phase = "ranking", ![s].batch = <<>>, ![s].keyword = Keyword(searching[s].query)]
  /\ UNCHANGED <<items, edits, reviews, judged, embedding, judging, setting>>
Answers(s) ==
  /\ searching[s].phase # "idle"
  /\ searching' = [searching EXCEPT ![s] = Idle]
  /\ UNCHANGED <<items, edits, derived, embedding, judging, setting>>

\* What a session would be given if its query ended now: with the provider's answer or,
\* the provider being down, without.
Found(s) ==
  LET q == searching[s].query
  IN IF searching[s].phase = "filling" THEN {forQuery(items, q)}
     ELSE {searchHybrid(items, searching[s].keyword, semantic, q) :
             semantic \in {<<>>, rank(items, vectors, q, 2 * SearchLimit)}}

-----------------------------------------------------------------------------
(* Conflicts.                                                              *)

\* mutant: what is left is not cut to the cap
AllOpenPairs(m, reviewed, max) ==
  withoutReviewed(m, detectConflicts(m, max + Cardinality(DOMAIN reviewed)), reviewed)
\* Detects as many more pairs as were reviewed, so that a quiet one does not hide a live one.
OpenPairs(m, reviewed, max) ==
  Firsts(withoutReviewed(m, detectConflicts(m, max + Cardinality(DOMAIN reviewed)), reviewed), max)

AsRead(pairs) == [p \in ToSet(pairs) |-> pairFingerprint(items, p)]

StartsJudging(w) ==
  /\ setting.judges /\ judging[w] = Nothing
  /\ OpenPairs(items, reviews, JudgedPairs) # <<>>
  /\ judging' = [judging EXCEPT ![w] = AsRead(OpenPairs(items, reviews, JudgedPairs))]
  /\ UNCHANGED <<items, edits, derived, searching, embedding, setting>>

\* ON CONFLICT DO UPDATE: a pair reviewed again has the new review.
Over(new, old) ==
  [p \in DOMAIN new \cup DOMAIN old |-> IF p \in DOMAIN new THEN new[p] ELSE old[p]]
\* mutant: marked with what the pairs say when the patch is committed
MarksAsTheyAre(asked, next) == Over([p \in DOMAIN asked |-> pairFingerprint(next, p)], reviews)
\* A pair is marked with the fingerprint the model was shown.
markConflictsReviewed(asked, next) == Over(asked, reviews)

\* The model's patch: nothing, or one of the items reworded or superseded.
Resolutions(asked) ==
  {items}
    \cup {Updated(i, [items[i] EXCEPT !.text = t]) :
            i \in {j \in UNION DOMAIN asked : items[j].status = "active"}, t \in Text}
    \cup {Updated(i, [items[i] EXCEPT !.status = "retired"]) :
            i \in {j \in UNION DOMAIN asked :
                     /\ items[j].status = "active"
                     /\ ~(Fixed[j].stated /\ Fixed[j].importance = "critical")}}
Judges(w) ==
  /\ judging[w] # Nothing
  /\ \E next \in Resolutions(judging[w]) :
       /\ IF next = items THEN UNCHANGED <<items, edits, searching>> ELSE Becomes(next)
       /\ reviews' = markConflictsReviewed(judging[w], next)
  /\ judged' = judged \cup {<<p, judging[w][p]>> : p \in DOMAIN judging[w]}
  /\ judging' = [judging EXCEPT ![w] = Nothing]
  /\ UNCHANGED <<vectors, embedding, setting>>
\* Deferred, unusable twice, or the provider down: nothing is marked.
FailsToJudge(w) ==
  /\ judging[w] # Nothing
  /\ judging' = [judging EXCEPT ![w] = Nothing]
  /\ UNCHANGED <<items, edits, derived, searching, embedding, setting>>

dismissConflict(p) ==
  /\ setting.judges /\ p \in Conflicting(items)
  /\ reviews' = Over([r \in {p} |-> pairFingerprint(items, p)], reviews)
  /\ judged' = judged \cup {<<p, pairFingerprint(items, p)>>}
  /\ UNCHANGED <<items, edits, vectors, actors, setting>>
clearConflictReviews ==
  /\ "clear" \in setting.edits /\ reviews # <<>>
  /\ reviews' = <<>>
  /\ UNCHANGED <<items, edits, vectors, judged, actors, setting>>

Next ==
  \/ \E i \in Id : (\E t \in Text : Rewrites(i, t)) \/ RetiresItem(i) \/ Closes(i) \/ Ages(i)
  \/ \E e \in Embedder : Embeds(e) \/ Stores(e) \/ FailsToEmbed(e)
  \/ \E s \in Searcher : (\E q \in setting.queries : Asks(s, q)) \/ Fills(s) \/ Answers(s)
  \/ \E w \in Judge : StartsJudging(w) \/ Judges(w) \/ FailsToJudge(w)
  \/ \E p \in SUBSET Id : dismissConflict(p)
  \/ clearConflictReviews

\* `contextd embed` is run again and again, and its provider is not down for ever.
Fairness == \A e \in Embedder : WF_vars(Embeds(e)) /\ SF_vars(Stores(e))
Spec == Init /\ [][Next]_vars /\ Fairness

-----------------------------------------------------------------------------
(* Properties.                                                             *)

\* A pair that seems to conflict is kept quiet only if somebody judged it as it reads now:
\* otherwise it is listed, or the list is full of others.
QuietMeansJudged ==
  LET open == OpenPairs(items, reviews, ListedPairs)
  IN \A pair \in Conflicting(items) :
       \/ pair \in ToSet(open) \/ Len(open) = ListedPairs
       \/ <<pair, pairFingerprint(items, pair)>> \in judged

\* Whatever a query finds was live, and said that, at some moment since the query began:
\* neither the graph nor the index brings back what memory no longer holds.
FindsWhatWasLive ==
  \A s \in Searcher : searching[s].phase # "idle" =>
    \A hits \in Found(s) : \A n \in DOMAIN hits :
      <<hits[n].id, hits[n].text>> \in searching[s].live

\* What the slice of a section is due: every live item of its categories that has earned a
\* place, however many there are.
Due(s) == {i \in LiveIn(items) : Fixed[i].category \in ToSet(s.categories) /\ alwaysOnEligible(items, i)}
\* As many active items of its category as byCategory reads, expired ones among them, come
\* before it.
PastTheLimit(i) ==
  Cardinality({j \in Id : /\ items[j].status = "active" /\ Fixed[j].category = Fixed[i].category
                          /\ Listed(items, j, i)}) >= ListLimit

\* On screen, or of a category that the marker of its section names.
Told(i, section) ==
  \/ i \in ToSet(section.shown)
  \/ \E j \in ToSet(section.dropped) : Fixed[j].category = Fixed[i].category

\* Nothing is left out in silence, with one exception: an item due in the always-on slice is
\* on screen, or its section's marker names its category, or it is past the rows byCategory
\* reads of that category, which no marker tells of; a hit is whole on screen, or in the
\* answer, or counted by its marker.  (A section with no line is dropped with its marker.)
NothingHiddenInSilence ==
  /\ \A budget \in Budgets :
       LET sections == bootstrap(items, budget)
       IN \A n \in Kept(sections) : \A i \in Due(Section[n]) :
            Told(i, sections[n]) \/ PastTheLimit(i)
  /\ \A q \in setting.queries :
       LET sections == bootstrap(items, None)
           found == forQuery(items, q)
           answer == serveQuery(items, found)
       IN answer.shown # <<>> =>
            \A i \in Ids(found) :
              \/ i \in ToSet(answer.shown) \cup ToSet(answer.dropped)
              \/ \E n \in Kept(sections) : i \in ToSet(sections[n].shown) \ sections[n].clipped

\* The same of the slice without the exception: what was stated and what is critical "is in
\* unconditionally".
AllDueIsTold ==
  \A budget \in Budgets :
    LET sections == bootstrap(items, budget)
    IN \A n \in Kept(sections) : \A i \in Due(Section[n]) : Told(i, sections[n])

\* Every active item is found by what it says, in the end: its vector is made from its text,
\* whatever was written while older texts were being embedded.
IndexCatchesUp ==
  \A i \in Id : []<>(setting.indexes /\ items[i].status = "active" => vectors[i].made = items[i].text)

=============================================================================
