----------------------------- MODULE DerivedProofs -----------------------------
(***************************************************************************)
(* Theorems of Derived, for every memory, every number of sessions and     *)
(* provider processes and every setting of the limits.  First what a sort, *)
(* a filter and a recursion return; then the answers and the pairs these   *)
(* make; then the inductive invariants of the steps between two awaits.    *)
(***************************************************************************)
EXTENDS Derived, FiniteSetTheorems, TLAPS

-----------------------------------------------------------------------------
(* Naturals.                                                               *)

\* Of finitely many integers one is the least.
LEMMA LeastOfFinite ==
  ASSUME NEW S \in SUBSET Int, S # {}, IsFiniteSet(S)
  PROVE  \E m \in S : \A n \in S : m <= n
<1> DEFINE Without == {A \in SUBSET S : A # {} /\ ~ \E m \in A : \A n \in A : m <= n}
<1>1. CASE Without = {}
  BY <1>1
<1>2. CASE Without # {}
  <2>1. PICK A \in Without : \A B \in Without : ~(<<B, A>> \in StrictSubsetOrdering(S))
    <3>1. Without \subseteq FiniteSubsetsOf(S)
      BY FS_Subset DEF FiniteSubsetsOf
    <3>. QED BY <1>2, <3>1, WFMin, FS_StrictSubsetOrderingWellFounded
  <2>2. PICK a \in A : TRUE
    OBVIOUS
  <2>3. A \ {a} \notin Without
    BY <2>1, <2>2 DEF StrictSubsetOrdering
  <2>4. CASE A \ {a} = {}
    BY <2>2, <2>4
  <2>5. CASE A \ {a} # {}
    <3>1. PICK m \in A \ {a} : \A n \in A \ {a} : m <= n
      BY <2>3, <2>5
    <3>2. a \in Int /\ m \in Int /\ \A n \in A : n \in Int
      BY <2>2
    <3>3. \E i \in A : \A n \in A : i <= n
      BY <2>2, <3>1, <3>2
    <3>. QED BY <3>3
  <2>. QED BY <2>4, <2>5
<1>. QED BY <1>1, <1>2

\* Of a set of naturals that is not empty, one is the least.
LEMMA Least ==
  ASSUME NEW S \in SUBSET Nat, S # {}
  PROVE  \E m \in S : \A n \in S : m <= n
<1>1. PICK s \in S : TRUE
  OBVIOUS
<1> DEFINE Below == {n \in S : n <= s}
<1>2. IsFiniteSet(Below) /\ Below \in SUBSET Int /\ s \in Below
  <2>0. s \in Nat /\ \A n \in S : n \in Nat
    BY <1>1
  <2>1. Below \in SUBSET (0 .. s) /\ Below \in SUBSET Int /\ s \in Below
    <3>1. \A n \in Below : n \in 0 .. s /\ n \in Int
      BY <2>0
    <3>2. s \in Below
      BY <2>0
    <3>. HIDE DEF Below
    <3>. QED BY <3>1, <3>2
  <2>2. IsFiniteSet(0 .. s)
    BY <1>1, FS_Interval
  <2>3. IsFiniteSet(Below)
    <3>. HIDE DEF Below
    <3>. QED BY <2>1, <2>2, FS_Subset
  <2>. QED BY <2>1, <2>3
<1>3. PICK m \in Below : \A n \in Below : m <= n
  BY <1>2, LeastOfFinite
<1>4. \A n \in S : m <= n
  BY <1>1, <1>3
<1>. QED BY <1>3, <1>4

\* Min and Max are members, of finitely many integers.
LEMMA MinIsLeast ==
  ASSUME NEW S \in SUBSET Int, S # {}, IsFiniteSet(S)
  PROVE  Min(S) \in S /\ \A n \in S : Min(S) <= n
BY LeastOfFinite DEF Min
\* The greatest of finitely many integers is one of them.
LEMMA MaxIsGreatest ==
  ASSUME NEW S \in SUBSET Int, S # {}, IsFiniteSet(S)
  PROVE  Max(S) \in S /\ \A n \in S : n <= Max(S)
<1> DEFINE Mirror == {-n : n \in S}
           turned == [n \in S |-> -n]
<1>1. IsFiniteSet(Mirror) /\ Mirror \in SUBSET Int /\ Mirror # {}
  <2>1. turned \in Surjection(S, Mirror)
    BY DEF Surjection
  <2>2. IsFiniteSet(Mirror)
    <3>. HIDE DEF turned, Mirror
    <3>. QED BY <2>1, FS_Surjection
  <2>3. Mirror \in SUBSET Int
    OBVIOUS
  <2>4. PICK n \in S : TRUE
    OBVIOUS
  <2>5. -n \in Mirror
    BY <2>4
  <2>. HIDE DEF Mirror
  <2>. QED BY <2>2, <2>3, <2>5
<1>2. PICK m \in Mirror : \A n \in Mirror : m <= n
  <2>. HIDE DEF Mirror
  <2>. QED BY <1>1, LeastOfFinite
<1>3. -m \in S /\ \A n \in S : -n \in Mirror
  BY <1>2
<1>4. \A n \in S : n <= -m
  BY <1>2, <1>3
<1>5. \A n \in S : -m >= n
  BY <1>3, <1>4
<1>6. Max(S) \in S /\ \A n \in S : Max(S) >= n
  BY <1>3, <1>5 DEF Max
<1>. QED BY <1>6

-----------------------------------------------------------------------------
(* Sorting.                                                                *)

\* `before` ranks the members of S: of any two one comes first, and so on down.
Ranks(before, S) ==
  /\ \A x, y \in S : x # y => (<<x, y>> \in before <=> <<y, x>> \notin before)
  /\ \A x, y, z \in S : x # z /\ <<x, y>> \in before /\ <<y, z>> \in before => <<x, z>> \in before

\* A sequence without a repetition whose members are those of S.
Lists(seq, S) ==
  /\ seq \in [1 .. Cardinality(S) -> S]
  /\ \A m, n \in 1 .. Cardinality(S) : seq[m] = seq[n] => m = n
  /\ \A x \in S : \E n \in 1 .. Cardinality(S) : seq[n] = x

\* Nothing appended changes nothing.
LEMMA AsItIs ==
  ASSUME NEW N \in Nat, NEW S, NEW f \in [1 .. N -> S]
  PROVE  /\ f \o <<>> = f /\ f \in Seq(S) /\ Len(f) = N /\ DOMAIN f = 1 .. N
<1>1. f \in Seq(S) /\ Len(f) = N
  OBVIOUS
<1>2. f \o <<>> \in Seq(S) /\ Len(f \o <<>>) = N /\ \A n \in 1 .. N : (f \o <<>>)[n] = f[n]
  BY <1>1
<1>3. f \o <<>> = [n \in 1 .. N |-> (f \o <<>>)[n]]
  BY <1>2
<1>4. f = [n \in 1 .. N |-> f[n]]
  OBVIOUS
<1>5. f \o <<>> = f
  BY <1>2, <1>3, <1>4
<1>. QED BY <1>1, <1>5

\* A sort returns every member once: the ranks of the members are the positions.
LEMMA InOrderLists ==
  ASSUME NEW S, IsFiniteSet(S), NEW before, Ranks(before, S)
  PROVE  /\ Lists(InOrder(S, before), S)
         /\ \A x \in S :
              LET turn == Cardinality({y \in S \ {x} : <<y, x>> \in before})
              IN turn \in 0 .. (Cardinality(S) - 1) /\ InOrder(S, before)[turn + 1] = x
<1> DEFINE Earlier(x) == {y \in S \ {x} : <<y, x>> \in before}
           N == Cardinality(S)
           place == [x \in S |-> Cardinality(Earlier(x)) + 1]
           seq == [n \in 1 .. N |-> CHOOSE x \in S : Cardinality(Earlier(x)) = n - 1]
<1>1. N \in Nat
  BY FS_CardinalityType
<1>2. \A x \in S : IsFiniteSet(Earlier(x)) /\ Cardinality(Earlier(x)) \in 0 .. (N - 1)
  <2>. TAKE x \in S
  <2>1. IsFiniteSet(S \ {x}) /\ Cardinality(S \ {x}) = N - 1
    BY FS_RemoveElement
  <2>2. Earlier(x) \in SUBSET (S \ {x})
    OBVIOUS
  <2>3. IsFiniteSet(Earlier(x)) /\ Cardinality(Earlier(x)) <= N - 1
    <3>. HIDE DEF Earlier, N
    <3>. QED BY <2>1, <2>2, FS_Subset
  <2>. HIDE DEF Earlier, N
  <2>. QED BY <1>1, <2>3, FS_CardinalityType
<1>3. \A x, y \in S : <<x, y>> \in before /\ x # y => Cardinality(Earlier(x)) < Cardinality(Earlier(y))
  <2>. SUFFICES ASSUME NEW x \in S, NEW y \in S, <<x, y>> \in before, x # y
                PROVE  Cardinality(Earlier(x)) < Cardinality(Earlier(y))
    OBVIOUS
  <2>1. x \in Earlier(y) /\ x \notin Earlier(x)
    OBVIOUS
  <2>a. <<y, x>> \notin before
    BY DEF Ranks
  <2>b. ASSUME NEW z \in Earlier(x)
        PROVE  z \in Earlier(y)
    <3>1. z \in S /\ z # x /\ <<z, x>> \in before /\ z # y
      BY <2>a
    <3>. QED BY <3>1 DEF Ranks
  <2>c. Earlier(x) \in SUBSET Earlier(y)
    BY <2>b
  <2>2. /\ Cardinality(Earlier(x)) <= Cardinality(Earlier(y))
        /\ Cardinality(Earlier(x)) # Cardinality(Earlier(y))
    <3>. HIDE DEF Earlier
    <3>. QED BY <1>2, <2>1, <2>c, FS_Subset
  <2>. HIDE DEF Earlier
  <2>. QED BY <1>1, <1>2, <2>2
<1>4. \A x, y \in S : Cardinality(Earlier(x)) = Cardinality(Earlier(y)) => x = y
  <2>. SUFFICES ASSUME NEW x \in S, NEW y \in S, x # y
                PROVE  Cardinality(Earlier(x)) # Cardinality(Earlier(y))
    OBVIOUS
  <2>1. <<x, y>> \in before \/ <<y, x>> \in before
    BY DEF Ranks
  <2>2. /\ <<x, y>> \in before => Cardinality(Earlier(x)) < Cardinality(Earlier(y))
        /\ <<y, x>> \in before => Cardinality(Earlier(y)) < Cardinality(Earlier(x))
    BY <1>3
  <2>3. Cardinality(Earlier(x)) \in Int /\ Cardinality(Earlier(y)) \in Int
    <3>. HIDE DEF Earlier, N
    <3>. QED BY <1>1, <1>2
  <2>. HIDE DEF Earlier
  <2>. QED BY <2>1, <2>2, <2>3
<1>5. place \in Surjection(S, 1 .. N)
  <2>1. place \in Injection(S, 1 .. N)
    <3>. HIDE DEF Earlier
    <3>. HIDE DEF N
    <3>1. \A x \in S : place[x] = Cardinality(Earlier(x)) + 1 /\ place[x] \in 1 .. N
      BY <1>1, <1>2
    <3>2. place \in [S -> 1 .. N]
      BY <3>1
    <3>3. \A x, y \in S : place[x] = place[y] => x = y
      BY <1>1, <1>2, <1>4, <3>1
    <3>. HIDE DEF place
    <3>. QED BY <3>2, <3>3 DEF Injection, IsInjective
  <2>2. IsFiniteSet(1 .. N) /\ Cardinality(1 .. N) = N
    BY <1>1, FS_Interval
  <2>. HIDE DEF place, N
  <2>3. Cardinality(S) = N
    BY DEF N
  <2>. QED BY <2>1, <2>2, <2>3, FS_Injection
<1>6. \A n \in 1 .. N : \E x \in S : Cardinality(Earlier(x)) = n - 1
  <2>. TAKE n \in 1 .. N
  <2>1. PICK x \in S : place[x] = n
    BY <1>5 DEF Surjection
  <2>. HIDE DEF Earlier
  <2>. QED BY <1>1, <1>2, <2>1
<1>7. \A n \in 1 .. N : seq[n] \in S /\ Cardinality(Earlier(seq[n])) = n - 1
  <2>. HIDE DEF Earlier
  <2>. QED BY <1>6
<1>8. seq \in [1 .. N -> S]
  <2>. HIDE DEF Earlier
  <2>. QED BY <1>7
<1>9. InOrder(S, before) = seq
  <2>1. InOrder(S, before) = seq \o <<>>
    BY DEF InOrder
  <2>. HIDE DEF seq, N
  <2>. QED BY <1>1, <1>8, <2>1, AsItIs
<1>10. \A m, n \in 1 .. N : seq[m] = seq[n] => m = n
  <2>. HIDE DEF seq, Earlier
  <2>. QED BY <1>1, <1>7
<1>11. \A x \in S : Cardinality(Earlier(x)) + 1 \in 1 .. N /\ seq[Cardinality(Earlier(x)) + 1] = x
  <2>. TAKE x \in S
  <2>1. Cardinality(Earlier(x)) + 1 \in 1 .. N
    <3>. HIDE DEF Earlier
    <3>. QED BY <1>1, <1>2
  <2>. HIDE DEF seq, Earlier
  <2>. QED BY <1>1, <1>2, <1>4, <1>7, <2>1
<1>12. Lists(seq, S)
  <2>. HIDE DEF seq
  <2>. QED BY <1>8, <1>10, <1>11 DEF Lists
<1>13. \A x \in S : Cardinality(Earlier(x)) \in 0 .. (Cardinality(S) - 1) /\ seq[Cardinality(Earlier(x)) + 1] = x
  BY <1>2, <1>11
<1>. QED
  <2>. HIDE DEF seq
  <2>. QED BY <1>9, <1>12, <1>13

\* So it is a sequence, as long as the set and with its members.
LEMMA InOrderIs ==
  ASSUME NEW S, IsFiniteSet(S), NEW before, Ranks(before, S)
  PROVE  /\ InOrder(S, before) \in Seq(S)
         /\ Len(InOrder(S, before)) = Cardinality(S)
         /\ ToSet(InOrder(S, before)) = S
         /\ \A m, n \in DOMAIN InOrder(S, before) :
              InOrder(S, before)[m] = InOrder(S, before)[n] => m = n
<1>1. Lists(InOrder(S, before), S) /\ Cardinality(S) \in Nat
  BY InOrderLists, FS_CardinalityType
<1>2. /\ InOrder(S, before) \in Seq(S) /\ Len(InOrder(S, before)) = Cardinality(S)
      /\ DOMAIN InOrder(S, before) = 1 .. Cardinality(S)
  BY <1>1, AsItIs DEF Lists
<1>. QED BY <1>1, <1>2 DEF Lists, ToSet

\* Positions taken in an order.
LEMMA TakenIs ==
  ASSUME NEW S, NEW seq \in Seq(S), NEW positions \in SUBSET (DOMAIN seq), NEW before,
         Ranks(before, positions)
  PROVE  /\ Taken(seq, positions, before) \in Seq(S)
         /\ Len(Taken(seq, positions, before)) = Cardinality(positions)
         /\ ToSet(Taken(seq, positions, before)) = {seq[n] : n \in positions}
<1> DEFINE N == Cardinality(positions)
           order == InOrder(positions, before)
           taken == [n \in 1 .. N |-> seq[order[n]]]
<1>1. IsFiniteSet(positions) /\ N \in Nat
  <2>1. DOMAIN seq = 1 .. Len(seq) /\ Len(seq) \in Nat
    OBVIOUS
  <2>2. IsFiniteSet(DOMAIN seq)
    BY <2>1, FS_Interval
  <2>3. IsFiniteSet(positions)
    BY <2>2, FS_Subset
  <2>. QED BY <2>3, FS_CardinalityType
<1>2. Lists(order, positions)
  BY <1>1, InOrderLists
<1>. HIDE DEF order
<1>3. taken \in [1 .. N -> S]
  <2>1. \A n \in 1 .. N : order[n] \in DOMAIN seq
    BY <1>2 DEF Lists
  <2>. HIDE DEF N
  <2>. QED BY <2>1
<1>4. /\ taken \o <<>> = taken /\ taken \in Seq(S) /\ Len(taken) = N /\ DOMAIN taken = 1 .. N
  <2>. HIDE DEF taken, N
  <2>. QED BY <1>1, <1>3, AsItIs
<1>5. Taken(seq, positions, before) = taken
  <2>1. Taken(seq, positions, before) = taken \o <<>>
    BY DEF Taken, order
  <2>. QED BY <1>4, <2>1
<1>6. {taken[n] : n \in 1 .. N} = {seq[n] : n \in positions}
  BY <1>2 DEF Lists
<1>7. ToSet(taken) = {taken[n] : n \in 1 .. N}
  <2>. HIDE DEF taken, N
  <2>. QED BY <1>4 DEF ToSet
<1>. QED
  <2>. HIDE DEF taken
  <2>. QED BY <1>4, <1>5, <1>6, <1>7

\* Positions, or ids, that ascend.
LEMMA AscendingRanks ==
  ASSUME NEW S \in SUBSET Int
  PROVE  Ranks(Ascending(S), S)
<1>1. \A x, y \in S : <<x, y>> \in Ascending(S) <=> x < y
  BY DEF Ascending
<1>2. \A x \in S : x \in Int
  OBVIOUS
<1>. QED BY <1>1, <1>2 DEF Ranks

\* A filter keeps the members of the set and no other, each as often as it was there.
LEMMA ThoseIs ==
  ASSUME NEW S, NEW seq \in Seq(S), NEW W
  PROVE  /\ Those(seq, W) \in Seq(S)
         /\ Len(Those(seq, W)) = Cardinality({n \in DOMAIN seq : seq[n] \in W})
         /\ ToSet(Those(seq, W)) = ToSet(seq) \cap W
<1> DEFINE positions == {n \in DOMAIN seq : seq[n] \in W}
<1>1. positions \in SUBSET (DOMAIN seq) /\ positions \in SUBSET Int
  OBVIOUS
<1>2. Those(seq, W) = Taken(seq, positions, Ascending(positions))
  BY DEF Those
<1>3. {seq[n] : n \in positions} = ToSet(seq) \cap W
  BY DEF ToSet
<1>. HIDE DEF positions
<1>4. Ranks(Ascending(positions), positions)
  BY <1>1, AscendingRanks
<1>5. /\ Taken(seq, positions, Ascending(positions)) \in Seq(S)
      /\ Len(Taken(seq, positions, Ascending(positions))) = Cardinality(positions)
      /\ ToSet(Taken(seq, positions, Ascending(positions))) = {seq[n] : n \in positions}
  BY <1>1, <1>4, TakenIs
<1>. QED BY <1>2, <1>3, <1>5 DEF positions

\* The members of a sequence are in what it is a sequence of.
LEMMA MembersOf ==
  ASSUME NEW S, NEW seq
  PROVE  /\ seq \in Seq(S) => ToSet(seq) \subseteq S
         /\ \A T : seq \in Seq(T) /\ ToSet(seq) \subseteq S => seq \in Seq(S)
BY DEF ToSet

\* A beginning: all of a sequence that is no longer.
LEMMA FirstsIs ==
  ASSUME NEW S, NEW seq \in Seq(S), NEW n \in Nat
  PROVE  /\ Firsts(seq, n) \in Seq(S)
         /\ Len(Firsts(seq, n)) = IF n < Len(seq) THEN n ELSE Len(seq)
         /\ DOMAIN Firsts(seq, n) = 1 .. Len(Firsts(seq, n))
         /\ \A k \in DOMAIN Firsts(seq, n) : k \in DOMAIN seq /\ Firsts(seq, n)[k] = seq[k]
         /\ ToSet(Firsts(seq, n)) \subseteq ToSet(seq)
         /\ Len(seq) <= n => Firsts(seq, n) = seq
<1> DEFINE m == IF n < Len(seq) THEN n ELSE Len(seq)
<1>1. m \in Nat /\ m <= Len(seq) /\ Len(seq) \in Nat
  OBVIOUS
<1>2. Firsts(seq, n) = SubSeq(seq, 1, m)
  BY DEF Firsts
<1>. HIDE DEF m
<1>3. /\ SubSeq(seq, 1, m) \in Seq(S) /\ Len(SubSeq(seq, 1, m)) = m
      /\ \A k \in 1 .. m : k \in DOMAIN seq /\ SubSeq(seq, 1, m)[k] = seq[k]
  BY <1>1
<1>4. DOMAIN SubSeq(seq, 1, m) = 1 .. m
  BY <1>3
<1>5. ToSet(SubSeq(seq, 1, m)) \subseteq ToSet(seq)
  BY <1>3, <1>4 DEF ToSet
<1>6. Len(seq) <= n => SubSeq(seq, 1, m) = seq
  <2>. SUFFICES ASSUME Len(seq) <= n PROVE SubSeq(seq, 1, m) = seq
    OBVIOUS
  <2>1. m = Len(seq)
    BY <1>1 DEF m
  <2>2. SubSeq(seq, 1, m) = [k \in 1 .. m |-> SubSeq(seq, 1, m)[k]] /\ seq = [k \in 1 .. m |-> seq[k]]
    BY <1>3, <2>1
  <2>. QED BY <1>3, <2>2
<1>. QED BY <1>2, <1>3, <1>4, <1>5, <1>6 DEF m

-----------------------------------------------------------------------------
(* What a query finds.                                                     *)

\* Hits that say something of T.
HitsOf(T) == {h \in [id : Id, text : Text, score : Int] : <<h.id, h.text>> \in T}
Memory == [Id -> Item]

\* There are finitely many items, so any of them can be ranked.
LEMMA IdsAreFinite == IsFiniteSet(Id) /\ Id \in SUBSET Int /\ \A S \in SUBSET Id : IsFiniteSet(S)
<1>1. IsFiniteSet(Id) /\ Id \in SUBSET Int
  BY RetrievalAssumption
<1>2. \A S \in SUBSET Id : IsFiniteSet(S)
  BY <1>1, FS_Subset
<1>. QED BY <1>1, <1>2

\* Sorting hits loses and adds none.
LEMMA ByScoreIs ==
  ASSUME NEW T, NEW hits \in Seq(HitsOf(T))
  PROVE  ByScore(hits) \in Seq(HitsOf(T)) /\ ToSet(ByScore(hits)) = ToSet(hits)
<1>1. \A n \in DOMAIN hits : n \in Int /\ hits[n].score \in Int
  <2>1. \A n \in DOMAIN hits : n \in Int /\ hits[n] \in HitsOf(T)
    OBVIOUS
  <2>. QED BY <2>1 DEF HitsOf
<1>2. \A m, n \in DOMAIN hits :
        <<m, n>> \in Higher(hits)
          <=> \/ hits[m].score > hits[n].score
              \/ (hits[m].score = hits[n].score /\ m < n)
  BY DEF Higher
<1>3. Ranks(Higher(hits), DOMAIN hits)
  <2>1. ASSUME NEW m \in DOMAIN hits, NEW n \in DOMAIN hits, m # n
        PROVE  <<m, n>> \in Higher(hits) <=> <<n, m>> \notin Higher(hits)
    BY <1>1, <1>2, <2>1
  <2>2. ASSUME NEW k \in DOMAIN hits, NEW m \in DOMAIN hits, NEW n \in DOMAIN hits,
               <<k, m>> \in Higher(hits), <<m, n>> \in Higher(hits)
        PROVE  <<k, n>> \in Higher(hits)
    BY <1>1, <1>2, <2>2
  <2>. QED BY <2>1, <2>2 DEF Ranks
<1>4. {hits[n] : n \in DOMAIN hits} = ToSet(hits)
  BY DEF ToSet
<1>. QED BY <1>3, <1>4, TakenIs DEF ByScore

\* The best, of those found.
LEMMA BestIs ==
  ASSUME NEW T, NEW hits \in Seq(HitsOf(T)), NEW limit \in Nat
  PROVE  Firsts(ByScore(hits), limit) \in Seq(HitsOf(T))
BY ByScoreIs, FirstsIs

\* Every importance has a weight.
LEMMA WeightIsNatural == \A i \in Id : Weight(Fixed[i].importance) \in Nat
BY RetrievalAssumption DEF Weight, Importances

\* The orders of the tables.
LEMMA LaterRanks ==
  ASSUME NEW m \in Memory, NEW S \in SUBSET Id
  PROVE  Ranks(ByDate(m), S)
<1>1. \A i \in S : i \in Id /\ i \in Int /\ m[i].at \in Int
  BY IdsAreFinite DEF Memory, Item
<1>2. \A i, j \in S : <<i, j>> \in ByDate(m) <=> m[i].at > m[j].at \/ (m[i].at = m[j].at /\ i < j)
  BY <1>1 DEF ByDate, Later
<1>. QED BY <1>1, <1>2 DEF Ranks

\* By importance, then date, then id.
LEMMA ListedRanks ==
  ASSUME NEW m \in Memory, NEW S \in SUBSET Id
  PROVE  Ranks(ByImportance(m), S)
<1>1. \A i \in S : /\ i \in Id /\ i \in Int /\ m[i].at \in Int
                   /\ Fixed[i].importance \in Importances
  BY IdsAreFinite, RetrievalAssumption DEF Memory, Item
<1> DEFINE w(i) == Weight(Fixed[i].importance)
<1>2. /\ \A i \in S : w(i) \in Int
      /\ \A i, j \in S : Fixed[i].importance = Fixed[j].importance <=> w(i) = w(j)
  BY <1>1 DEF Weight, Importances
<1>3. \A i, j \in S : <<i, j>> \in ByImportance(m)
        <=> \/ w(i) > w(j)
            \/ w(i) = w(j) /\ (m[i].at > m[j].at \/ (m[i].at = m[j].at /\ i < j))
  BY <1>1, <1>2 DEF ByImportance, Listed, MoreImportant, Later
<1>. HIDE DEF w
<1>4. ASSUME NEW i \in S, NEW j \in S, i # j
      PROVE  <<i, j>> \in ByImportance(m) <=> <<j, i>> \notin ByImportance(m)
  BY <1>1, <1>2, <1>3, <1>4
<1>5. ASSUME NEW i \in S, NEW j \in S, NEW k \in S,
             <<i, j>> \in ByImportance(m), <<j, k>> \in ByImportance(m)
      PROVE  <<i, k>> \in ByImportance(m)
  BY <1>1, <1>2, <1>3, <1>5
<1>. QED BY <1>4, <1>5 DEF Ranks

\* By relevance to a query, then date, then id.
LEMMA RelevanceRanks ==
  ASSUME NEW m \in Memory, NEW q \in Query, NEW S \in SUBSET Id
  PROVE  Ranks(ByRelevance(m, q), S)
<1> DEFINE w(i) == Relevance[q][m[i].text]
<1>1. \A i \in S : i \in Id /\ i \in Int /\ w(i) \in Int
  BY IdsAreFinite, RetrievalAssumption DEF Memory, Item
<1>2. \A i, j \in S : <<i, j>> \in ByRelevance(m, q) <=> w(i) > w(j) \/ (w(i) = w(j) /\ i < j)
  BY <1>1 DEF ByRelevance
<1>. HIDE DEF w
<1>. QED BY <1>1, <1>2 DEF Ranks

\* A read of an item that is live says what memory says.
LEMMA HitIs ==
  ASSUME NEW m \in Memory, NEW T, LiveTexts(m) \subseteq T,
         NEW i \in LiveIn(m), NEW score \in Int
  PROVE  Hit(m, i, score) \in HitsOf(T)
BY DEF Hit, HitsOf, LiveIn, LiveTexts, Memory, Item

\* Keyword search: hits of what is live.
LEMMA SearchIs ==
  ASSUME NEW m \in Memory, NEW q \in Query, NEW T, LiveTexts(m) \subseteq T,
         NEW limit \in Nat
  PROVE  search(m, q, limit) \in Seq(HitsOf(T))
<1> DEFINE order == IF q.words THEN ByRelevance(m, q) ELSE ByImportance(m)
           sorted == InOrder(Matches(m, q), order)
           rows == Firsts(sorted, limit * RowsPerHit)
           live == Those(rows, LiveIn(m))
           hits == [n \in DOMAIN live |-> Hit(m, live[n], Score(m, q, live[n]))]
<1>1. Matches(m, q) \in SUBSET Id /\ IsFiniteSet(Matches(m, q))
  BY IdsAreFinite DEF Matches
<1>2. Ranks(order, Matches(m, q))
  BY <1>1, RelevanceRanks, ListedRanks
<1>3. sorted \in Seq(Matches(m, q))
  <2>. HIDE DEF order
  <2>. QED BY <1>1, <1>2, InOrderIs
<1>4. limit * RowsPerHit \in Nat
  BY RetrievalAssumption
<1>5. rows \in Seq(Id)
  <2>. HIDE DEF sorted
  <2>1. sorted \in Seq(Id)
    BY <1>1, <1>3
  <2>. QED BY <1>4, <2>1, FirstsIs
<1>6. live \in Seq(Id) /\ ToSet(live) \subseteq LiveIn(m)
  <2>. HIDE DEF rows
  <2>1. live \in Seq(Id) /\ ToSet(live) = ToSet(rows) \cap LiveIn(m)
    BY <1>5, ThoseIs
  <2>. HIDE DEF live
  <2>. QED BY <2>1
<1>7. Len(live) \in Nat /\ DOMAIN live = 1 .. Len(live) /\ \A n \in DOMAIN live : live[n] \in LiveIn(m)
  <2>. HIDE DEF live
  <2>. QED BY <1>6 DEF ToSet
<1>8. \A i \in LiveIn(m) : Score(m, q, i) \in Int
  <2>. TAKE i \in LiveIn(m)
  <2>1. i \in Id /\ Weight(Fixed[i].importance) \in Int
    BY WeightIsNatural DEF LiveIn
  <2>2. Relevance[q][m[i].text] \in Int
    BY <2>1, RetrievalAssumption DEF Memory, Item
  <2>. QED BY <2>1, <2>2 DEF Score
<1>9. hits \in [1 .. Len(live) -> HitsOf(T)]
  <2>. HIDE DEF live
  <2>. QED BY <1>7, <1>8, HitIs
<1>10. hits \o <<>> = hits /\ hits \in Seq(HitsOf(T))
  <2>. HIDE DEF hits, live
  <2>. QED BY <1>7, <1>9, AsItIs
<1>11. search(m, q, limit) = Firsts(ByScore(hits \o <<>>), limit)
  BY DEF search, Rows, Each
<1>. QED
  <2>. HIDE DEF hits
  <2>. QED BY <1>10, <1>11, BestIs

\* One hop from them: what is added is live too.
LEMMA ExpandIs ==
  ASSUME NEW m \in Memory, NEW T, LiveTexts(m) \subseteq T,
         NEW hits \in Seq(HitsOf(T)), NEW limit \in Nat
  PROVE  expand(m, hits, limit) \in Seq(HitsOf(T))
<1> DEFINE seeds == Firsts(hits, 5)
           around == (UNION {Others(i) : i \in Ids(seeds)} \ Ids(hits)) \cap LiveIn(m)
           near(j) == {k \in DOMAIN seeds : j \in Others(seeds[k].id)}
           base(j) == Max({seeds[n].score : n \in near(j)})
           order == InOrder(around, Ascending(around))
           extra == [n \in DOMAIN order |-> Hit(m, order[n], (base(order[n]) * HopWeight) \div 100)]
<1>1. seeds \in Seq(HitsOf(T))
  BY FirstsIs
<1>2. /\ Len(seeds) \in Nat /\ DOMAIN seeds = 1 .. Len(seeds)
      /\ \A n \in DOMAIN seeds : seeds[n] \in HitsOf(T)
  <2>. HIDE DEF seeds
  <2>. QED BY <1>1
<1>. HIDE DEF seeds
<1>3. \A n \in DOMAIN seeds : seeds[n].score \in Int
  BY <1>2 DEF HitsOf
<1>4. around \in SUBSET LiveIn(m) /\ LiveIn(m) \in SUBSET Id /\ around \in SUBSET Id
  BY DEF LiveIn
<1>5. \A j \in around : \E n \in DOMAIN seeds : j \in Others(seeds[n].id)
  BY DEF Ids
<1>. HIDE DEF around
<1>6. \A j \in around : base(j) \in Int
  <2>. TAKE j \in around
  <2> DEFINE scores == {seeds[n].score : n \in near(j)}
  <2>1. near(j) # {} /\ near(j) \in SUBSET (DOMAIN seeds)
    BY <1>5
  <2>2. IsFiniteSet(near(j))
    <3>. HIDE DEF near
    <3>1. IsFiniteSet(DOMAIN seeds)
      BY <1>2, FS_Interval
    <3>. QED BY <2>1, <3>1, FS_Subset
  <2>. HIDE DEF near
  <2>3. IsFiniteSet(scores)
    <3>1. [n \in near(j) |-> seeds[n].score] \in Surjection(near(j), scores)
      BY DEF Surjection
    <3>. HIDE DEF scores
    <3>. QED BY <2>2, <3>1, FS_Surjection
  <2>4. scores \in SUBSET Int /\ scores # {}
    BY <1>3, <2>1
  <2>5. base(j) = Max(scores)
    OBVIOUS
  <2>. HIDE DEF scores, base
  <2>. QED BY <2>3, <2>4, <2>5, MaxIsGreatest
<1>7. IsFiniteSet(around) /\ around \in SUBSET Int
  BY <1>4, IdsAreFinite
<1>8. order \in Seq(around)
  BY <1>7, AscendingRanks, InOrderIs
<1>9. Len(order) \in Nat /\ DOMAIN order = 1 .. Len(order) /\ \A n \in DOMAIN order : order[n] \in around
  <2>. HIDE DEF order
  <2>. QED BY <1>8
<1>. HIDE DEF order, base
<1>10. \A j \in around : (base(j) * HopWeight) \div 100 \in Int
  BY <1>6, RetrievalAssumption
<1>11. extra \in [1 .. Len(order) -> HitsOf(T)]
  BY <1>4, <1>9, <1>10, HitIs
<1>12. extra \o <<>> = extra /\ extra \in Seq(HitsOf(T))
  <2>. HIDE DEF extra
  <2>. QED BY <1>9, <1>11, AsItIs
<1>13. hits \o extra \in Seq(HitsOf(T))
  <2>. HIDE DEF extra
  <2>. QED BY <1>12
<1>14. expand(m, hits, limit) = Firsts(ByScore(hits \o (extra \o <<>>)), limit)
  BY DEF expand, Each, seeds, around, order, base
<1>. QED
  <2>. HIDE DEF extra
  <2>. QED BY <1>12, <1>13, <1>14, BestIs

\* Vectors: each made from a text, and hashed of one.
VectorsTyped ==
  \A i \in Id :
    \/ vectors[i] = NoVector
    \/ vectors[i].made \in Text /\ vectors[i].hash \in Text

\* The index answers with items, whatever they say by now.
LEMMA RankIs ==
  ASSUME NEW m \in Memory, VectorsTyped, NEW q \in Query, NEW limit \in Nat
  PROVE  rank(m, vectors, q, limit) \in Seq(Id)
<1> DEFINE known == {i \in Id : m[i].status = "active" /\ vectors[i].made # None}
           scores == [i \in known |-> Likeness[q][vectors[i].made]]
           likelier == {r \in known \X known : \/ scores[r[1]] > scores[r[2]]
                                               \/ (scores[r[1]] = scores[r[2]] /\ r[1] < r[2])}
           S == standOut(scores)
<1>1. \A i \in known : vectors[i].made \in Text
  BY DEF VectorsTyped, NoVector
<1>2. \A i \in known : scores[i] \in Int /\ i \in Int /\ i \in Id
  BY <1>1, RetrievalAssumption
<1>3. DOMAIN scores = known
  OBVIOUS
<1>. HIDE DEF scores
<1>4. S \in SUBSET known
  BY <1>3 DEF standOut
<1>. HIDE DEF S
<1>5. \A i, j \in known : <<i, j>> \in likelier <=> scores[i] > scores[j] \/ (scores[i] = scores[j] /\ i < j)
  OBVIOUS
<1>. HIDE DEF likelier, known
<1>6. Ranks(likelier, S)
  <2>1. ASSUME NEW i \in S, NEW j \in S, i # j
        PROVE  <<i, j>> \in likelier <=> <<j, i>> \notin likelier
    BY <1>2, <1>4, <1>5, <2>1
  <2>2. ASSUME NEW i \in S, NEW j \in S, NEW k \in S, <<i, j>> \in likelier, <<j, k>> \in likelier
        PROVE  <<i, k>> \in likelier
    BY <1>2, <1>4, <1>5, <2>2
  <2>. QED BY <2>1, <2>2 DEF Ranks
<1>7. S \in SUBSET Id /\ IsFiniteSet(S)
  BY <1>2, <1>4, IdsAreFinite
<1>8. InOrder(S, likelier) \in Seq(S)
  BY <1>6, <1>7, InOrderIs
<1>9. InOrder(S, likelier) \in Seq(Id)
  BY <1>7, <1>8
<1>10. rank(m, vectors, q, limit) = Firsts(InOrder(S, likelier), limit)
  BY DEF rank, S, likelier, scores, known
<1>. QED BY <1>9, <1>10, FirstsIs

\* A share of a fused score is a number, wherever the item stands in the list.
LEMMA ShareIsNumber ==
  ASSUME NEW S, NEW seq \in Seq(S), NEW i, NEW weight \in Int
  PROVE  Share(seq, i, weight) \in Int
<1>1. CASE Place(seq, i) = {}
  BY <1>1 DEF Share
<1>2. CASE Place(seq, i) # {}
  <2>1. DOMAIN seq = 1 .. Len(seq) /\ Len(seq) \in Nat
    OBVIOUS
  <2>2. Place(seq, i) \in SUBSET (DOMAIN seq) /\ Place(seq, i) \in SUBSET Int
    BY <2>1 DEF Place
  <2>3. IsFiniteSet(Place(seq, i))
    <3>1. IsFiniteSet(DOMAIN seq)
      BY <2>1, FS_Interval
    <3>. QED BY <2>2, <3>1, FS_Subset
  <2>4. Max(Place(seq, i)) \in DOMAIN seq
    BY <1>2, <2>2, <2>3, MaxIsGreatest
  <2>5. 60 + Max(Place(seq, i)) \in Nat \ {0}
    BY <2>1, <2>4
  <2>6. weight * 1000000 \in Int
    OBVIOUS
  <2>7. (weight * 1000000) \div (60 + Max(Place(seq, i))) \in Int
    BY <2>5, <2>6
  <2>. QED BY <1>2, <2>7 DEF Share
<1>. QED BY <1>1, <1>2

\* The share of words in the fused score.
LEMMA WeightOfWords == \A q \in Query : adaptiveKeywordWeight(q, 100 - SemanticWeight) \in Int
<1> DEFINE base == 100 - SemanticWeight
<1>1. base \in Int
  BY RetrievalAssumption
<1>. HIDE DEF base
<1>2. \A n \in Int : Max({base, n}) \in Int
  <2>. TAKE n \in Int
  <2>1. IsFiniteSet({base, n})
    <3>1. IsFiniteSet({base}) /\ {base, n} = {base} \cup {n}
      BY FS_Singleton
    <3>. QED BY <3>1, FS_AddElement
  <2>2. {base, n} \in SUBSET Int /\ {base, n} # {}
    BY <1>1
  <2>3. Max({base, n}) \in {base, n}
    BY <2>1, <2>2, MaxIsGreatest
  <2>. QED BY <1>1, <2>3
<1>3. \A q \in Query : adaptiveKeywordWeight(q, base) \in Int
  BY <1>1, <1>2 DEF adaptiveKeywordWeight
<1>. QED BY <1>3 DEF base

\* Fusing: the keyword hits keep what they said, the index adds what is live now.
LEMMA FusedIs ==
  ASSUME NEW m \in Memory, NEW T, LiveTexts(m) \subseteq T, NEW q \in Query,
         NEW keyword \in Seq(HitsOf(T)), NEW semantic \in Seq(Id)
  PROVE  Fused(m, keyword, semantic, q) \in Seq(HitsOf(T))
<1> DEFINE words == [n \in DOMAIN keyword |-> keyword[n].id]
           weight == adaptiveKeywordWeight(q, 100 - SemanticWeight)
           W == {i \in LiveIn(m) \ Ids(keyword) : Asked(q, i)}
           more == Those(semantic, W)
           fused(i) == reciprocalRankFusion(words, semantic, weight, i)
           old == [n \in DOMAIN keyword |-> [keyword[n] EXCEPT !.score = fused(keyword[n].id)]]
           new == [n \in DOMAIN more |-> Hit(m, more[n], fused(more[n]))]
<1>1. /\ Len(keyword) \in Nat /\ DOMAIN keyword = 1 .. Len(keyword)
      /\ \A n \in DOMAIN keyword : keyword[n] \in HitsOf(T)
  OBVIOUS
<1>2. words \in [1 .. Len(keyword) -> Id]
  BY <1>1 DEF HitsOf
<1>3. words \o <<>> = words /\ words \in Seq(Id)
  <2>. HIDE DEF words
  <2>. QED BY <1>1, <1>2, AsItIs
<1>4. weight \in Int
  BY WeightOfWords
<1>5. 100 - weight \in Int
  BY <1>4
<1>. HIDE DEF words, weight
<1>6. \A i : fused(i) \in Int
  <2>. TAKE i
  <2>1. Share(words, i, weight) \in Int
    BY <1>3, <1>4, ShareIsNumber
  <2>2. Share(semantic, i, 100 - weight) \in Int
    BY <1>5, ShareIsNumber
  <2>. QED BY <2>1, <2>2 DEF reciprocalRankFusion
<1>7. more \in Seq(Id) /\ ToSet(more) \subseteq LiveIn(m)
  <2>1. more \in Seq(Id) /\ ToSet(more) = ToSet(semantic) \cap W
    <3>. HIDE DEF W
    <3>. QED BY ThoseIs
  <2>. HIDE DEF more
  <2>. QED BY <2>1
<1>. HIDE DEF more, fused
<1>8. Len(more) \in Nat /\ DOMAIN more = 1 .. Len(more) /\ \A n \in DOMAIN more : more[n] \in LiveIn(m)
  BY <1>7 DEF ToSet
<1>9. old \in [1 .. Len(keyword) -> HitsOf(T)]
  <2>1. ASSUME NEW h \in HitsOf(T)
        PROVE  [h EXCEPT !.score = fused(h.id)] \in HitsOf(T)
    BY <1>6 DEF HitsOf
  <2>. QED BY <1>1, <2>1
<1>10. new \in [1 .. Len(more) -> HitsOf(T)]
  BY <1>6, <1>8, HitIs
<1>11. old \o <<>> = old /\ old \in Seq(HitsOf(T)) /\ new \o <<>> = new /\ new \in Seq(HitsOf(T))
  <2>. HIDE DEF old, new
  <2>. QED BY <1>1, <1>8, <1>9, <1>10, AsItIs
<1>12. old \o new \in Seq(HitsOf(T))
  <2>. HIDE DEF old, new
  <2>. QED BY <1>11
<1>13. Fused(m, keyword, semantic, q) = ByScore((old \o <<>>) \o (new \o <<>>))
  <2>1. Fused(m, keyword, semantic, q) =
          ByScore(([n \in DOMAIN keyword |->
                      [keyword[n] EXCEPT !.score =
                         reciprocalRankFusion(words \o <<>>, semantic, weight, keyword[n].id)]] \o <<>>)
                   \o ([n \in DOMAIN more |->
                      Hit(m, more[n], reciprocalRankFusion(words \o <<>>, semantic, weight, more[n]))] \o <<>>))
    BY DEF Fused, Each, words, weight, more, W
  <2>. QED BY <1>3, <2>1 DEF fused
<1>. QED
  <2>. HIDE DEF old, new
  <2>. QED BY <1>11, <1>12, <1>13, ByScoreIs

\* The answer to a hybrid query.
LEMMA HybridIs ==
  ASSUME NEW m \in Memory, NEW T, LiveTexts(m) \subseteq T, NEW q \in Query,
         NEW keyword \in Seq(HitsOf(T)), NEW semantic \in Seq(Id)
  PROVE  searchHybrid(m, keyword, semantic, q) \in Seq(HitsOf(T))
<1> DEFINE hits == IF semantic = <<>> THEN keyword ELSE Fused(m, keyword, semantic, q)
<1>1. hits \in Seq(HitsOf(T))
  BY FusedIs
<1>2. SearchLimit \in Nat
  BY RetrievalAssumption
<1>. HIDE DEF hits
<1>3. Firsts(hits, SearchLimit) \in Seq(HitsOf(T))
  BY <1>1, <1>2, FirstsIs
<1>4. searchHybrid(m, keyword, semantic, q) = expand(m, Firsts(hits, SearchLimit), SearchLimit)
  BY DEF searchHybrid, hits
<1>. QED BY <1>2, <1>3, <1>4, ExpandIs

-----------------------------------------------------------------------------
(* What the steps keep: typing, and what each querying session has seen.   *)

Read == [id : Id, text : Text]
Session ==
  [phase : {"idle", "filling", "ranking"}, query : Query \cup {None}, batch : Seq(Read),
   keyword : Seq([id : Id, text : Text, score : Int]), live : SUBSET (Id \X Text)]

Types ==
  /\ items \in Memory /\ edits \in Nat
  /\ VectorsTyped
  /\ embedding \in [Embedder -> Seq(Read)]
  /\ searching \in [Searcher -> Session]
  /\ setting \in Settings

\* The inductive invariant behind FindsWhatWasLive: what is live now is in what a session
\* has seen, and its keyword hits say what it has seen.
Seen ==
  \A s \in Searcher : searching[s].phase # "idle" =>
    /\ searching[s].query \in Query
    /\ LiveTexts(items) \subseteq searching[s].live
    /\ searching[s].keyword \in Seq(HitsOf(searching[s].live))

\* What is live, each item with its text.
LEMMA LiveTextsAre == \A m \in Memory : LiveTexts(m) \in SUBSET (Id \X Text)
BY DEF LiveTexts, Memory, Item

\* What a setting gives.
LEMMA SettingIs ==
  ASSUME Types
  PROVE  setting.queries \in SUBSET Query /\ setting.start \in Memory
BY DerivedAssumption DEF Types, Memory

\* A batch is of items as they are read.
LEMMA BatchIs ==
  ASSUME Types
  PROVE  Batch \in Seq(Read)
<1> DEFINE rows == {i \in Id : items[i].status = "active" /\ vectors[i].hash # items[i].text}
           read == [n \in DOMAIN stale |-> [id |-> stale[n], text |-> items[stale[n]].text]]
<1>1. rows \in SUBSET Id
  OBVIOUS
<1>2. stale = Firsts(InOrder(rows, Ascending(rows)), BatchSize)
  BY DEF stale
<1>. HIDE DEF rows
<1>3. IsFiniteSet(rows) /\ rows \in SUBSET Int
  BY <1>1, IdsAreFinite
<1>4. InOrder(rows, Ascending(rows)) \in Seq(rows)
  BY <1>3, AscendingRanks, InOrderIs
<1>5. InOrder(rows, Ascending(rows)) \in Seq(Id)
  BY <1>1, <1>4
<1>6. stale \in Seq(Id)
  BY <1>2, <1>5, DerivedAssumption, FirstsIs
<1>7. Len(stale) \in Nat /\ DOMAIN stale = 1 .. Len(stale) /\ \A n \in DOMAIN stale : stale[n] \in Id
  BY <1>6
<1>8. \A i \in Id : items[i].text \in Text
  BY DEF Types, Memory, Item
<1>9. read \in [1 .. Len(stale) -> Read]
  BY <1>7, <1>8 DEF Read
<1>10. read \o <<>> = read /\ read \in Seq(Read)
  <2>. HIDE DEF read
  <2>. QED BY <1>7, <1>9, AsItIs
<1>11. Batch = read \o <<>>
  BY DEF Batch, Each
<1>. QED BY <1>10, <1>11

\* Vectors stored from a batch are made from texts, and hashed of them.
LEMMA StoredIs ==
  ASSUME VectorsTyped, NEW batch \in Seq(Read), NEW count \in DOMAIN batch,
         vectors' = Stored(batch, count)
  PROVE  VectorsTyped'
<1>1. \A n \in 1 .. count : batch[n].text \in Text
  <2>1. \A n \in 1 .. count : n \in DOMAIN batch
    OBVIOUS
  <2>2. \A n \in DOMAIN batch : batch[n] \in Read
    OBVIOUS
  <2>. QED BY <2>1, <2>2 DEF Read
<1>2. ASSUME NEW i \in Id
      PROVE  vectors'[i] = NoVector \/ (vectors'[i].made \in Text /\ vectors'[i].hash \in Text)
  <2>1. CASE \E n \in 1 .. count : batch[n].id = i
    <3> DEFINE n == CHOOSE k \in 1 .. count : batch[k].id = i
    <3>1. n \in 1 .. count
      BY <2>1
    <3>2. vectors'[i] = [made |-> batch[n].text, hash |-> batch[n].text]
      BY <2>1 DEF Stored
    <3>. HIDE DEF n
    <3>. QED BY <1>1, <3>1, <3>2
  <2>2. CASE ~ \E n \in 1 .. count : batch[n].id = i
    <3>1. vectors'[i] = vectors[i]
      BY <2>2 DEF Stored
    <3>. QED BY <3>1 DEF VectorsTyped
  <2>. QED BY <2>1, <2>2
<1>. QED BY <1>2 DEF VectorsTyped, NoVector

\* The invariant holds at first.
LEMMA TypesInit == Init => Types /\ Seen
<1>. SUFFICES ASSUME Init PROVE Types /\ Seen
  OBVIOUS
<1>1. items \in Memory /\ edits \in Nat /\ setting \in Settings
  BY DerivedAssumption DEF Init, Memory
<1>2. VectorsTyped
  BY DEF Init, VectorsTyped, NoVector
<1>3. embedding \in [Embedder -> Seq(Read)]
  BY DEF Init
<1>4. Idle \in Session
  BY DEF Idle, Session
<1>5. searching \in [Searcher -> Session] /\ \A s \in Searcher : searching[s].phase = "idle"
  BY <1>4 DEF Init, Idle
<1>. QED BY <1>1, <1>2, <1>3, <1>5 DEF Types, Seen

\* Memory changes: what every querying session has seen grows with it.
LEMMA BecomesKeeps ==
  ASSUME Types, Seen, NEW next \in Memory, Becomes(next)
  PROVE  /\ items' \in Memory /\ edits' \in Nat
         /\ searching' \in [Searcher -> Session]
         /\ Seen'
<1>1. items' = next /\ edits' = edits + 1 /\ searching' = Witness(next)
  BY DEF Becomes
<1>2. ASSUME NEW s \in Searcher
      PROVE  /\ searching'[s] \in Session
             /\ searching'[s].phase # "idle" =>
                  /\ searching'[s].query \in Query
                  /\ LiveTexts(next) \subseteq searching'[s].live
                  /\ searching'[s].keyword \in Seq(HitsOf(searching'[s].live))
  <2>1. searching[s] \in Session
    BY DEF Types
  <2>2. CASE searching[s].phase = "idle"
    BY <1>1, <2>1, <2>2 DEF Witness
  <2>3. CASE searching[s].phase # "idle"
    <3> DEFINE grown == searching[s].live \cup LiveTexts(next)
    <3>1. searching'[s] = [searching[s] EXCEPT !.live = grown]
      BY <1>1, <2>3 DEF Witness
    <3>2. grown \in SUBSET (Id \X Text) /\ searching[s].live \subseteq grown /\ LiveTexts(next) \subseteq grown
      BY <2>1, LiveTextsAre DEF Session
    <3>. HIDE DEF grown
    <3>3. searching[s].query \in Query /\ searching[s].keyword \in Seq(HitsOf(searching[s].live))
      BY <2>3 DEF Seen
    <3>4. HitsOf(searching[s].live) \subseteq HitsOf(grown)
      BY <3>2 DEF HitsOf
    <3>5. searching[s].keyword \in Seq(HitsOf(grown))
      BY <3>3, <3>4
    <3>6. /\ searching'[s] \in Session /\ searching'[s].live = grown
          /\ searching'[s].query = searching[s].query /\ searching'[s].keyword = searching[s].keyword
      <4> DEFINE old == searching[s]
      <4>1. old \in Session /\ searching'[s] = [old EXCEPT !.live = grown]
        BY <2>1, <3>1
      <4>. HIDE DEF old
      <4>2. [old EXCEPT !.live = grown] \in Session
        BY <4>1, <3>2 DEF Session
      <4>3. /\ [old EXCEPT !.live = grown].live = grown
            /\ [old EXCEPT !.live = grown].query = old.query
            /\ [old EXCEPT !.live = grown].keyword = old.keyword
        BY <4>1 DEF Session
      <4>. QED BY <4>1, <4>2, <4>3 DEF old
    <3>. QED BY <3>2, <3>3, <3>5, <3>6
  <2>. QED BY <2>2, <2>3
<1>3. searching' = [s \in Searcher |-> searching'[s]]
  BY <1>1 DEF Witness
<1>4. searching' \in [Searcher -> Session]
  <2>1. \A s \in Searcher : searching'[s] \in Session
    BY <1>2
  <2>. QED BY <1>3, <2>1
<1>5. Seen'
  BY <1>1, <1>2 DEF Seen
<1>6. items' \in Memory /\ edits' \in Nat
  BY <1>1 DEF Types
<1>. QED BY <1>4, <1>5, <1>6

\* What an edit or a resolution writes is an item.
LEMMA UpdatedIs ==
  ASSUME Types, NEW i \in Id, NEW item \in Item
  PROVE  Updated(i, item) \in Memory
<1>1. [item EXCEPT !.at = edits + 1] \in Item
  BY DEF Types, Item
<1>. QED BY <1>1 DEF Types, Updated, Memory

\* An item stays one however it is edited.
LEMMA EditedIs ==
  ASSUME Types, NEW i \in Id
  PROVE  /\ items[i] \in Item
         /\ \A t \in Text : [items[i] EXCEPT !.text = t] \in Item
         /\ [items[i] EXCEPT !.status = "retired"] \in Item
         /\ [items[i] EXCEPT !.closed = TRUE] \in Item
         /\ [items EXCEPT ![i].expired = TRUE] \in Memory
<1>1. items[i] \in Item
  BY DEF Types, Memory
<1>2. [items[i] EXCEPT !.expired = TRUE] \in Item
  BY <1>1 DEF Item
<1>3. [items EXCEPT ![i] = [items[i] EXCEPT !.expired = TRUE]] \in Memory
  BY <1>2 DEF Types, Memory
<1>. QED BY <1>1, <1>3 DEF Item

\* A change of memory keeps the invariant, whatever it leaves alone.
LEMMA WriteKeeps ==
  ASSUME Types, Seen, NEW next \in Memory, Becomes(next),
         UNCHANGED <<vectors, embedding, setting>>
  PROVE  Types' /\ Seen'
<1>1. items' \in Memory /\ edits' \in Nat /\ searching' \in [Searcher -> Session] /\ Seen'
  BY BecomesKeeps
<1>2. VectorsTyped'
  BY DEF Types, VectorsTyped, NoVector
<1>. QED BY <1>1, <1>2 DEF Types

\* A person edits, or an item ages: what a session has seen only grows.
LEMMA EditKeeps ==
  ASSUME Types, Seen, NEW i \in Id,
         (\E t \in Text : Rewrites(i, t)) \/ RetiresItem(i) \/ Closes(i) \/ Ages(i)
  PROVE  Types' /\ Seen'
<1>1. UNCHANGED <<vectors, embedding, setting>>
  BY DEF Rewrites, RetiresItem, Closes, Ages, derived
<1>2. \E next \in Memory : Becomes(next)
  <2>1. CASE \E t \in Text : Rewrites(i, t)
    BY <2>1, EditedIs, UpdatedIs DEF Rewrites
  <2>2. CASE RetiresItem(i)
    BY <2>2, EditedIs, UpdatedIs DEF RetiresItem
  <2>3. CASE Closes(i)
    BY <2>3, EditedIs, UpdatedIs DEF Closes
  <2>4. CASE Ages(i)
    BY <2>4, EditedIs DEF Ages
  <2>. QED BY <2>1, <2>2, <2>3, <2>4
<1>. QED BY <1>1, <1>2, WriteKeeps

\* Memory stays as it is, and so does what the sessions hold.
LEMMA QuietKeeps ==
  ASSUME Types, Seen, UNCHANGED <<items, edits, searching, setting>>,
         VectorsTyped', embedding' \in [Embedder -> Seq(Read)]
  PROVE  Types' /\ Seen'
BY DEF Types, Seen, LiveTexts

\* An embedder reads, stores or gives up.
LEMMA EmbedderKeeps ==
  ASSUME Types, Seen, NEW e \in Embedder, Embeds(e) \/ Stores(e) \/ FailsToEmbed(e)
  PROVE  Types' /\ Seen'
<1>1. UNCHANGED <<items, edits, searching, setting>>
  BY DEF Embeds, Stores, FailsToEmbed
<1>2. embedding' \in [Embedder -> Seq(Read)]
  <2>1. embedding' = [embedding EXCEPT ![e] = Batch] \/ embedding' = [embedding EXCEPT ![e] = <<>>]
    BY DEF Embeds, Stores, FailsToEmbed
  <2>2. Batch \in Seq(Read) /\ <<>> \in Seq(Read) /\ embedding \in [Embedder -> Seq(Read)]
    BY BatchIs DEF Types
  <2>. QED BY <2>1, <2>2
<1>3. VectorsTyped'
  <2>1. CASE Stores(e)
    <3>1. embedding[e] \in Seq(Read) /\ VectorsTyped
      BY DEF Types
    <3>. QED BY <2>1, <3>1, StoredIs DEF Stores
  <2>2. CASE vectors' = vectors
    BY <2>2 DEF Types, VectorsTyped, NoVector
  <2>. QED BY <2>1, <2>2 DEF Embeds, FailsToEmbed, derived
<1>. QED BY <1>1, <1>2, <1>3, QuietKeeps

\* A query's own steps.
LEMMA SessionKeeps ==
  ASSUME Types, Seen, NEW s \in Searcher, NEW session \in Session,
         searching' = [searching EXCEPT ![s] = session],
         session.phase # "idle" =>
           /\ session.query \in Query /\ LiveTexts(items) \subseteq session.live
           /\ session.keyword \in Seq(HitsOf(session.live)),
         UNCHANGED <<items, edits, embedding, setting>>, VectorsTyped'
  PROVE  Types' /\ Seen'
<1>1. searching \in [Searcher -> Session]
  BY DEF Types
<1>2. searching' \in [Searcher -> Session]
  BY <1>1
<1>3. \A r \in Searcher : searching'[r] = IF r = s THEN session ELSE searching[r]
  BY <1>1
<1>4. Seen'
  BY <1>3 DEF Seen, LiveTexts
<1>5. Types'
  BY <1>2 DEF Types
<1>. QED BY <1>4, <1>5

\* The keyword hits of a query are of what is live as it asks.
LEMMA KeywordIs ==
  ASSUME Types, NEW q \in Query, NEW T, LiveTexts(items) \subseteq T
  PROVE  Keyword(q) \in Seq(HitsOf(T))
<1>1. items \in Memory /\ 2 * SearchLimit \in Nat
  BY RetrievalAssumption DEF Types
<1>. QED BY <1>1, SearchIs DEF Keyword

\* Hits are records of items, texts and scores.
LEMMA HitsAreTyped == \A T : Seq(HitsOf(T)) \subseteq Seq([id : Id, text : Text, score : Int])
<1>1. \A T : HitsOf(T) \subseteq [id : Id, text : Text, score : Int]
  BY DEF HitsOf
<1>2. ASSUME NEW S, NEW T, S \subseteq T
      PROVE  Seq(S) \subseteq Seq(T)
  BY <1>2
<1>. QED BY <1>1, <1>2

\* A query asks, is filled after its await, and is answered.
LEMMA SearcherKeeps ==
  ASSUME Types, Seen, NEW s \in Searcher,
         (\E q \in setting.queries : Asks(s, q)) \/ Fills(s) \/ Answers(s)
  PROVE  Types' /\ Seen'
<1>1. UNCHANGED <<items, edits, embedding, setting>>
  BY DEF Asks, Fills, Answers
<1>2. VectorsTyped
  BY DEF Types
<1>3. CASE \E q \in setting.queries : Asks(s, q)
  <2>1. PICK q \in setting.queries : Asks(s, q)
    BY <1>3
  <2> DEFINE session ==
        [phase |-> IF Batch = <<>> THEN "ranking" ELSE "filling", query |-> q, batch |-> Batch,
         keyword |-> IF Batch = <<>> THEN Keyword(q) ELSE <<>>, live |-> LiveTexts(items)]
  <2>2. q \in Query
    BY SettingIs
  <2>3. Keyword(q) \in Seq(HitsOf(LiveTexts(items))) /\ LiveTexts(items) \in SUBSET (Id \X Text)
    <3>1. items \in Memory
      BY DEF Types
    <3>. QED BY <2>2, <3>1, KeywordIs, LiveTextsAre
  <2>4. /\ session.keyword \in Seq(HitsOf(LiveTexts(items)))
        /\ session.keyword \in Seq([id : Id, text : Text, score : Int])
    <3>1. session.keyword \in Seq(HitsOf(LiveTexts(items)))
      BY <2>3
    <3>. QED BY <3>1, HitsAreTyped
  <2>5. session \in Session
    BY <2>2, <2>3, <2>4, BatchIs DEF Session
  <2>6. searching' = [searching EXCEPT ![s] = session] /\ vectors' = vectors
    BY <2>1 DEF Asks, derived
  <2>7. VectorsTyped'
    BY <1>2, <2>6 DEF VectorsTyped, NoVector
  <2>8. session.query \in Query /\ session.live = LiveTexts(items)
    BY <2>2
  <2>. HIDE DEF session
  <2>. QED BY <1>1, <2>4, <2>5, <2>6, <2>7, <2>8, SessionKeeps
<1>4. CASE Fills(s)
  <2> DEFINE old == searching[s]
             session == [old EXCEPT !.phase = "ranking", !.batch = <<>>, !.keyword = Keyword(old.query)]
  <2>1. old \in Session /\ searching \in [Searcher -> Session]
    BY DEF Types
  <2>2. /\ old.phase # "idle" /\ old.query \in Query /\ LiveTexts(items) \subseteq old.live
        /\ old.batch \in Seq(Read)
    BY <1>4, <2>1 DEF Fills, Seen, Session
  <2>3. Keyword(old.query) \in Seq(HitsOf(old.live))
    <3>. HIDE DEF old
    <3>. QED BY <2>2, KeywordIs
  <2>4. Keyword(old.query) \in Seq([id : Id, text : Text, score : Int])
    BY <2>3, HitsAreTyped
  <2>5. searching' = [searching EXCEPT ![s] = session]
    BY <1>4, <2>1 DEF Fills
  <2>6. VectorsTyped'
    BY <1>2, <1>4, <2>2, StoredIs DEF Fills
  <2>7. /\ session \in Session /\ session.live = old.live /\ session.query = old.query
        /\ session.keyword = Keyword(old.query)
    <3> DEFINE words == Keyword(old.query)
    <3>1. words \in Seq([id : Id, text : Text, score : Int]) /\ <<>> \in Seq(Read)
      BY <2>4
    <3>. HIDE DEF old, words
    <3>2. old \in Session
      BY <2>1
    <3>3. [old EXCEPT !.phase = "ranking", !.batch = <<>>, !.keyword = words] \in Session
      BY <3>1, <3>2 DEF Session
    <3>4. /\ [old EXCEPT !.phase = "ranking", !.batch = <<>>, !.keyword = words].live = old.live
          /\ [old EXCEPT !.phase = "ranking", !.batch = <<>>, !.keyword = words].query = old.query
          /\ [old EXCEPT !.phase = "ranking", !.batch = <<>>, !.keyword = words].keyword = words
      BY <3>2 DEF Session
    <3>. QED BY <3>3, <3>4 DEF words
  <2>. HIDE DEF session, old
  <2>. QED BY <1>1, <2>2, <2>3, <2>5, <2>6, <2>7, SessionKeeps
<1>5. CASE Answers(s)
  <2>1. Idle \in Session /\ Idle.phase = "idle"
    BY DEF Idle, Session
  <2>2. searching' = [searching EXCEPT ![s] = Idle] /\ vectors' = vectors
    BY <1>5 DEF Answers, derived
  <2>3. VectorsTyped'
    BY <1>2, <2>2 DEF VectorsTyped, NoVector
  <2>. QED BY <1>1, <2>1, <2>2, <2>3, SessionKeeps
<1>. QED BY <1>3, <1>4, <1>5

-----------------------------------------------------------------------------
(* Conflicts.                                                              *)

\* A pair is its two ends.
LEMMA PairIs ==
  ASSUME NEW pair \in SUBSET Id, Cardinality(pair) = 2
  PROVE  /\ Min(pair) \in pair /\ Max(pair) \in pair /\ pair = {Min(pair), Max(pair)}
         /\ Min(pair) \in Id /\ Max(pair) \in Id
<1>1. IsFiniteSet(pair) /\ pair \in SUBSET Int
  BY IdsAreFinite
<1>2. pair # {}
  BY FS_EmptySet
<1>3. /\ Min(pair) \in pair /\ \A n \in pair : Min(pair) <= n
      /\ Max(pair) \in pair /\ \A n \in pair : n <= Max(pair)
  BY <1>1, <1>2, MinIsLeast, MaxIsGreatest
<1> DEFINE a == Min(pair)
<1>4. IsFiniteSet(pair \ {a}) /\ Cardinality(pair \ {a}) = 1
  <2>1. Cardinality(pair \ {a}) = 2 - 1
    BY <1>1, <1>3, FS_RemoveElement
  <2>. QED BY <1>1, <2>1, FS_RemoveElement
<1>5. PICK b : pair \ {a} = {b}
  BY <1>4, FS_Singleton
<1>6. Max(pair) = b
  <2>1. b \in pair /\ b # a /\ a \in pair
    BY <1>3, <1>5
  <2>2. b \in Int /\ a \in Int /\ Max(pair) \in Int /\ a <= b /\ b <= Max(pair)
    BY <1>1, <1>3, <2>1
  <2>3. Max(pair) \in {a, b}
    BY <1>3, <1>5
  <2>. QED BY <2>1, <2>2, <2>3
<1>. QED BY <1>3, <1>5, <1>6

\* Of the conflicting pairs the strength and the ends make a ranking.
LEMMA StrengthRanks ==
  ASSUME NEW m \in Memory
  PROVE  Ranks(ByStrength(m, Conflicting(m)), Conflicting(m))
<1> DEFINE S == Conflicting(m)
           order == ByStrength(m, S)
<1>1. \A p \in S : p \in SUBSET Id /\ Cardinality(p) = 2
  BY DEF Conflicting, Candidates
<1>2. \A p \in S : /\ Min(p) \in Int /\ Max(p) \in Int /\ Strength(m, p) \in Int
                   /\ p = {Min(p), Max(p)}
  <2>. TAKE p \in S
  <2>1. Min(p) \in Id /\ Max(p) \in Id /\ p = {Min(p), Max(p)}
    BY <1>1, PairIs
  <2>2. Min(p) \in Int /\ Max(p) \in Int
    BY <2>1, IdsAreFinite
  <2>3. m[Min(p)].text \in Text /\ m[Max(p)].text \in Text
    BY <2>1 DEF Memory, Item
  <2>4. Strength(m, p) \in Int
    BY <2>3, RetrievalAssumption DEF Strength
  <2>. QED BY <2>1, <2>2, <2>4
<1>3. \A p, r \in S : <<p, r>> \in order
        <=> \/ Strength(m, p) > Strength(m, r)
            \/ /\ Strength(m, p) = Strength(m, r)
               /\ Min(p) < Min(r) \/ (Min(p) = Min(r) /\ Max(p) < Max(r))
  BY DEF ByStrength
<1>. HIDE DEF S, order
<1>4. ASSUME NEW p \in S, NEW r \in S, p # r
      PROVE  <<p, r>> \in order <=> <<r, p>> \notin order
  <2>1. Min(p) # Min(r) \/ Max(p) # Max(r)
    BY <1>2, <1>4
  <2>. QED BY <1>2, <1>3, <2>1
<1>5. ASSUME NEW p \in S, NEW r \in S, NEW q \in S, <<p, r>> \in order, <<r, q>> \in order
      PROVE  <<p, q>> \in order
  BY <1>2, <1>3, <1>5
<1>6. Ranks(order, S)
  BY <1>4, <1>5 DEF Ranks
<1>. QED BY <1>6 DEF order, S

\* A memory has finitely many conflicting pairs.
LEMMA ConflictsAreFinite ==
  ASSUME NEW m \in Memory
  PROVE  Conflicting(m) \in SUBSET (SUBSET Id) /\ IsFiniteSet(Conflicting(m))
<1>1. Conflicting(m) \in SUBSET (SUBSET Id)
  BY DEF Conflicting, Candidates
<1>2. IsFiniteSet(SUBSET Id)
  BY IdsAreFinite, FS_SUBSET
<1>. QED BY <1>1, <1>2, FS_Subset

\* Detection lists conflicting pairs, each once, all of them or as many as asked for.
LEMMA DetectionIs ==
  ASSUME NEW m \in Memory, NEW max \in Nat
  PROVE  LET found == detectConflicts(m, max)
         IN /\ found \in Seq(Conflicting(m))
            /\ \A k, n \in DOMAIN found : found[k] = found[n] => k = n
            /\ ToSet(found) = Conflicting(m) \/ Len(found) = max
<1> DEFINE S == Conflicting(m)
           order == ByStrength(m, S)
           all == InOrder(S, order)
           found == Firsts(all, max)
<1>1. IsFiniteSet(S) /\ Ranks(order, S)
  BY ConflictsAreFinite, StrengthRanks
<1>2. detectConflicts(m, max) = found
  BY DEF detectConflicts
<1>. HIDE DEF S, order
<1>3. /\ all \in Seq(S) /\ ToSet(all) = S
      /\ \A k, n \in DOMAIN all : all[k] = all[n] => k = n
  BY <1>1, InOrderIs
<1>. HIDE DEF all
<1>4. /\ found \in Seq(S)
      /\ Len(found) = IF max < Len(all) THEN max ELSE Len(all)
      /\ \A k \in DOMAIN found : k \in DOMAIN all /\ found[k] = all[k]
      /\ Len(all) <= max => found = all
  BY <1>3, FirstsIs
<1>5. Len(all) \in Nat
  BY <1>3
<1>. HIDE DEF found
<1>6. \A k, n \in DOMAIN found : found[k] = found[n] => k = n
  BY <1>3, <1>4
<1>7. ToSet(found) = S \/ Len(found) = max
  BY <1>3, <1>4, <1>5
<1>. QED BY <1>2, <1>4, <1>6, <1>7 DEF S

\* Leaving out what was reviewed is exact: what is left are the open pairs, each as
\* often as before.
LEMMA UnreviewedIs ==
  ASSUME NEW m \in Memory, NEW S, NEW pairs \in Seq(S), NEW reviewed
  PROVE  LET open == {p \in ToSet(pairs) : p \notin DOMAIN reviewed \/ reviewed[p] # pairFingerprint(m, p)}
             left == withoutReviewed(m, pairs, reviewed)
         IN /\ left \in Seq(S) /\ ToSet(left) = open
            /\ Len(left) = Cardinality({n \in DOMAIN pairs : pairs[n] \in open})
<1> DEFINE open == {p \in ToSet(pairs) : p \notin DOMAIN reviewed \/ reviewed[p] # pairFingerprint(m, p)}
<1>1. open \subseteq ToSet(pairs)
  OBVIOUS
<1>2. withoutReviewed(m, pairs, reviewed) = Those(pairs, open)
  BY DEF withoutReviewed
<1>. HIDE DEF open
<1>3. /\ Those(pairs, open) \in Seq(S)
      /\ Len(Those(pairs, open)) = Cardinality({n \in DOMAIN pairs : pairs[n] \in open})
      /\ ToSet(Those(pairs, open)) = ToSet(pairs) \cap open
  BY ThoseIs
<1>. QED BY <1>1, <1>2, <1>3 DEF open

\* The pairs that are kept quiet, among the detected, are no more than the reviews.
LEMMA QuietAreFew ==
  ASSUME NEW S, NEW pairs \in Seq(S), \A k, n \in DOMAIN pairs : pairs[k] = pairs[n] => k = n,
         NEW reviewed, IsFiniteSet(DOMAIN reviewed),
         NEW open, \A p \in ToSet(pairs) \ open : p \in DOMAIN reviewed
  PROVE  /\ Cardinality({n \in DOMAIN pairs : pairs[n] \in open}) \in Nat
         /\ Len(pairs) <= Cardinality({n \in DOMAIN pairs : pairs[n] \in open})
                            + Cardinality(DOMAIN reviewed)
<1> DEFINE All == DOMAIN pairs
           Open == {n \in All : pairs[n] \in open}
           Quiet == {n \in All : pairs[n] \notin open}
<1>1. All = 1 .. Len(pairs) /\ Len(pairs) \in Nat
  OBVIOUS
<1>2. IsFiniteSet(All) /\ Cardinality(All) = Len(pairs)
  BY <1>1, FS_Interval
<1>3. Open \in SUBSET All /\ Quiet \in SUBSET All /\ Open \cup Quiet = All /\ Open \cap Quiet = {}
  OBVIOUS
<1>4. [n \in Quiet |-> pairs[n]] \in Injection(Quiet, DOMAIN reviewed)
  <2>1. \A n \in Quiet : pairs[n] \in DOMAIN reviewed
    BY DEF ToSet
  <2>2. \A k, n \in Quiet : pairs[k] = pairs[n] => k = n
    OBVIOUS
  <2> DEFINE f == [n \in Quiet |-> pairs[n]]
  <2>. HIDE DEF Quiet
  <2>3. f \in [Quiet -> DOMAIN reviewed] /\ \A k, n \in Quiet : f[k] = f[n] => k = n
    BY <2>1, <2>2
  <2>. HIDE DEF f
  <2>4. f \in Injection(Quiet, DOMAIN reviewed)
    BY <2>3 DEF Injection, IsInjective
  <2>. QED BY <2>4 DEF f
<1>. HIDE DEF All, Open, Quiet
<1>5. IsFiniteSet(Open) /\ IsFiniteSet(Quiet)
  BY <1>2, <1>3, FS_Subset
<1>6. Cardinality(Quiet) <= Cardinality(DOMAIN reviewed)
  BY <1>4, FS_Injection
<1>7. Cardinality(All) = Cardinality(Open) + Cardinality(Quiet)
  <2>1. Cardinality(All) = Cardinality(Open) + Cardinality(Quiet) - Cardinality({})
    <3>1. Cardinality(Open \cup Quiet)
            = Cardinality(Open) + Cardinality(Quiet) - Cardinality(Open \cap Quiet)
      BY <1>5, FS_Union
    <3>. QED BY <1>3, <3>1
  <2>2. Cardinality(Open) \in Nat /\ Cardinality(Quiet) \in Nat /\ Cardinality({}) = 0
    BY <1>5, FS_CardinalityType, FS_EmptySet
  <2>. QED BY <2>1, <2>2
<1>8. Cardinality(Open) \in Nat /\ Cardinality(Quiet) \in Nat /\ Cardinality(DOMAIN reviewed) \in Nat
  BY <1>5, FS_CardinalityType
<1>. QED BY <1>2, <1>6, <1>7, <1>8 DEF Open, All

\* The inductive invariant behind QuietMeansJudged: every review kept is of a judgement
\* somebody made, on that fingerprint.
Reviewed ==
  /\ DOMAIN reviews \in SUBSET (SUBSET Id)
  /\ \A p \in DOMAIN reviews : <<p, reviews[p]>> \in judged
  /\ judging = [w \in Judge |-> judging[w]]
  /\ \A w \in Judge : DOMAIN judging[w] \in SUBSET (SUBSET Id)

\* There are finitely many reviews.
LEMMA ReviewsAreFinite ==
  ASSUME Reviewed
  PROVE  IsFiniteSet(DOMAIN reviews) /\ Cardinality(DOMAIN reviews) \in Nat
<1>1. IsFiniteSet(SUBSET Id)
  BY IdsAreFinite, FS_SUBSET
<1>2. IsFiniteSet(DOMAIN reviews)
  BY <1>1, FS_Subset DEF Reviewed
<1>. QED BY <1>2, FS_CardinalityType

\* What is listed are conflicting pairs.
LEMMA OpenPairsAre ==
  ASSUME Types, Reviewed, NEW max \in Nat
  PROVE  OpenPairs(items, reviews, max) \in Seq(SUBSET Id)
<1> DEFINE found == detectConflicts(items, max + Cardinality(DOMAIN reviews))
<1>1. items \in Memory /\ max + Cardinality(DOMAIN reviews) \in Nat
  BY ReviewsAreFinite DEF Types
<1>2. found \in Seq(Conflicting(items))
  BY <1>1, DetectionIs
<1>3. found \in Seq(SUBSET Id)
  <2>1. Conflicting(items) \in SUBSET (SUBSET Id)
    BY <1>1, ConflictsAreFinite
  <2>. HIDE DEF found
  <2>. QED BY <1>2, <2>1
<1>4. OpenPairs(items, reviews, max) = Firsts(withoutReviewed(items, found, reviews), max)
  BY DEF OpenPairs
<1>. HIDE DEF found
<1>5. withoutReviewed(items, found, reviews) \in Seq(SUBSET Id)
  BY <1>1, <1>3, UnreviewedIs
<1>. QED BY <1>4, <1>5, FirstsIs

\* Whatever the model resolves leaves a memory.
LEMMA ResolutionsAre ==
  ASSUME Types, NEW asked, DOMAIN asked \in SUBSET (SUBSET Id)
  PROVE  Resolutions(asked) \in SUBSET Memory
<1>1. UNION DOMAIN asked \subseteq Id
  OBVIOUS
<1>2. items \in Memory
  BY DEF Types
<1>3. \A i \in UNION DOMAIN asked : \A t \in Text : Updated(i, [items[i] EXCEPT !.text = t]) \in Memory
  BY <1>1, EditedIs, UpdatedIs
<1>4. \A i \in UNION DOMAIN asked : Updated(i, [items[i] EXCEPT !.status = "retired"]) \in Memory
  BY <1>1, EditedIs, UpdatedIs
<1>5. ASSUME NEW next \in Resolutions(asked)
      PROVE  next \in Memory
  <2>1. \/ next = items
        \/ \E i \in UNION DOMAIN asked, t \in Text : next = Updated(i, [items[i] EXCEPT !.text = t])
        \/ \E i \in UNION DOMAIN asked : next = Updated(i, [items[i] EXCEPT !.status = "retired"])
    <3>. HIDE DEF Types
    <3>. QED BY DEF Resolutions
  <2>. QED BY <1>2, <1>3, <1>4, <2>1
<1>. QED BY <1>5

\* The judge's steps as far as memory and the sessions go.
LEMMA JudgeKeeps ==
  ASSUME Types, Seen, Reviewed, NEW w \in Judge, StartsJudging(w) \/ Judges(w) \/ FailsToJudge(w)
  PROVE  Types' /\ Seen'
<1>1. CASE Judges(w)
  <2>1. UNCHANGED <<vectors, embedding, setting>>
    BY <1>1 DEF Judges
  <2>2. PICK next \in Resolutions(judging[w]) :
          IF next = items THEN UNCHANGED <<items, edits, searching>> ELSE Becomes(next)
    BY <1>1 DEF Judges
  <2>3. next \in Memory
    BY <2>2, ResolutionsAre DEF Reviewed
  <2>4. CASE next = items
    <3>1. VectorsTyped' /\ embedding' \in [Embedder -> Seq(Read)]
      BY <2>1 DEF Types, VectorsTyped, NoVector
    <3>. QED BY <2>1, <2>2, <2>4, <3>1, QuietKeeps
  <2>5. CASE next # items
    BY <2>1, <2>2, <2>3, <2>5, WriteKeeps
  <2>. QED BY <2>4, <2>5
<1>2. CASE StartsJudging(w) \/ FailsToJudge(w)
  <2>1. UNCHANGED <<items, edits, vectors, searching, embedding, setting>>
    BY <1>2 DEF StartsJudging, FailsToJudge, derived
  <2>2. VectorsTyped' /\ embedding' \in [Embedder -> Seq(Read)]
    BY <2>1 DEF Types, VectorsTyped, NoVector
  <2>. QED BY <2>1, <2>2, QuietKeeps
<1>. QED BY <1>1, <1>2

\* A review comes with its judgement: none is made of anything else.
LEMMA ReviewedKept ==
  ASSUME Types, Reviewed, [Next]_vars
  PROVE  Reviewed'
<1>1. CASE UNCHANGED <<derived, judging>>
  BY <1>1 DEF Reviewed, derived
<1>2. ASSUME NEW w \in Judge, StartsJudging(w)
      PROVE  Reviewed'
  <2>1. judging' = [judging EXCEPT ![w] = AsRead(OpenPairs(items, reviews, JudgedPairs))]
    BY <1>2 DEF StartsJudging
  <2>2. OpenPairs(items, reviews, JudgedPairs) \in Seq(SUBSET Id)
    BY DerivedAssumption, OpenPairsAre
  <2>3. DOMAIN AsRead(OpenPairs(items, reviews, JudgedPairs)) \in SUBSET (SUBSET Id)
    BY <2>2 DEF AsRead, ToSet
  <2>4. reviews' = reviews /\ judged' = judged
    BY <1>2 DEF StartsJudging, derived
  <2>. QED BY <2>1, <2>3, <2>4 DEF Reviewed
<1>3. ASSUME NEW w \in Judge, Judges(w)
      PROVE  Reviewed'
  <2>1. reviews' = Over(judging[w], reviews)
    BY <1>3 DEF Judges, markConflictsReviewed
  <2>2. /\ DOMAIN reviews' = DOMAIN judging[w] \cup DOMAIN reviews
        /\ \A p \in DOMAIN reviews' :
             reviews'[p] = IF p \in DOMAIN judging[w] THEN judging[w][p] ELSE reviews[p]
    BY <2>1 DEF Over
  <2>3. judged' = judged \cup {<<p, judging[w][p]>> : p \in DOMAIN judging[w]}
    BY <1>3 DEF Judges
  <2>4. judging' = [judging EXCEPT ![w] = Nothing] /\ DOMAIN Nothing = {}
    BY <1>3 DEF Judges, Nothing
  <2>5. judging' = [v \in Judge |-> judging'[v]] /\ \A v \in Judge : DOMAIN judging'[v] \in SUBSET (SUBSET Id)
    BY <2>4 DEF Reviewed
  <2>6. \A p \in DOMAIN reviews' : <<p, reviews'[p]>> \in judged'
    BY <2>2, <2>3 DEF Reviewed
  <2>7. DOMAIN reviews' \in SUBSET (SUBSET Id)
    BY <2>2 DEF Reviewed
  <2>. QED BY <2>5, <2>6, <2>7 DEF Reviewed
<1>4. ASSUME NEW w \in Judge, FailsToJudge(w)
      PROVE  Reviewed'
  <2>1. /\ judging' = [judging EXCEPT ![w] = Nothing] /\ DOMAIN Nothing = {}
        /\ reviews' = reviews /\ judged' = judged
    BY <1>4 DEF FailsToJudge, Nothing, derived
  <2>. QED BY <2>1 DEF Reviewed
<1>5. ASSUME NEW p \in SUBSET Id, dismissConflict(p)
      PROVE  Reviewed'
  <2>1. reviews' = Over([r \in {p} |-> pairFingerprint(items, p)], reviews)
    BY <1>5 DEF dismissConflict
  <2>2. /\ DOMAIN reviews' = {p} \cup DOMAIN reviews
        /\ \A r \in DOMAIN reviews' :
             reviews'[r] = IF r = p THEN pairFingerprint(items, p) ELSE reviews[r]
    BY <2>1 DEF Over
  <2>3. judged' = judged \cup {<<p, pairFingerprint(items, p)>>} /\ judging' = judging
    BY <1>5 DEF dismissConflict, actors
  <2>. QED BY <2>2, <2>3 DEF Reviewed
<1>6. CASE clearConflictReviews
  <2>1. reviews' = <<>> /\ DOMAIN reviews' = {} /\ judging' = judging
    BY <1>6 DEF clearConflictReviews, actors
  <2>. QED BY <2>1 DEF Reviewed
<1>7. ASSUME NEW i \in Id, (\E t \in Text : Rewrites(i, t)) \/ RetiresItem(i) \/ Closes(i) \/ Ages(i)
      PROVE  UNCHANGED <<reviews, judged, judging>>
  BY <1>7 DEF Rewrites, RetiresItem, Closes, Ages, derived
<1>8. ASSUME NEW e \in Embedder, Embeds(e) \/ Stores(e) \/ FailsToEmbed(e)
      PROVE  UNCHANGED <<reviews, judged, judging>>
  BY <1>8 DEF Embeds, Stores, FailsToEmbed, derived
<1>9. ASSUME NEW s \in Searcher, (\E q \in setting.queries : Asks(s, q)) \/ Fills(s) \/ Answers(s)
      PROVE  UNCHANGED <<reviews, judged, judging>>
  BY <1>9 DEF Asks, Fills, Answers, derived
<1>10. CASE UNCHANGED <<reviews, judged, judging>>
  BY <1>10 DEF Reviewed
<1>11. CASE UNCHANGED vars
  BY <1>10, <1>11 DEF vars
<1>. QED BY <1>2, <1>3, <1>4, <1>5, <1>6, <1>7, <1>8, <1>9, <1>10, <1>11 DEF Next

\* The inductive invariant of Derived.
DerivedInv == Types /\ Seen /\ Reviewed

\* The whole invariant holds at first.
LEMMA DerivedInit == Init => DerivedInv
<1>1. ASSUME Init PROVE Reviewed
  <2>1. reviews = <<>> /\ DOMAIN reviews = {} /\ judging = [w \in Judge |-> Nothing] /\ DOMAIN Nothing = {}
    BY <1>1 DEF Init, Nothing
  <2>. QED BY <2>1 DEF Reviewed
<1>. QED BY <1>1, TypesInit DEF DerivedInv

\* Every step keeps it.
LEMMA DerivedStep == DerivedInv /\ [Next]_vars => DerivedInv'
<1>. SUFFICES ASSUME Types, Seen, Reviewed, [Next]_vars
              PROVE  Types' /\ Seen' /\ Reviewed'
  BY DEF DerivedInv
<1>1. Reviewed'
  BY ReviewedKept
<1>2. CASE UNCHANGED <<items, edits, vectors, searching, embedding, setting>>
  <2>1. VectorsTyped' /\ embedding' \in [Embedder -> Seq(Read)]
    BY <1>2 DEF Types, VectorsTyped, NoVector
  <2>. QED BY <1>1, <1>2, <2>1, QuietKeeps
<1>3. ASSUME NEW p \in SUBSET Id, dismissConflict(p)
      PROVE  UNCHANGED <<items, edits, vectors, searching, embedding, setting>>
  BY <1>3 DEF dismissConflict, actors
<1>4. ASSUME clearConflictReviews
      PROVE  UNCHANGED <<items, edits, vectors, searching, embedding, setting>>
  BY <1>4 DEF clearConflictReviews, actors
<1>5. ASSUME UNCHANGED vars
      PROVE  UNCHANGED <<items, edits, vectors, searching, embedding, setting>>
  BY <1>5 DEF vars
<1>6. Next => Types' /\ Seen'
  BY <1>2, <1>3, <1>4, EditKeeps, EmbedderKeeps, SearcherKeeps, JudgeKeeps DEF Next
<1>. QED BY <1>1, <1>2, <1>5, <1>6

\* Across every await of an embedder, a query and a judge: memory and the index stay
\* well
\* formed, what is live is among what a waiting query has seen, and every review stored
\* is a judgement that was made.  The next three theorems rest on it.
THEOREM DerivedInvariant == Spec => []DerivedInv
<1>1. Init => DerivedInv
  BY DerivedInit
<1>2. DerivedInv /\ [Next]_vars => DerivedInv'
  BY DerivedStep
<1>. QED BY <1>1, <1>2, PTL DEF Spec

\* FindsWhatWasLive: a hit is read live, or was when the words were matched.
LEMMA FindsIs == DerivedInv => FindsWhatWasLive
<1>. SUFFICES ASSUME Types, Seen, NEW s \in Searcher, searching[s].phase # "idle",
                     NEW hits \in Found(s), NEW n \in DOMAIN hits
              PROVE  <<hits[n].id, hits[n].text>> \in searching[s].live
  BY DEF DerivedInv, FindsWhatWasLive
<1> DEFINE q == searching[s].query
           T == searching[s].live
<1>1. items \in Memory /\ VectorsTyped
  BY DEF Types
<1>2. q \in Query /\ LiveTexts(items) \subseteq T /\ searching[s].keyword \in Seq(HitsOf(T))
  BY DEF Seen
<1>3. SearchLimit \in Nat /\ 2 * SearchLimit \in Nat
  BY RetrievalAssumption
<1>4. hits \in Seq(HitsOf(T))
  <2>1. CASE searching[s].phase = "filling"
    <3>1. hits = expand(items, search(items, q, SearchLimit), SearchLimit)
      BY <2>1 DEF Found, forQuery
    <3>. HIDE DEF q, T
    <3>2. search(items, q, SearchLimit) \in Seq(HitsOf(T))
      BY <1>1, <1>2, <1>3, SearchIs
    <3>. QED BY <1>1, <1>2, <1>3, <3>1, <3>2, ExpandIs
  <2>2. CASE searching[s].phase # "filling"
    <3>1. PICK semantic \in {<<>>, rank(items, vectors, q, 2 * SearchLimit)} :
            hits = searchHybrid(items, searching[s].keyword, semantic, q)
      BY <2>2 DEF Found
    <3>. HIDE DEF q, T
    <3>2. rank(items, vectors, q, 2 * SearchLimit) \in Seq(Id)
      BY <1>1, <1>2, <1>3, RankIs
    <3>3. semantic \in Seq(Id)
      <4>1. <<>> \in Seq(Id)
        OBVIOUS
      <4>. QED BY <3>1, <3>2, <4>1
    <3>. QED BY <1>1, <1>2, <3>1, <3>3, HybridIs
  <2>. QED BY <2>1, <2>2
<1>5. hits[n] \in HitsOf(T)
  BY <1>4
<1>. QED BY <1>5 DEF HitsOf

\* Whatever a query finds was live, and said that, while the query ran: for every number of
\* sessions, embedders and judges, every memory, graph and limit (searchHybrid, expand and
\* rank, store/retrieval.ts and embeddings.ts).
THEOREM FindsOnlyLive == Spec => []FindsWhatWasLive
BY DerivedInvariant, FindsIs, PTL

\* QuietMeansJudged: as many more pairs are detected as were reviewed, so a list that is
\* not full holds every pair that was not.
LEMMA QuietIs == DerivedInv => QuietMeansJudged
<1> DEFINE K == Cardinality(DOMAIN reviews)
           found == detectConflicts(items, ListedPairs + K)
           left == withoutReviewed(items, found, reviews)
           open == Firsts(left, ListedPairs)
           O == {p \in ToSet(found) : p \notin DOMAIN reviews \/ reviews[p] # pairFingerprint(items, p)}
           U == Cardinality({n \in DOMAIN found : found[n] \in O})
<1>0. OpenPairs(items, reviews, ListedPairs) = open
  BY DEF OpenPairs
<1>. SUFFICES ASSUME Types, Reviewed, NEW pair \in Conflicting(items),
                     pair \notin ToSet(open), Len(open) # ListedPairs
              PROVE  <<pair, pairFingerprint(items, pair)>> \in judged
  <2>. HIDE DEF open
  <2>. QED BY <1>0 DEF DerivedInv, QuietMeansJudged
<1>1. items \in Memory /\ K \in Nat /\ ListedPairs \in Nat /\ IsFiniteSet(DOMAIN reviews)
  BY ReviewsAreFinite, DerivedAssumption DEF Types
<1>. HIDE DEF K
<1>2. /\ found \in Seq(Conflicting(items))
      /\ \A k, n \in DOMAIN found : found[k] = found[n] => k = n
      /\ ToSet(found) = Conflicting(items) \/ Len(found) = ListedPairs + K
  <2>1. ListedPairs + K \in Nat
    BY <1>1
  <2>. QED BY <1>1, <2>1, DetectionIs
<1>. HIDE DEF found
<1>3. left \in Seq(Conflicting(items)) /\ ToSet(left) = O /\ Len(left) = U
  BY <1>1, <1>2, UnreviewedIs
<1>4. \A p \in ToSet(found) \ O : p \in DOMAIN reviews /\ reviews[p] = pairFingerprint(items, p)
  OBVIOUS
<1>. HIDE DEF left, O
<1>5. /\ Len(open) = IF ListedPairs < Len(left) THEN ListedPairs ELSE Len(left)
      /\ Len(left) <= ListedPairs => open = left
  BY <1>1, <1>3, FirstsIs
<1>6. U \in Nat /\ Len(found) <= U + K
  BY <1>1, <1>2, <1>4, QuietAreFew DEF K
<1>. HIDE DEF U, open
<1>7. U < ListedPairs /\ open = left
  BY <1>1, <1>3, <1>5, <1>6
<1>8. Len(found) \in Nat
  BY <1>2
<1>9. ToSet(found) = Conflicting(items)
  BY <1>1, <1>2, <1>6, <1>7, <1>8
<1>10. pair \in ToSet(found) \ O
  BY <1>3, <1>7, <1>9
<1>11. pair \in DOMAIN reviews /\ reviews[pair] = pairFingerprint(items, pair)
  BY <1>4, <1>10
<1>. QED BY <1>11 DEF Reviewed

\* A pair is kept quiet only when somebody judged it as it reads now: for every number of
\* judges and sessions, every memory and every cap (selectBatch, runOnce and conflicts,
\* daemon/manager.ts).
THEOREM QuietPairsWereJudged == Spec => []QuietMeansJudged
BY DerivedInvariant, QuietIs, PTL

-----------------------------------------------------------------------------
(* Recursion over a sequence.                                              *)

\* What holds at the start, and of each position after the one before, holds of all.
LEMMA UpTo ==
  ASSUME NEW N \in Nat, NEW Good \in SUBSET (0 .. N), 0 \in Good,
         \A n \in 1 .. N : n - 1 \in Good => n \in Good
  PROVE  Good = 0 .. N
<1> DEFINE Bad == (0 .. N) \ Good
<1>1. CASE Bad = {}
  BY <1>1
<1>2. CASE Bad # {}
  <2>1. Bad \in SUBSET Nat
    OBVIOUS
  <2>2. PICK n \in Bad : \A k \in Bad : n <= k
    <3>. HIDE DEF Bad
    <3>. QED BY <1>2, <2>1, Least
  <2>3. n \in 1 .. N /\ n - 1 \in 0 .. N
    BY <2>2
  <2>4. n - 1 \in Good
    BY <2>2, <2>3
  <2>. QED BY <2>2, <2>3, <2>4
<1>. QED BY <1>1, <1>2

\* A state for each position, made by F from the one before.
Runs(F, S, start, N) ==
  \E f \in [0 .. N -> S] : f[0] = start /\ \A n \in 1 .. N : f[n] = F[n][f[n - 1]]

\* A start and what each position does to a state define the states in between.
LEMMA RecursionExists ==
  ASSUME NEW N \in Nat, NEW S, NEW start \in S, NEW F \in [1 .. N -> [S -> S]]
  PROVE  Runs(F, S, start, N)
<1> DEFINE Good == {k \in 0 .. N : Runs(F, S, start, k)}
<1>1. 0 \in Good
  <2> DEFINE f == [n \in 0 .. 0 |-> start]
  <2>1. f \in [0 .. 0 -> S] /\ f[0] = start /\ \A n \in 1 .. 0 : f[n] = F[n][f[n - 1]]
    OBVIOUS
  <2>. HIDE DEF f
  <2>2. Runs(F, S, start, 0)
    BY <2>1 DEF Runs
  <2>. QED BY <2>2
<1>2. ASSUME NEW n \in 1 .. N, n - 1 \in Good
      PROVE  n \in Good
  <2>1. PICK f \in [0 .. (n - 1) -> S] :
          f[0] = start /\ \A k \in 1 .. (n - 1) : f[k] = F[k][f[k - 1]]
    BY <1>2 DEF Runs
  <2> DEFINE g == [k \in 0 .. n |-> IF k = n THEN F[n][f[n - 1]] ELSE f[k]]
  <2>2. F[n][f[n - 1]] \in S
    BY <2>1
  <2>3. g \in [0 .. n -> S] /\ g[0] = start
    BY <2>1, <2>2
  <2>4. ASSUME NEW k \in 1 .. n
        PROVE  g[k] = F[k][g[k - 1]]
    <3>1. g[k - 1] = f[k - 1]
      OBVIOUS
    <3>2. CASE k = n
      BY <3>1, <3>2
    <3>3. CASE k # n
      BY <2>1, <3>1, <3>3
    <3>. QED BY <3>2, <3>3
  <2>. HIDE DEF g
  <2>5. Runs(F, S, start, n)
    BY <2>3, <2>4 DEF Runs
  <2>. QED BY <2>5
<1>3. Good \in SUBSET (0 .. N)
  OBVIOUS
<1>4. N \in Good
  <2>. HIDE DEF Good
  <2>1. Good = 0 .. N
    BY <1>1, <1>2, <1>3, UpTo
  <2>. QED BY <2>1
<1>. QED BY <1>4

\* What follows another sequence is in the whole with it.
LEMMA BothIn ==
  ASSUME NEW S, NEW a \in Seq(S), NEW b \in Seq(S)
  PROVE  a \o b \in Seq(S) /\ ToSet(a \o b) = ToSet(a) \cup ToSet(b)
<1>1. /\ a \o b \in Seq(S) /\ Len(a \o b) = Len(a) + Len(b) /\ Len(a) \in Nat /\ Len(b) \in Nat
      /\ DOMAIN a = 1 .. Len(a) /\ DOMAIN b = 1 .. Len(b) /\ DOMAIN (a \o b) = 1 .. (Len(a) + Len(b))
      /\ \A n \in 1 .. (Len(a) + Len(b)) : (a \o b)[n] = IF n <= Len(a) THEN a[n] ELSE b[n - Len(a)]
  OBVIOUS
<1>2. ToSet(a \o b) \subseteq ToSet(a) \cup ToSet(b)
  <2>1. ASSUME NEW n \in 1 .. (Len(a) + Len(b))
        PROVE  (a \o b)[n] \in ToSet(a) \cup ToSet(b)
    <3>1. CASE n <= Len(a)
      BY <1>1, <3>1 DEF ToSet
    <3>2. CASE ~(n <= Len(a))
      <4>1. n - Len(a) \in 1 .. Len(b)
        BY <1>1, <3>2
      <4>. QED BY <1>1, <3>2, <4>1 DEF ToSet
    <3>. QED BY <3>1, <3>2
  <2>. QED BY <1>1, <2>1 DEF ToSet
<1>3. ToSet(a) \subseteq ToSet(a \o b)
  <2>1. \A n \in 1 .. Len(a) : n \in 1 .. (Len(a) + Len(b)) /\ (a \o b)[n] = a[n]
    BY <1>1
  <2>. QED BY <1>1, <2>1 DEF ToSet
<1>4. ToSet(b) \subseteq ToSet(a \o b)
  <2>1. ASSUME NEW n \in 1 .. Len(b)
        PROVE  n + Len(a) \in 1 .. (Len(a) + Len(b)) /\ (a \o b)[n + Len(a)] = b[n]
    <3>1. n + Len(a) \in 1 .. (Len(a) + Len(b)) /\ ~(n + Len(a) <= Len(a)) /\ (n + Len(a)) - Len(a) = n
      BY <1>1
    <3>. QED BY <1>1, <3>1
  <2>. QED BY <1>1, <2>1 DEF ToSet
<1>. QED BY <1>1, <1>2, <1>3, <1>4

\* Sequences laid end to end.
LEMMA FlattenIs ==
  ASSUME NEW S, NEW seqs \in Seq(Seq(S))
  PROVE  /\ FlattenSeq(seqs) \in Seq(S)
         /\ \A n \in DOMAIN seqs : ToSet(seqs[n]) \subseteq ToSet(FlattenSeq(seqs))
<1> DEFINE N == Len(seqs)
           Flat(f) == f = [i \in 1 .. N |-> IF i = 1 THEN seqs[i] ELSE f[i - 1] \o seqs[i]]
           flatten == CHOOSE f : Flat(f)
<1>1. N \in Nat /\ DOMAIN seqs = 1 .. N /\ \A n \in 1 .. N : seqs[n] \in Seq(S)
  OBVIOUS
<1>2. CASE N = 0
  BY <1>1, <1>2 DEF FlattenSeq
<1>3. CASE N # 0
  <2>1. FlattenSeq(seqs) = flatten[N]
    BY <1>3 DEF FlattenSeq
  <2>. HIDE DEF N
  <2> DEFINE F == [n \in 1 .. (N - 1) |-> [s \in Seq(S) |-> s \o seqs[n + 1]]]
  <2>2. N - 1 \in Nat /\ seqs[1] \in Seq(S)
    BY <1>1, <1>3
  <2>3. F \in [1 .. (N - 1) -> [Seq(S) -> Seq(S)]]
    <3>1. ASSUME NEW n \in 1 .. (N - 1)
          PROVE  [s \in Seq(S) |-> s \o seqs[n + 1]] \in [Seq(S) -> Seq(S)]
      <4>1. seqs[n + 1] \in Seq(S)
        BY <1>1
      <4>. QED BY <4>1
    <3>. QED BY <3>1
  <2>4. PICK f \in [0 .. (N - 1) -> Seq(S)] :
          f[0] = seqs[1] /\ \A n \in 1 .. (N - 1) : f[n] = F[n][f[n - 1]]
    <3> DEFINE M == N - 1
               T == Seq(S)
               start == seqs[1]
    <3>1. M \in Nat /\ start \in T /\ F \in [1 .. M -> [T -> T]]
      BY <2>2, <2>3
    <3>. HIDE DEF F, M, T, start
    <3>2. Runs(F, T, start, M)
      BY <3>1, RecursionExists
    <3>. QED BY <3>2 DEF M, T, start, Runs
  <2> DEFINE g == [i \in 1 .. N |-> f[i - 1]]
  <2>5. ASSUME NEW i \in 1 .. N
        PROVE  g[i] = IF i = 1 THEN seqs[i] ELSE g[i - 1] \o seqs[i]
    <3>1. CASE i = 1
      <4>1. g[1] = f[1 - 1] /\ 1 - 1 = 0
        BY <3>1
      <4>. HIDE DEF g, F
      <4>. QED BY <2>4, <3>1, <4>1
    <3>2. CASE i # 1
      <4>1. i - 1 \in 1 .. (N - 1) /\ (i - 1) + 1 = i /\ f[(i - 1) - 1] \in Seq(S)
        BY <1>1, <2>4, <3>2
      <4>2. f[i - 1] = F[i - 1][f[(i - 1) - 1]]
        BY <2>4, <4>1
      <4>3. F[i - 1][f[(i - 1) - 1]] = f[(i - 1) - 1] \o seqs[(i - 1) + 1]
        BY <4>1
      <4>4. g[i] = f[i - 1] /\ g[i - 1] = f[(i - 1) - 1]
        BY <1>1, <3>2
      <4>. HIDE DEF g, F
      <4>. QED BY <3>2, <4>1, <4>2, <4>3, <4>4
    <3>. QED BY <3>1, <3>2
  <2>6. g = [i \in 1 .. N |-> g[i]]
    OBVIOUS
  <2>. HIDE DEF g
  <2>7. Flat(g)
    BY <2>5, <2>6
  <2>8. Flat(flatten)
    <3>. HIDE DEF Flat
    <3>. QED BY <2>7
  <2>. HIDE DEF flatten
  <2> DEFINE Has(n) == \A k \in 1 .. n : ToSet(seqs[k]) \subseteq ToSet(flatten[n])
             Good == {n \in 0 .. N : n = 0 \/ (flatten[n] \in Seq(S) /\ Has(n))}
  <2>9. ASSUME NEW n \in 1 .. N, n - 1 \in Good
        PROVE  n \in Good
    <3>1. flatten[n] = IF n = 1 THEN seqs[n] ELSE flatten[n - 1] \o seqs[n]
      BY <2>8
    <3>2. seqs[n] \in Seq(S) /\ (n # 1 => flatten[n - 1] \in Seq(S) /\ Has(n - 1))
      BY <1>1, <2>9
    <3>3. CASE n = 1
      <4>1. \A k \in 1 .. n : k = n
        BY <3>3
      <4>. QED BY <3>1, <3>2, <3>3, <4>1
    <3>4. CASE n # 1
      <4>1. /\ flatten[n] \in Seq(S)
            /\ ToSet(flatten[n]) = ToSet(flatten[n - 1]) \cup ToSet(seqs[n])
        BY <3>1, <3>2, <3>4, BothIn
      <4>2. \A k \in 1 .. n : k = n \/ k \in 1 .. (n - 1)
        OBVIOUS
      <4>3. Has(n)
        BY <3>2, <3>4, <4>1, <4>2
      <4>. QED BY <4>1, <4>3
    <3>. QED BY <3>3, <3>4
  <2>10. 0 \in Good /\ Good \in SUBSET (0 .. N)
    BY <1>1
  <2>11. N \in Good
    <3>. HIDE DEF Good
    <3>1. Good = 0 .. N
      BY <1>1, <2>9, <2>10, UpTo
    <3>. QED BY <1>1, <3>1
  <2>. QED BY <1>1, <1>3, <2>1, <2>11
<1>. QED BY <1>2, <1>3

-----------------------------------------------------------------------------
(* The slice.                                                              *)

AnyHit == [id : Id, text : Text, score : Int]
Packed == [tokens : Int, shown : Seq(Id), clipped : SUBSET Id, dropped : Seq(Id)]

\* Packing shows or drops every entry: none is lost on the way.
LEMMA PackIs ==
  ASSUME NEW entries \in Seq(AnyHit), NEW allowance, NEW clips
  PROVE  LET packed == pack(entries, allowance, clips)
         IN /\ packed \in Packed
            /\ \A n \in DOMAIN entries :
                 entries[n].id \in ToSet(packed.shown) \cup ToSet(packed.dropped)
<1> DEFINE line(e) == IF clips /\ needsClip(e.text, e.id) THEN ClipTo ELSE Size[e.text]
           add(s, e) ==
             IF s.tokens + line(e) > allowance
             THEN [s EXCEPT !.dropped = Append(@, e.id)]
             ELSE [s EXCEPT !.tokens = @ + line(e),
                            !.shown = Append(@, e.id),
                            !.clipped = IF clips /\ needsClip(e.text, e.id) THEN @ \cup {e.id} ELSE @]
           start == [tokens |-> TITLE, shown |-> <<>>, clipped |-> {}, dropped |-> <<>>]
           N == Len(entries)
           Fold(f) == f = [n \in 0 .. N |-> IF n = 0 THEN start ELSE add(f[n - 1], entries[n])]
           after == CHOOSE f : Fold(f)
           F == [n \in 1 .. N |-> [s \in Packed |-> add(s, entries[n])]]
<1>1. pack(entries, allowance, clips) = after[N]
  BY DEF pack
<1>2. N \in Nat /\ \A n \in 1 .. N : entries[n] \in AnyHit
  OBVIOUS
<1>3. DOMAIN entries = 1 .. N
  OBVIOUS
<1>. HIDE DEF N
<1>4. \A e \in AnyHit : line(e) \in Int /\ e.id \in Id
  BY RetrievalAssumption DEF AnyHit
<1>. HIDE DEF line
<1>5. ASSUME NEW s \in Packed, NEW e \in AnyHit
      PROVE  /\ add(s, e) \in Packed
             /\ ToSet(s.shown) \subseteq ToSet(add(s, e).shown)
             /\ ToSet(s.dropped) \subseteq ToSet(add(s, e).dropped)
             /\ e.id \in ToSet(add(s, e).shown) \cup ToSet(add(s, e).dropped)
  <2>1. e.id \in Id /\ line(e) \in Int
    BY <1>4
  <2>2. s.shown \in Seq(Id) /\ s.dropped \in Seq(Id) /\ s.tokens \in Int /\ s.clipped \in SUBSET Id
    BY DEF Packed
  <2>3. ASSUME NEW t \in Seq(Id)
        PROVE  /\ Append(t, e.id) \in Seq(Id) /\ ToSet(t) \subseteq ToSet(Append(t, e.id))
               /\ e.id \in ToSet(Append(t, e.id))
    <3>1. /\ Append(t, e.id) \in Seq(Id) /\ DOMAIN Append(t, e.id) = 1 .. (Len(t) + 1)
          /\ Append(t, e.id)[Len(t) + 1] = e.id /\ Len(t) \in Nat /\ DOMAIN t = 1 .. Len(t)
          /\ \A n \in 1 .. Len(t) : Append(t, e.id)[n] = t[n]
      BY <2>1
    <3>2. \A n \in 1 .. Len(t) : n \in 1 .. (Len(t) + 1)
      BY <3>1
    <3>3. Len(t) + 1 \in 1 .. (Len(t) + 1)
      BY <3>1
    <3>. QED BY <3>1, <3>2, <3>3 DEF ToSet
  <2>4. CASE s.tokens + line(e) > allowance
    <3>1. add(s, e) = [s EXCEPT !.dropped = Append(s.dropped, e.id)]
      BY <2>4
    <3>. HIDE DEF add
    <3>2. [s EXCEPT !.dropped = Append(s.dropped, e.id)] \in Packed
      BY <2>2, <2>3 DEF Packed
    <3>3. add(s, e).shown = s.shown /\ add(s, e).dropped = Append(s.dropped, e.id)
      <4>1. DOMAIN s = {"tokens", "shown", "clipped", "dropped"}
        BY DEF Packed
      <4>. QED BY <3>1, <4>1
    <3>. QED BY <2>2, <2>3, <3>1, <3>2, <3>3
  <2>5. CASE ~(s.tokens + line(e) > allowance)
    <3> DEFINE clip == IF clips /\ needsClip(e.text, e.id) THEN s.clipped \cup {e.id} ELSE s.clipped
    <3>1. add(s, e) = [s EXCEPT !.tokens = s.tokens + line(e), !.shown = Append(s.shown, e.id), !.clipped = clip]
      BY <2>5
    <3>2. clip \in SUBSET Id
      BY <2>1, <2>2
    <3>. HIDE DEF add, clip
    <3>3. [s EXCEPT !.tokens = s.tokens + line(e), !.shown = Append(s.shown, e.id), !.clipped = clip] \in Packed
      <4> DEFINE sum == s.tokens + line(e)
                 more == Append(s.shown, e.id)
      <4>1. sum \in Int /\ more \in Seq(Id)
        BY <2>1, <2>2, <2>3
      <4>. HIDE DEF sum, more
      <4>2. [s EXCEPT !.tokens = sum, !.shown = more, !.clipped = clip] \in Packed
        BY <4>1, <3>2 DEF Packed
      <4>. QED BY <4>2 DEF sum, more
    <3>4. add(s, e).shown = Append(s.shown, e.id) /\ add(s, e).dropped = s.dropped
      <4>1. DOMAIN s = {"tokens", "shown", "clipped", "dropped"}
        BY DEF Packed
      <4>. QED BY <3>1, <4>1
    <3>. QED BY <2>2, <2>3, <3>1, <3>3, <3>4
  <2>. QED BY <2>4, <2>5
<1>6. start \in Packed
  BY RetrievalAssumption DEF Packed
<1>. HIDE DEF add, start
<1>7. F \in [1 .. N -> [Packed -> Packed]]
  <2>1. ASSUME NEW n \in 1 .. N
        PROVE  [s \in Packed |-> add(s, entries[n])] \in [Packed -> Packed]
    BY <1>2, <1>5
  <2>. QED BY <2>1
<1>8. Fold(after)
  <2>1. Runs(F, Packed, start, N)
    <3>. HIDE DEF F
    <3>. QED BY <1>2, <1>6, <1>7, RecursionExists
  <2>2. PICK f \in [0 .. N -> Packed] : f[0] = start /\ \A n \in 1 .. N : f[n] = F[n][f[n - 1]]
    <3>. HIDE DEF F
    <3>. QED BY <2>1 DEF Runs
  <2>3. ASSUME NEW n \in 0 .. N
        PROVE  f[n] = IF n = 0 THEN start ELSE add(f[n - 1], entries[n])
    <3>1. CASE n = 0
      <4>. HIDE DEF F
      <4>. QED BY <2>2, <3>1
    <3>2. CASE n # 0
      <4>1. n \in 1 .. N /\ n - 1 \in 0 .. N
        BY <1>2, <3>2
      <4>2. f[n - 1] \in Packed /\ f[n] = F[n][f[n - 1]]
        <5>. HIDE DEF F
        <5>. QED BY <2>2, <4>1
      <4>3. F[n][f[n - 1]] = add(f[n - 1], entries[n])
        BY <4>1, <4>2
      <4>. HIDE DEF F
      <4>. QED BY <3>2, <4>2, <4>3
    <3>. QED BY <3>1, <3>2
  <2>4. f = [n \in 0 .. N |-> f[n]]
    BY <2>2
  <2>5. Fold(f)
    BY <2>3, <2>4
  <2>. HIDE DEF Fold
  <2>. QED BY <2>5
<1>. HIDE DEF after
<1>9. after[0] = start /\ \A n \in 1 .. N : after[n] = add(after[n - 1], entries[n])
  <2>1. after[0] = start
    BY <1>2, <1>8
  <2>2. ASSUME NEW n \in 1 .. N
        PROVE  after[n] = add(after[n - 1], entries[n])
    BY <1>2, <1>8
  <2>. QED BY <2>1, <2>2
<1>. HIDE DEF Fold
<1> DEFINE Good ==
      {n \in 0 .. N :
         /\ after[n] \in Packed
         /\ \A k \in 1 .. n : entries[k].id \in ToSet(after[n].shown) \cup ToSet(after[n].dropped)}
<1>10. 0 \in Good /\ Good \in SUBSET (0 .. N)
  BY <1>2, <1>6, <1>9
<1>11. ASSUME NEW n \in 1 .. N, n - 1 \in Good
       PROVE  n \in Good
  <2>1. /\ after[n - 1] \in Packed /\ entries[n] \in AnyHit
        /\ \A k \in 1 .. (n - 1) :
             entries[k].id \in ToSet(after[n - 1].shown) \cup ToSet(after[n - 1].dropped)
    BY <1>2, <1>11
  <2>2. after[n] = add(after[n - 1], entries[n])
    BY <1>9
  <2>3. /\ after[n] \in Packed
        /\ ToSet(after[n - 1].shown) \subseteq ToSet(after[n].shown)
        /\ ToSet(after[n - 1].dropped) \subseteq ToSet(after[n].dropped)
        /\ entries[n].id \in ToSet(after[n].shown) \cup ToSet(after[n].dropped)
    BY <1>5, <2>1, <2>2
  <2>4. \A k \in 1 .. n : k = n \/ k \in 1 .. (n - 1)
    OBVIOUS
  <2>5. \A k \in 1 .. n : entries[k].id \in ToSet(after[n].shown) \cup ToSet(after[n].dropped)
    BY <2>1, <2>3, <2>4
  <2>. QED BY <2>3, <2>5
<1>12. N \in Good
  <2>. HIDE DEF Good
  <2>1. Good = 0 .. N
    BY <1>2, <1>10, <1>11, UpTo
  <2>. QED BY <1>2, <2>1
<1>. QED BY <1>1, <1>3, <1>12

\* Learned rules are served or held back, and what is not one is served.
LEMMA CappedIs ==
  ASSUME NEW m \in Memory, NEW ids \in Seq(Id)
  PROVE  LET capped == capRecoveryRules(m, ids)
         IN /\ capped.served \in Seq(Id) /\ capped.held \in Seq(Id)
            /\ ToSet(ids) \subseteq ToSet(capped.served) \cup ToSet(capped.held)
<1> DEFINE rules == {i \in ToSet(ids) : Fixed[i].rule}
           ranked == InOrder(rules, ByDate(m))
           best == Firsts(ranked, MAX_BOOTSTRAP_RECOVERY_RULES)
           stated == Those(ids, Id \ rules)
           held == Those(ranked, Id \ ToSet(best))
<1>1. capRecoveryRules(m, ids) = [served |-> stated \o best, held |-> held]
  BY DEF capRecoveryRules
<1>2. ToSet(ids) \subseteq Id
  BY MembersOf
<1>3. rules \in SUBSET Id /\ rules \subseteq ToSet(ids)
  BY <1>2
<1>. HIDE DEF rules
<1>4. ranked \in Seq(rules) /\ ToSet(ranked) = rules
  BY <1>3, IdsAreFinite, LaterRanks, InOrderIs
<1>5. ranked \in Seq(Id)
  <2>. HIDE DEF ranked
  <2>. QED BY <1>3, <1>4
<1>. HIDE DEF ranked
<1>6. best \in Seq(Id)
  BY <1>5, RetrievalAssumption, FirstsIs
<1>7. stated \in Seq(Id) /\ ToSet(stated) = ToSet(ids) \cap (Id \ rules)
  BY ThoseIs
<1>8. held \in Seq(Id) /\ ToSet(held) = ToSet(ranked) \cap (Id \ ToSet(best))
  BY <1>5, ThoseIs
<1>. HIDE DEF best, stated, held
<1>9. stated \o best \in Seq(Id) /\ ToSet(stated \o best) = ToSet(stated) \cup ToSet(best)
  BY <1>6, <1>7, BothIn
<1>10. ToSet(ids) \subseteq ToSet(stated \o best) \cup ToSet(held)
  BY <1>2, <1>3, <1>4, <1>7, <1>8, <1>9
<1>. QED BY <1>1, <1>8, <1>9, <1>10

\* What is due in a section is packed into it, but for what is past the limit of its category.
LEMMA EligibleIs ==
  ASSUME NEW m \in Memory, NEW n \in DOMAIN Section
  PROVE  /\ Eligible(m, Section[n]) \in Seq(Id)
         /\ \A i \in Id :
              LET before == {j \in Id : /\ m[j].status = "active" /\ Fixed[j].category = Fixed[i].category
                                        /\ Listed(m, j, i)}
              IN /\ isLive(m[i]) /\ alwaysOnEligible(m, i)
                 /\ Fixed[i].category \in ToSet(Section[n].categories)
                 /\ ~(Cardinality(before) >= ListLimit)
                 => i \in ToSet(Eligible(m, Section[n]))
<1> DEFINE categories == Section[n].categories
           of(c) == Those(byCategory(m, c), {i \in Id : alwaysOnEligible(m, i)})
           each == [k \in DOMAIN categories |-> of(categories[k])]
           before(i) == {j \in Id : /\ m[j].status = "active" /\ Fixed[j].category = Fixed[i].category
                                    /\ Listed(m, j, i)}
           Owed(i, c) == /\ isLive(m[i]) /\ alwaysOnEligible(m, i) /\ Fixed[i].category = c
                         /\ ~(Cardinality(before(i)) >= ListLimit)
<1>1. \A c : of(c) \in Seq(Id) /\ \A i \in Id : Owed(i, c) => i \in ToSet(of(c))
  <2>. TAKE c
  <2> DEFINE active == {i \in Id : Fixed[i].category = c /\ m[i].status = "active"}
             rows == Firsts(InOrder(active, ByImportance(m)), ListLimit)
             live == Those(rows, LiveIn(m))
             W == {i \in Id : alwaysOnEligible(m, i)}
  <2>1. active \in SUBSET Id
    OBVIOUS
  <2>2. byCategory(m, c) = live
    BY DEF byCategory
  <2>a. ASSUME NEW i \in Id, Owed(i, c)
        PROVE  i \in active /\ before(i) = {y \in active \ {i} : <<y, i>> \in ByImportance(m)}
    <3>1. i \in active
      BY <2>a DEF isLive
    <3>2. ~Listed(m, i, i)
      <4>1. i \in Int /\ m[i].at \in Int /\ Weight(Fixed[i].importance) \in Int
        BY IdsAreFinite, WeightIsNatural DEF Memory, Item
      <4>. HIDE DEF Owed
      <4>. QED BY <4>1 DEF Listed, MoreImportant, Later
    <3>3. \A y \in Id : <<y, i>> \in ByImportance(m) <=> Listed(m, y, i)
      BY DEF ByImportance
    <3>4. Fixed[i].category = c
      BY <2>a
    <3>. HIDE DEF Owed
    <3>. QED BY <3>1, <3>2, <3>3, <3>4
  <2>. HIDE DEF active, W
  <2>3. InOrder(active, ByImportance(m)) \in Seq(active)
    BY <2>1, IdsAreFinite, ListedRanks, InOrderIs
  <2>4. InOrder(active, ByImportance(m)) \in Seq(Id)
    BY <2>1, <2>3
  <2>5. rows \in Seq(Id)
    BY <2>4, RetrievalAssumption, FirstsIs
  <2>b. ASSUME NEW i \in Id, Owed(i, c)
        PROVE  i \in ToSet(rows)
    <3> DEFINE order == InOrder(active, ByImportance(m))
               turn == Cardinality(before(i))
    <3>1. i \in active /\ IsFiniteSet(active) /\ Ranks(ByImportance(m), active)
      BY <2>1, <2>a, <2>b, IdsAreFinite, ListedRanks
    <3>2. turn \in 0 .. (Cardinality(active) - 1) /\ order[turn + 1] = i
      BY <2>a, <2>b, <3>1, InOrderLists
    <3>3. Len(order) = Cardinality(active) /\ Cardinality(active) \in Nat
      BY <3>1, InOrderIs, FS_CardinalityType
    <3>4. ListLimit \in Nat /\ ~(turn >= ListLimit)
      BY <2>b, RetrievalAssumption
    <3>. HIDE DEF order, turn, Owed
    <3>5. turn + 1 \in 1 .. (IF ListLimit < Len(order) THEN ListLimit ELSE Len(order))
      BY <3>2, <3>3, <3>4
    <3>6. turn + 1 \in DOMAIN Firsts(order, ListLimit) /\ Firsts(order, ListLimit)[turn + 1] = order[turn + 1]
      BY <2>4, <3>4, <3>5, FirstsIs DEF order
    <3>. QED BY <3>2, <3>6 DEF ToSet, order
  <2>. HIDE DEF rows
  <2>6. live \in Seq(Id) /\ ToSet(live) = ToSet(rows) \cap LiveIn(m)
    BY <2>5, ThoseIs
  <2>. HIDE DEF live
  <2>7. Those(live, W) \in Seq(Id) /\ ToSet(Those(live, W)) = ToSet(live) \cap W
    BY <2>6, ThoseIs
  <2>8. \A i \in Id : Owed(i, c) => i \in LiveIn(m) /\ i \in W
    BY DEF LiveIn, W
  <2>9. of(c) = Those(live, W)
    BY <2>2 DEF W
  <2>. HIDE DEF of, Owed
  <2>. QED BY <2>b, <2>6, <2>7, <2>8, <2>9
<1>2. Len(categories) \in Nat /\ DOMAIN categories = 1 .. Len(categories)
  <2> DEFINE S == [categories : Seq(STRING), allowance : Nat]
  <2>0. Section \in Seq(S)
    BY RetrievalAssumption
  <2>1. Section[n] \in S
    <3>. HIDE DEF S
    <3>. QED BY <2>0
  <2>2. categories \in Seq(STRING)
    BY <2>1
  <2>. QED BY <2>2
<1>3. Eligible(m, Section[n]) = FlattenSeq(each \o <<>>)
  BY DEF Eligible, Each
<1>. HIDE DEF of, categories
<1>. HIDE DEF Owed
<1>4. each \in [1 .. Len(categories) -> Seq(Id)]
  BY <1>1, <1>2
<1>6. ASSUME NEW i \in Id, Owed(i, Fixed[i].category), Fixed[i].category \in ToSet(categories)
      PROVE  \E k \in 1 .. Len(categories) : i \in ToSet(each[k])
  <2>1. PICK k \in DOMAIN categories : categories[k] = Fixed[i].category
    BY <1>6 DEF ToSet
  <2>2. each[k] = of(categories[k])
    BY <2>1
  <2>. HIDE DEF each
  <2>. QED BY <1>1, <1>2, <1>6, <2>1, <2>2
<1>. HIDE DEF each
<1>5. each \o <<>> = each /\ each \in Seq(Seq(Id))
  BY <1>2, <1>4, AsItIs
<1>7. DOMAIN each = 1 .. Len(categories)
  BY <1>4
<1>8. /\ Eligible(m, Section[n]) \in Seq(Id)
      /\ \A k \in 1 .. Len(categories) : ToSet(each[k]) \subseteq ToSet(Eligible(m, Section[n]))
  BY <1>3, <1>5, <1>7, FlattenIs
<1>. QED BY <1>6, <1>8 DEF Owed, categories

\* A section of the slice shows what is due in it, or names it among what it left out.
LEMMA SectionIs ==
  ASSUME NEW m \in Memory, NEW n \in DOMAIN Section, NEW budget
  PROVE  LET section == SectionOf(m, Section[n], budget)
         IN \A i \in ToSet(Eligible(m, Section[n])) :
              i \in ToSet(section.shown) \cup ToSet(section.dropped)
<1> DEFINE s == Section[n]
           ids == Eligible(m, s)
           rules == capRecoveryRules(m, ids)
           entries == [k \in DOMAIN rules.served |-> Hit(m, rules.served[k], 0)]
           packed == pack(entries \o <<>>, Scaled(s.allowance, budget), TRUE)
<1>1. SectionOf(m, s, budget) = [packed EXCEPT !.dropped = packed.dropped \o rules.held]
  BY DEF SectionOf, Each
<1>2. ids \in Seq(Id)
  BY EligibleIs
<1>. HIDE DEF ids
<1>3. /\ rules.served \in Seq(Id) /\ rules.held \in Seq(Id)
      /\ ToSet(ids) \subseteq ToSet(rules.served) \cup ToSet(rules.held)
  BY <1>2, CappedIs
<1>. HIDE DEF rules
<1>4. /\ Len(rules.served) \in Nat /\ DOMAIN rules.served = 1 .. Len(rules.served)
      /\ \A k \in DOMAIN rules.served : rules.served[k] \in Id
  BY <1>3
<1>5. entries \in [1 .. Len(rules.served) -> AnyHit] /\ \A k \in DOMAIN rules.served : entries[k].id = rules.served[k]
  BY <1>4 DEF Hit, AnyHit, Memory, Item
<1>. HIDE DEF entries
<1>6. entries \o <<>> = entries /\ entries \in Seq(AnyHit) /\ DOMAIN entries = 1 .. Len(rules.served)
  BY <1>4, <1>5, AsItIs
<1>7. /\ packed \in Packed
      /\ \A k \in DOMAIN entries : entries[k].id \in ToSet(packed.shown) \cup ToSet(packed.dropped)
  BY <1>6, PackIs
<1>. HIDE DEF packed
<1>8. /\ packed.dropped \in Seq(Id) /\ packed.shown \in Seq(Id)
      /\ DOMAIN packed = {"tokens", "shown", "clipped", "dropped"}
  BY <1>7 DEF Packed
<1>9. ToSet(packed.dropped \o rules.held) = ToSet(packed.dropped) \cup ToSet(rules.held)
  BY <1>3, <1>8, BothIn
<1>10. /\ SectionOf(m, s, budget).shown = packed.shown
       /\ SectionOf(m, s, budget).dropped = packed.dropped \o rules.held
  BY <1>1, <1>8
<1>11. ToSet(rules.served) \subseteq ToSet(packed.shown) \cup ToSet(packed.dropped)
  BY <1>4, <1>5, <1>6, <1>7 DEF ToSet
<1>12. \A i \in ToSet(ids) : i \in ToSet(packed.shown) \cup ToSet(packed.dropped \o rules.held)
  BY <1>3, <1>9, <1>11
<1>. QED BY <1>10, <1>12 DEF ids

\* The sections are those of the configuration, in its order.
LEMMA BootstrapIs ==
  ASSUME NEW m \in Memory, NEW budget
  PROVE  /\ DOMAIN bootstrap(m, budget) = DOMAIN Section
         /\ \A n \in DOMAIN Section : bootstrap(m, budget)[n] = SectionOf(m, Section[n], budget)
<1> DEFINE each == [n \in DOMAIN Section |-> SectionOf(m, Section[n], budget)]
           S == {SectionOf(m, Section[n], budget) : n \in DOMAIN Section}
<1>1. Len(Section) \in Nat /\ DOMAIN Section = 1 .. Len(Section)
  BY RetrievalAssumption
<1>2. each \in [1 .. Len(Section) -> S]
  BY <1>1
<1>3. bootstrap(m, budget) = each \o <<>>
  BY DEF bootstrap, Each
<1>4. each \o <<>> = each
  <2>. HIDE DEF each, S
  <2>. QED BY <1>1, <1>2, AsItIs
<1>. QED BY <1>3, <1>4

\* NothingHiddenInSilence, of every memory.
LEMMA SilenceIs == DerivedInv => NothingHiddenInSilence
<1>. SUFFICES ASSUME Types PROVE NothingHiddenInSilence
  BY DEF DerivedInv
<1>0. items \in Memory
  BY DEF Types
<1>1. ASSUME NEW budget \in Budgets, NEW n \in Kept(bootstrap(items, budget)),
             NEW i \in Due(Section[n])
      PROVE  Told(i, bootstrap(items, budget)[n]) \/ PastTheLimit(i)
  <2>1. n \in DOMAIN Section /\ bootstrap(items, budget)[n] = SectionOf(items, Section[n], budget)
    BY <1>0, BootstrapIs DEF Kept
  <2>2. /\ i \in Id /\ isLive(items[i]) /\ alwaysOnEligible(items, i)
        /\ Fixed[i].category \in ToSet(Section[n].categories)
    BY DEF Due, LiveIn
  <2>3. i \in ToSet(Eligible(items, Section[n])) \/ PastTheLimit(i)
    BY <1>0, <2>1, <2>2, EligibleIs DEF PastTheLimit
  <2>. QED BY <1>0, <2>1, <2>3, SectionIs DEF Told
<1>2. ASSUME NEW q \in setting.queries,
             NEW i \in Ids(forQuery(items, q))
      PROVE  LET sections == bootstrap(items, None)
                 answer == serveQuery(items, forQuery(items, q))
             IN \/ i \in ToSet(answer.shown) \cup ToSet(answer.dropped)
                \/ \E n \in Kept(sections) : i \in ToSet(sections[n].shown) \ sections[n].clipped
  <2> DEFINE sections == bootstrap(items, None)
             found == forQuery(items, q)
             W == {h \in ToSet(found) : h.id \notin WholeOnScreen(sections)}
             entries == Those(found, W)
  <2>1. serveQuery(items, found) = pack(entries, ReserveForRetrieval, FALSE)
    BY DEF serveQuery
  <2>2. found \in Seq(AnyHit)
    <3>1. q \in Query /\ SearchLimit \in Nat
      BY SettingIs, RetrievalAssumption
    <3>2. search(items, q, SearchLimit) \in Seq(HitsOf(LiveTexts(items)))
      BY <1>0, <3>1, SearchIs
    <3>3. found \in Seq(HitsOf(LiveTexts(items)))
      BY <1>0, <3>1, <3>2, ExpandIs DEF forQuery
    <3>. QED BY <3>3, HitsAreTyped DEF AnyHit
  <2>3. PICK k \in DOMAIN found : found[k].id = i
    BY DEF Ids
  <2>4. \A n \in Kept(sections) : n \in DOMAIN sections
    BY DEF Kept
  <2>5. CASE i \in WholeOnScreen(sections)
    <3>. HIDE DEF sections
    <3>1. PICK n \in Kept(sections) : i \in ToSet(sections[n].shown)
      BY <2>5 DEF WholeOnScreen, OnScreen
    <3>2. i \notin sections[n].clipped
      BY <2>4, <2>5, <3>1 DEF WholeOnScreen, Clipped
    <3>. QED BY <3>1, <3>2 DEF sections
  <2>6. CASE i \notin WholeOnScreen(sections)
    <3>1. found[k] \in W
      <4>. HIDE DEF sections, found
      <4>. QED BY <2>3, <2>6 DEF ToSet
    <3>. HIDE DEF found, W
    <3>2. entries \in Seq(AnyHit) /\ ToSet(entries) = ToSet(found) \cap W
      BY <2>2, ThoseIs
    <3>3. PICK n \in DOMAIN entries : entries[n] = found[k]
      <4>1. found[k] \in ToSet(found)
        BY DEF ToSet
      <4>2. found[k] \in ToSet(entries)
        BY <3>1, <3>2, <4>1
      <4>. HIDE DEF entries
      <4>. QED BY <4>2 DEF ToSet
    <3>. HIDE DEF entries
    <3>4. LET answer == pack(entries, ReserveForRetrieval, FALSE)
          IN i \in ToSet(answer.shown) \cup ToSet(answer.dropped)
      BY <2>3, <3>2, <3>3, PackIs
    <3>. QED BY <2>1, <3>4 DEF found
  <2>. QED BY <2>5, <2>6
<1>. QED BY <1>1, <1>2 DEF NothingHiddenInSilence

\* Nothing due in the slice, but for what is past the rows byCategory reads, and no hit of
\* a query is left out in silence: for every memory, configuration of sections, allowance
\* and budget (bootstrap, pack and serveQuery, retrieval/context-builder.ts).
THEOREM NothingIsSilent == Spec => []NothingHiddenInSilence
BY DerivedInvariant, SilenceIs, PTL

=============================================================================
