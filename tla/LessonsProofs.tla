---------------------------- MODULE LessonsProofs ----------------------------
(***************************************************************************)
(* Theorems about what a session is remembered for having learned.         *)
(*                                                                         *)
(* First what is found: the positions InTurn reads, the stretches of a     *)
(* session, the attempts, recoveries and episodes of one, and a window of  *)
(* it.  Over these the invariants: of the session and its folds, of the    *)
(* learners, and that a walk passes nothing over.  Then the rules, for     *)
(* every set of paths and whatever a fold may find: the argument never     *)
(* looks at how a recovery is recognised, only at what a plan made of the  *)
(* rules that were read becomes of those in memory when it is applied.     *)
(***************************************************************************)
EXTENDS Lessons, FiniteSetTheorems, TLAPS

-----------------------------------------------------------------------------
(* Least members, and states that follow one another.                      *)

\* Of finitely many integers one is the least.
LEMMA LeastOfFinite ==
  ASSUME NEW S \in SUBSET Int, S # {}, IsFiniteSet(S)
  PROVE  \E m \in S : \A n \in S : m <= n
<1> DEFINE Without == {A \in SUBSET S : A # {} /\ ~ \E m \in A : \A n \in A : m <= n}
<1>1. CASE Without = {}
  BY <1>1
<1>2. CASE Without # {}
  <2>1. PICK A \in Without : \A B \in Without : ~(<<B, A>> \in StrictSubsetOrdering(S))
    <3>1. Without \subseteq FiniteSubsetsOf(S)
      BY FS_Subset DEF FiniteSubsetsOf
    <3>. QED BY <1>2, <3>1, WFMin, FS_StrictSubsetOrderingWellFounded
  <2>2. PICK a \in A : TRUE
    OBVIOUS
  <2>3. A \ {a} \notin Without
    BY <2>1, <2>2 DEF StrictSubsetOrdering
  <2>4. CASE A \ {a} = {}
    BY <2>2, <2>4
  <2>5. CASE A \ {a} # {}
    <3>1. PICK m \in A \ {a} : \A n \in A \ {a} : m <= n
      BY <2>3, <2>5
    <3>2. a \in Int /\ m \in Int /\ \A n \in A : n \in Int
      BY <2>2
    <3>3. \E i \in A : \A n \in A : i <= n
      BY <2>2, <3>1, <3>2
    <3>. QED BY <3>3
  <2>. QED BY <2>4, <2>5
<1>. QED BY <1>1, <1>2

\* Of a set of naturals that is not empty, one is the least.
LEMMA Least ==
  ASSUME NEW S \in SUBSET Nat, S # {}
  PROVE  \E m \in S : \A n \in S : m <= n
<1>1. PICK s \in S : TRUE
  OBVIOUS
<1> DEFINE Below == {n \in S : n <= s}
<1>2. IsFiniteSet(Below) /\ Below \in SUBSET Int /\ s \in Below
  <2>0. s \in Nat /\ \A n \in S : n \in Nat
    BY <1>1
  <2>1. Below \in SUBSET (0 .. s) /\ Below \in SUBSET Int /\ s \in Below
    <3>1. \A n \in Below : n \in 0 .. s /\ n \in Int
      BY <2>0
    <3>2. s \in Below
      BY <2>0
    <3>. HIDE DEF Below
    <3>. QED BY <3>1, <3>2
  <2>2. IsFiniteSet(0 .. s)
    BY <1>1, FS_Interval
  <2>3. IsFiniteSet(Below)
    <3>. HIDE DEF Below
    <3>. QED BY <2>1, <2>2, FS_Subset
  <2>. QED BY <2>1, <2>3
<1>3. PICK m \in Below : \A n \in Below : m <= n
  BY <1>2, LeastOfFinite
<1>4. \A n \in S : m <= n
  BY <1>1, <1>3
<1>. QED BY <1>3, <1>4

\* Min and Max are members, of finitely many integers.
LEMMA MinIsLeast ==
  ASSUME NEW S \in SUBSET Int, S # {}, IsFiniteSet(S)
  PROVE  Min(S) \in S /\ \A n \in S : Min(S) <= n
BY LeastOfFinite DEF Min
\* The greatest of finitely many integers is one of them.
LEMMA MaxIsGreatest ==
  ASSUME NEW S \in SUBSET Int, S # {}, IsFiniteSet(S)
  PROVE  Max(S) \in S /\ \A n \in S : n <= Max(S)
<1> DEFINE Mirror == {-n : n \in S}
           turned == [n \in S |-> -n]
<1>1. IsFiniteSet(Mirror) /\ Mirror \in SUBSET Int /\ Mirror # {}
  <2>1. turned \in Surjection(S, Mirror)
    BY DEF Surjection
  <2>2. IsFiniteSet(Mirror)
    <3>. HIDE DEF turned, Mirror
    <3>. QED BY <2>1, FS_Surjection
  <2>3. Mirror \in SUBSET Int
    OBVIOUS
  <2>4. PICK n \in S : TRUE
    OBVIOUS
  <2>5. -n \in Mirror
    BY <2>4
  <2>. HIDE DEF Mirror
  <2>. QED BY <2>2, <2>3, <2>5
<1>2. PICK m \in Mirror : \A n \in Mirror : m <= n
  <2>. HIDE DEF Mirror
  <2>. QED BY <1>1, LeastOfFinite
<1>3. -m \in S /\ \A n \in S : -n \in Mirror
  BY <1>2
<1>4. \A n \in S : n <= -m
  BY <1>2, <1>3
<1>5. \A n \in S : -m >= n
  BY <1>3, <1>4
<1>6. Max(S) \in S /\ \A n \in S : Max(S) >= n
  BY <1>3, <1>5 DEF Max
<1>. QED BY <1>6

\* What holds at the start, and of each position after the one before, holds of all.
LEMMA UpTo ==
  ASSUME NEW N \in Nat, NEW Good \in SUBSET (0 .. N), 0 \in Good,
         \A n \in 1 .. N : n - 1 \in Good => n \in Good
  PROVE  Good = 0 .. N
<1> DEFINE Bad == (0 .. N) \ Good
<1>1. CASE Bad = {}
  BY <1>1
<1>2. CASE Bad # {}
  <2>1. Bad \in SUBSET Nat
    OBVIOUS
  <2>2. PICK n \in Bad : \A k \in Bad : n <= k
    <3>. HIDE DEF Bad
    <3>. QED BY <1>2, <2>1, Least
  <2>3. n \in 1 .. N /\ n - 1 \in 0 .. N
    BY <2>2
  <2>4. n - 1 \in Good
    BY <2>2, <2>3
  <2>. QED BY <2>2, <2>3, <2>4
<1>. QED BY <1>1, <1>2

\* A state for each position, made by F from the one before.
Runs(F, S, start, N) ==
  \E f \in [0 .. N -> S] : f[0] = start /\ \A n \in 1 .. N : f[n] = F[n][f[n - 1]]

\* A start and what each position does to a state define the states in between.
LEMMA RecursionExists ==
  ASSUME NEW N \in Nat, NEW S, NEW start \in S, NEW F \in [1 .. N -> [S -> S]]
  PROVE  Runs(F, S, start, N)
<1> DEFINE Good == {k \in 0 .. N : Runs(F, S, start, k)}
<1>1. 0 \in Good
  <2> DEFINE f == [n \in 0 .. 0 |-> start]
  <2>1. f \in [0 .. 0 -> S] /\ f[0] = start /\ \A n \in 1 .. 0 : f[n] = F[n][f[n - 1]]
    OBVIOUS
  <2>. HIDE DEF f
  <2>2. Runs(F, S, start, 0)
    BY <2>1 DEF Runs
  <2>. QED BY <2>2
<1>2. ASSUME NEW n \in 1 .. N, n - 1 \in Good
      PROVE  n \in Good
  <2>1. PICK f \in [0 .. (n - 1) -> S] :
          f[0] = start /\ \A k \in 1 .. (n - 1) : f[k] = F[k][f[k - 1]]
    BY <1>2 DEF Runs
  <2> DEFINE g == [k \in 0 .. n |-> IF k = n THEN F[n][f[n - 1]] ELSE f[k]]
  <2>2. F[n][f[n - 1]] \in S
    BY <2>1
  <2>3. g \in [0 .. n -> S] /\ g[0] = start
    BY <2>1, <2>2
  <2>4. ASSUME NEW k \in 1 .. n
        PROVE  g[k] = F[k][g[k - 1]]
    <3>1. g[k - 1] = f[k - 1]
      OBVIOUS
    <3>2. CASE k = n
      BY <3>1, <3>2
    <3>3. CASE k # n
      BY <2>1, <3>1, <3>3
    <3>. QED BY <3>2, <3>3
  <2>. HIDE DEF g
  <2>5. Runs(F, S, start, n)
    BY <2>3, <2>4 DEF Runs
  <2>. QED BY <2>5
<1>3. Good \in SUBSET (0 .. N)
  OBVIOUS
<1>4. N \in Good
  <2>. HIDE DEF Good
  <2>1. Good = 0 .. N
    BY <1>1, <1>2, <1>3, UpTo
  <2>. QED BY <2>1
<1>. QED BY <1>4

\* Nothing appended changes nothing.
LEMMA AsItIs ==
  ASSUME NEW N \in Nat, NEW S, NEW f \in [1 .. N -> S]
  PROVE  /\ f \o <<>> = f /\ f \in Seq(S) /\ Len(f) = N /\ DOMAIN f = 1 .. N
<1>1. f \in Seq(S) /\ Len(f) = N
  OBVIOUS
<1>2. f \o <<>> \in Seq(S) /\ Len(f \o <<>>) = N /\ \A n \in 1 .. N : (f \o <<>>)[n] = f[n]
  BY <1>1
<1>3. f \o <<>> = [n \in 1 .. N |-> (f \o <<>>)[n]]
  BY <1>2
<1>4. f = [n \in 1 .. N |-> f[n]]
  OBVIOUS
<1>5. f \o <<>> = f
  BY <1>2, <1>3, <1>4
<1>. QED BY <1>1, <1>5

-----------------------------------------------------------------------------
(* Positions, and the events at some of them.                              *)

\* The positions among the first n that are in a set, each once, ascending.
Turns(order, positions, n) ==
  /\ order \in Seq(1 .. n)
  /\ \A k \in DOMAIN order : order[k] \in positions
  /\ \A j, k \in DOMAIN order : j < k => order[j] < order[k]
  /\ \A m \in 1 .. n : m \in positions => \E k \in DOMAIN order : order[k] = m

\* One more position, if it is of the set, comes last.
LEMMA TurnsGrow ==
  ASSUME NEW n \in Nat \ {0}, NEW positions, NEW order, Turns(order, positions, n - 1)
  PROVE  Turns(IF n \in positions THEN Append(order, n) ELSE order, positions, n)
<1>1. /\ order \in Seq(1 .. (n - 1)) /\ Len(order) \in Nat /\ DOMAIN order = 1 .. Len(order)
      /\ \A k \in 1 .. Len(order) : order[k] \in 1 .. (n - 1)
  BY DEF Turns
<1>2. \A m \in 1 .. (n - 1) : m \in 1 .. n /\ m < n
  OBVIOUS
<1>3. order \in Seq(1 .. n)
  <2>1. order \in [1 .. Len(order) -> 1 .. n]
    BY <1>1, <1>2
  <2>. QED BY <1>1, <2>1
<1>4. \A m \in 1 .. n : m = n \/ m \in 1 .. (n - 1)
  OBVIOUS
<1>5. CASE n \notin positions
  BY <1>1, <1>3, <1>4, <1>5 DEF Turns
<1>6. CASE n \in positions
  <2> DEFINE longer == Append(order, n)
  <2>1. /\ longer \in Seq(1 .. n) /\ DOMAIN longer = 1 .. (Len(order) + 1) /\ longer[Len(order) + 1] = n
        /\ \A k \in 1 .. Len(order) : longer[k] = order[k]
    BY <1>1, <1>3
  <2>. HIDE DEF longer
  <2>2. \A k \in 1 .. (Len(order) + 1) : k = Len(order) + 1 \/ k \in 1 .. Len(order)
    BY <1>1
  <2>3. \A k \in DOMAIN longer : longer[k] \in positions
    BY <1>1, <1>6, <2>1, <2>2 DEF Turns
  <2>4. ASSUME NEW j \in DOMAIN longer, NEW k \in DOMAIN longer, j < k
        PROVE  longer[j] < longer[k]
    <3>1. j \in 1 .. Len(order)
      BY <1>1, <2>1, <2>4
    <3>2. CASE k \in 1 .. Len(order)
      BY <1>1, <2>1, <2>4, <3>1, <3>2 DEF Turns
    <3>3. CASE k = Len(order) + 1
      BY <1>1, <1>2, <2>1, <3>1, <3>3
    <3>. QED BY <2>1, <2>2, <3>2, <3>3
  <2>5. ASSUME NEW m \in 1 .. n, m \in positions
        PROVE  \E k \in DOMAIN longer : longer[k] = m
    <3>1. CASE m = n
      <4>1. Len(order) + 1 \in DOMAIN longer
        BY <1>1, <2>1
      <4>. QED BY <2>1, <3>1, <4>1
    <3>2. CASE m \in 1 .. (n - 1)
      <4>1. PICK k \in DOMAIN order : order[k] = m
        BY <2>5, <3>2 DEF Turns
      <4>2. k \in DOMAIN longer /\ longer[k] = m
        BY <1>1, <2>1, <4>1
      <4>. QED BY <4>2
    <3>. QED BY <1>4, <3>1, <3>2
  <2>6. Turns(longer, positions, n)
    BY <2>1, <2>3, <2>4, <2>5 DEF Turns
  <2>. QED BY <1>6, <2>6 DEF longer
<1>. QED BY <1>5, <1>6

\* InTurn is what its name says.
LEMMA InTurnIs ==
  ASSUME NEW n \in Nat, NEW positions
  PROVE  Turns(InTurn(positions, n), positions, n)
<1> DEFINE add(s, m) == IF m \in positions THEN Append(s, m) ELSE s
           Fold(f) == f = [m \in 0 .. n |-> IF m = 0 THEN <<>> ELSE add(f[m - 1], m)]
           upTo == CHOOSE f : Fold(f)
           S == Seq(Nat)
           start == <<>>
           F == [m \in 1 .. n |-> [s \in S |-> add(s, m)]]
<1>1. InTurn(positions, n) = upTo[n]
  BY DEF InTurn
<1>2. F \in [1 .. n -> [S -> S]] /\ start \in S
  <2>1. ASSUME NEW m \in 1 .. n
        PROVE  [s \in S |-> add(s, m)] \in [S -> S]
    OBVIOUS
  <2>. QED BY <2>1
<1>. HIDE DEF add, S
<1>3. Fold(upTo)
  <2>1. PICK f \in [0 .. n -> S] : f[0] = start /\ \A m \in 1 .. n : f[m] = F[m][f[m - 1]]
    <3>. HIDE DEF F, start
    <3>1. Runs(F, S, start, n)
      BY <1>2, RecursionExists
    <3>. QED BY <3>1 DEF Runs
  <2>2. ASSUME NEW m \in 0 .. n
        PROVE  f[m] = IF m = 0 THEN start ELSE add(f[m - 1], m)
    <3>1. CASE m = 0
      <4>. HIDE DEF F
      <4>. QED BY <2>1, <3>1
    <3>2. CASE m # 0
      <4>1. m \in 1 .. n /\ m - 1 \in 0 .. n
        BY <3>2
      <4>2. f[m - 1] \in S /\ f[m] = F[m][f[m - 1]]
        <5>. HIDE DEF F
        <5>. QED BY <2>1, <4>1
      <4>3. F[m][f[m - 1]] = add(f[m - 1], m)
        BY <4>1, <4>2
      <4>. HIDE DEF F
      <4>. QED BY <3>2, <4>2, <4>3
    <3>. QED BY <3>1, <3>2
  <2>3. f = [m \in 0 .. n |-> f[m]]
    BY <2>1
  <2>4. Fold(f)
    BY <2>2, <2>3
  <2>. HIDE DEF Fold
  <2>. QED BY <2>4
<1>. HIDE DEF upTo
<1>4. upTo[0] = <<>> /\ \A m \in 1 .. n : upTo[m] = add(upTo[m - 1], m)
  <2>1. upTo[0] = <<>>
    BY <1>3
  <2>2. ASSUME NEW m \in 1 .. n
        PROVE  upTo[m] = add(upTo[m - 1], m)
    BY <1>3
  <2>. QED BY <2>1, <2>2
<1>. HIDE DEF Fold
<1> DEFINE Good == {m \in 0 .. n : Turns(upTo[m], positions, m)}
<1>5. 0 \in Good /\ Good \in SUBSET (0 .. n)
  <2>1. upTo[0] = <<>> /\ DOMAIN upTo[0] = {} /\ upTo[0] \in Seq(1 .. 0)
    BY <1>4
  <2>2. Turns(upTo[0], positions, 0)
    BY <2>1 DEF Turns
  <2>. QED BY <2>2
<1>6. ASSUME NEW m \in 1 .. n, m - 1 \in Good
      PROVE  m \in Good
  <2>1. Turns(upTo[m - 1], positions, m - 1)
    BY <1>6
  <2>2. upTo[m] = IF m \in positions THEN Append(upTo[m - 1], m) ELSE upTo[m - 1]
    BY <1>4 DEF add
  <2>3. Turns(upTo[m], positions, m)
    BY <2>1, <2>2, TurnsGrow
  <2>. QED BY <2>3
<1>7. n \in Good
  <2>. HIDE DEF Good
  <2>1. Good = 0 .. n
    BY <1>5, <1>6, UpTo
  <2>. QED BY <2>1
<1>. QED BY <1>1, <1>7

\* Of consecutive positions the k-th is k places on.
LEMMA Consecutive ==
  ASSUME NEW a \in Nat, NEW n \in Nat, a <= n, NEW positions, NEW order, Turns(order, positions, n),
         \A m \in 1 .. n : m \in positions <=> a < m
  PROVE  Len(order) = n - a /\ \A k \in 1 .. (n - a) : order[k] = a + k
<1>1. /\ order \in Seq(1 .. n) /\ Len(order) \in Nat /\ DOMAIN order = 1 .. Len(order)
      /\ \A k \in 1 .. Len(order) : order[k] \in 1 .. n /\ a < order[k]
  BY DEF Turns
<1>0. \A j, k \in 1 .. Len(order) : j < k => order[j] < order[k]
  <2>1. \A j, k \in DOMAIN order : j < k => order[j] < order[k]
    BY DEF Turns
  <2>. QED BY <1>1, <2>1, Zenon
<1> DEFINE Good == {k \in 0 .. (n - a) : \A j \in 1 .. k : j <= Len(order) /\ order[j] = a + j}
<1>2. 0 \in Good /\ Good \in SUBSET (0 .. (n - a))
  OBVIOUS
<1>3. ASSUME NEW k \in 1 .. (n - a), k - 1 \in Good
      PROVE  k \in Good
  <2>1. \A j \in 1 .. (k - 1) : j <= Len(order) /\ order[j] = a + j
    BY <1>3
  <2>2. a + k \in 1 .. n /\ a < a + k
    OBVIOUS
  <2>3. PICK i \in 1 .. Len(order) : order[i] = a + k
    BY <1>1, <2>2 DEF Turns
  <2>4. i >= k
    <3>1. CASE i < k
      <4>1. i \in 1 .. (k - 1)
        BY <1>1, <3>1
      <4>. QED BY <2>1, <2>3, <4>1
    <3>. QED BY <1>1, <3>1
  <2>5. k \in 1 .. Len(order) /\ order[k] <= order[i]
    <3>1. k \in 1 .. Len(order) /\ i \in 1 .. Len(order) /\ order[k] \in Nat /\ order[i] \in Nat
      BY <1>1, <2>4
    <3>2. CASE k = i
      BY <3>1, <3>2
    <3>3. CASE k # i
      <4>1. k < i
        BY <2>4, <3>1, <3>3
      <4>2. order[k] < order[i]
        BY <1>0, <3>1, <4>1
      <4>. QED BY <3>1, <4>2
    <3>. QED BY <3>1, <3>2, <3>3
  <2>6. order[k] >= a + k
    <3>1. CASE k = 1
      BY <1>1, <2>5, <3>1
    <3>2. CASE k # 1
      <4>1. k - 1 \in 1 .. (k - 1) /\ k - 1 \in 1 .. Len(order) /\ k - 1 < k
        BY <2>5, <3>2
      <4>2. order[k - 1] < order[k] /\ order[k - 1] = a + (k - 1)
        BY <1>1, <2>1, <2>5, <4>1 DEF Turns
      <4>. QED BY <1>1, <2>5, <4>1, <4>2
    <3>. QED BY <3>1, <3>2
  <2>7. order[k] = a + k /\ k <= Len(order)
    BY <1>1, <2>3, <2>5, <2>6
  <2>8. \A j \in 1 .. k : j = k \/ j \in 1 .. (k - 1)
    OBVIOUS
  <2>. QED BY <2>1, <2>7, <2>8
<1>4. n - a \in Good
  <2>0. n - a \in Nat
    OBVIOUS
  <2>. HIDE DEF Good
  <2> DEFINE N == n - a
  <2>1. N \in Nat /\ 0 \in Good /\ Good \in SUBSET (0 .. N) /\ \A k \in 1 .. N : k - 1 \in Good => k \in Good
    BY <1>2, <1>3, <2>0
  <2>. HIDE DEF N
  <2>2. Good = 0 .. N
    BY <2>1, UpTo
  <2>. QED BY <2>1, <2>2 DEF N
<1>5. \A j \in 1 .. (n - a) : j <= Len(order) /\ order[j] = a + j
  BY <1>4
<1>6. Len(order) <= n - a
  <2>1. CASE Len(order) > n - a
    <3>1. Len(order) \in 1 .. Len(order) /\ order[Len(order)] \in 1 .. n
      BY <1>1, <2>1
    <3>2. CASE n - a = 0
      BY <1>1, <3>1, <3>2
    <3>3. CASE n - a # 0
      <4>1. n - a \in 1 .. (n - a) /\ n - a \in 1 .. Len(order)
        BY <1>1, <2>1, <3>3
      <4>2. order[n - a] = n
        BY <1>5, <4>1
      <4>3. order[n - a] < order[Len(order)]
        BY <1>1, <2>1, <3>1, <4>1 DEF Turns
      <4>. QED BY <3>1, <4>2, <4>3
    <3>. QED BY <3>2, <3>3
  <2>. QED BY <1>1, <2>1
<1>7. Len(order) >= n - a
  BY <1>1, <1>5
<1>. QED BY <1>1, <1>5, <1>6, <1>7

\* What At returns.
LEMMA AtIs ==
  ASSUME NEW E, NEW events \in Seq(E), NEW positions
  PROVE  \E order : /\ Turns(order, positions, Len(events))
                    /\ At(events, positions) \in Seq(E) /\ Len(At(events, positions)) = Len(order)
                    /\ \A k \in DOMAIN order : At(events, positions)[k] = events[order[k]]
<1> DEFINE order == InTurn(positions, Len(events))
           N == Len(order)
           f == [k \in 1 .. N |-> events[order[k]]]
<1>0. Len(events) \in Nat
  OBVIOUS
<1>1. Turns(order, positions, Len(events))
  BY <1>0, InTurnIs
<1>2. At(events, positions) = [k \in DOMAIN order |-> events[order[k]]] \o <<>>
  BY DEF At
<1>. HIDE DEF order
<1>3. N \in Nat /\ DOMAIN order = 1 .. N /\ \A k \in 1 .. N : order[k] \in 1 .. Len(events)
  BY <1>1 DEF Turns
<1>. HIDE DEF N
<1>4. f \in [1 .. N -> E] /\ \A k \in 1 .. N : f[k] = events[order[k]]
  BY <1>3
<1>5. At(events, positions) = f \o <<>>
  BY <1>2, <1>3
<1>. HIDE DEF f
<1>6. At(events, positions) = f /\ f \in Seq(E) /\ Len(f) = N
  BY <1>3, <1>4, <1>5, AsItIs
<1>. QED BY <1>1, <1>3, <1>4, <1>6 DEF N

-----------------------------------------------------------------------------
(* A session, a stretch of it, and what was tried in it.                   *)

\* A session as it is stored: every event at its place, no later than the next one.
LogOf(l) ==
  /\ l \in Seq(Event)
  /\ \A n \in DOMAIN l : l[n].at = n /\ l[n].ts >= 1 /\ (l[n].type # "done" => l[n].of = n)
  /\ \A m, n \in DOMAIN l : m < n => l[m].ts <= l[n].ts

\* Some of its events; and some in their order.
Drawn(l, events) ==
  /\ events \in Seq(Event)
  /\ \A k \in DOMAIN events : events[k].at \in DOMAIN l /\ events[k] = l[events[k].at]
Stretch(l, events) ==
  /\ Drawn(l, events)
  /\ \A j, k \in DOMAIN events : j < k => events[j].at < events[k].at

\* Events read by their positions are a stretch of the session, with those positions.
LEMMA ReadIsStretch ==
  ASSUME NEW l, LogOf(l), NEW positions
  PROVE  /\ Stretch(l, At(l, positions))
         /\ \A k \in DOMAIN At(l, positions) : At(l, positions)[k].at \in positions
<1>1. PICK order : /\ Turns(order, positions, Len(l))
                   /\ At(l, positions) \in Seq(Event) /\ Len(At(l, positions)) = Len(order)
                   /\ \A k \in DOMAIN order : At(l, positions)[k] = l[order[k]]
  BY AtIs DEF LogOf
<1> DEFINE events == At(l, positions)
<1>2. /\ DOMAIN events = 1 .. Len(events) /\ DOMAIN l = 1 .. Len(l) /\ DOMAIN order = 1 .. Len(order)
      /\ Len(order) = Len(events) /\ events \in Seq(Event)
      /\ \A k \in 1 .. Len(order) : order[k] \in 1 .. Len(l) /\ order[k] \in positions
  <2>1. order \in Seq(1 .. Len(l)) /\ l \in Seq(Event)
    BY <1>1 DEF Turns, LogOf
  <2>2. \A k \in DOMAIN order : order[k] \in positions
    BY <1>1 DEF Turns
  <2>. QED BY <1>1, <2>1, <2>2
<1>3. \A k \in 1 .. Len(order) : events[k] = l[order[k]] /\ events[k].at = order[k]
  BY <1>1, <1>2 DEF LogOf
<1>4. \A j, k \in 1 .. Len(order) : j < k => order[j] < order[k]
  <2>1. \A j, k \in DOMAIN order : j < k => order[j] < order[k]
    BY <1>1 DEF Turns
  <2>. QED BY <1>2, <2>1, Zenon
<1>. HIDE DEF events
<1>5. \A k \in DOMAIN events : events[k].at \in DOMAIN l /\ events[k] = l[events[k].at] /\ events[k].at \in positions
  BY <1>2, <1>3
<1>6. \A j, k \in DOMAIN events : j < k => events[j].at < events[k].at
  BY <1>2, <1>3, <1>4
<1>7. Stretch(l, events)
  BY <1>2, <1>5, <1>6 DEF Stretch, Drawn
<1>. QED BY <1>5, <1>7 DEF events

\* The first of a stretch are one.
LEMMA FirstOfStretch ==
  ASSUME NEW l, NEW events, Stretch(l, events), NEW n \in 0 .. Len(events)
  PROVE  /\ Stretch(l, SubSeq(events, 1, n)) /\ Len(SubSeq(events, 1, n)) = n
         /\ \A k \in 1 .. n : SubSeq(events, 1, n)[k] = events[k]
<1>1. events \in Seq(Event) /\ Len(events) \in Nat /\ DOMAIN events = 1 .. Len(events)
  BY DEF Stretch, Drawn
<1> DEFINE first == SubSeq(events, 1, n)
<1>2. /\ first \in Seq(Event) /\ Len(first) = n /\ DOMAIN first = 1 .. n
      /\ \A k \in 1 .. n : first[k] = events[k] /\ k \in 1 .. Len(events)
  BY <1>1
<1>. HIDE DEF first
<1>3. \A k \in DOMAIN first : first[k].at \in DOMAIN l /\ first[k] = l[first[k].at]
  BY <1>1, <1>2 DEF Stretch, Drawn
<1>4. \A j, k \in 1 .. Len(events) : j < k => events[j].at < events[k].at
  <2>1. \A j, k \in DOMAIN events : j < k => events[j].at < events[k].at
    BY DEF Stretch, Drawn
  <2>. QED BY <1>1, <2>1, Zenon
<1>5. \A j, k \in DOMAIN first : j < k => first[j].at < first[k].at
  BY <1>2, <1>4
<1>6. Stretch(l, first)
  BY <1>2, <1>3, <1>5 DEF Stretch, Drawn
<1>. QED BY <1>2, <1>6 DEF first

\* So is one after another, where the second is later.
LEMMA JoinedStretch ==
  ASSUME NEW l, NEW a, NEW b, Stretch(l, a), Stretch(l, b)
  PROVE  /\ Drawn(l, a \o b)
         /\ (\A j \in DOMAIN a, k \in DOMAIN b : a[j].at < b[k].at) => Stretch(l, a \o b)
<1> DEFINE both == a \o b
<1>1. /\ a \in Seq(Event) /\ b \in Seq(Event) /\ Len(a) \in Nat /\ Len(b) \in Nat
      /\ DOMAIN a = 1 .. Len(a) /\ DOMAIN b = 1 .. Len(b)
  BY DEF Stretch, Drawn
<1>2. /\ both \in Seq(Event) /\ DOMAIN both = 1 .. (Len(a) + Len(b))
      /\ \A n \in 1 .. (Len(a) + Len(b)) : both[n] = IF n <= Len(a) THEN a[n] ELSE b[n - Len(a)]
  BY <1>1
<1>. HIDE DEF both
<1>3. \A n \in 1 .. (Len(a) + Len(b)) :
        \/ n \in DOMAIN a /\ both[n] = a[n]
        \/ n > Len(a) /\ n - Len(a) \in DOMAIN b /\ both[n] = b[n - Len(a)]
  BY <1>1, <1>2
<1>4. \A n \in DOMAIN both : both[n].at \in DOMAIN l /\ both[n] = l[both[n].at]
  BY <1>2, <1>3 DEF Stretch, Drawn
<1>5. ASSUME NEW j \in DOMAIN both, NEW k \in DOMAIN both, j < k,
             \A m \in DOMAIN a, n \in DOMAIN b : a[m].at < b[n].at
      PROVE  both[j].at < both[k].at
  <2>1. CASE j \in DOMAIN a /\ both[j] = a[j]
    <3>1. CASE k \in DOMAIN a /\ both[k] = a[k]
      BY <1>5, <2>1, <3>1 DEF Stretch, Drawn
    <3>2. CASE k > Len(a) /\ k - Len(a) \in DOMAIN b /\ both[k] = b[k - Len(a)]
      BY <1>5, <2>1, <3>2
    <3>. QED BY <1>2, <1>3, <3>1, <3>2
  <2>2. CASE j > Len(a) /\ j - Len(a) \in DOMAIN b /\ both[j] = b[j - Len(a)]
    <3>1. k > Len(a) /\ k - Len(a) \in DOMAIN b /\ both[k] = b[k - Len(a)]
      BY <1>1, <1>2, <1>3, <1>5, <2>2
    <3>2. j - Len(a) < k - Len(a)
      BY <1>1, <1>2, <1>5
    <3>3. \A x, y \in DOMAIN b : x < y => b[x].at < b[y].at
      BY DEF Stretch, Drawn
    <3>. QED BY <2>2, <3>1, <3>2, <3>3
  <2>. QED BY <1>2, <1>3, <2>1, <2>2
<1>. QED BY <1>2, <1>4, <1>5 DEF Stretch, Drawn, both

Try == [key : Key, out : Outcome, callAt : Nat, resultAt : Nat]

\* Each attempt is a call among the events with an outcome of its own, in the order of calls.
Tries(events, a) ==
  /\ a \in Try /\ a.callAt \in DOMAIN events /\ a.resultAt \in DOMAIN events
  /\ events[a.resultAt].of = events[a.callAt].at
  /\ \/ a.callAt = a.resultAt /\ events[a.callAt].type = "ran"
     \/ a.callAt < a.resultAt /\ events[a.callAt].type = "call" /\ events[a.resultAt].type = "done"
Tried(events, attempts) ==
  /\ attempts \in Seq(Try)
  /\ \A i \in DOMAIN attempts : Tries(events, attempts[i])
  /\ \A i, j \in DOMAIN attempts : i < j => attempts[i].callAt < attempts[j].callAt

Answered(events, c, n) ==
  /\ n \in DOMAIN events /\ events[n].of = events[c].at
  /\ \/ c = n /\ events[c].type = "ran"
     \/ c < n /\ events[c].type = "call" /\ events[n].type = "done"

\* A call and the outcome that is found for it.
LEMMA AttemptIs ==
  ASSUME NEW l, LogOf(l), NEW events, Drawn(l, events), NEW c \in DOMAIN events, Outcomes(events, c) # {}
  PROVE  Tries(events, Attempt(events, c)) /\ Attempt(events, c).callAt = c
<1>1. events \in Seq(Event) /\ Len(events) \in Nat /\ DOMAIN events = 1 .. Len(events) /\ events[c] \in Event
  BY DEF Drawn
<1>2. events[c].type \in {"call", "done", "ran", "said"}
  BY <1>1 DEF Event
<1> DEFINE S == Outcomes(events, c)
           n == Min(S)
<1>3. ASSUME events[c].type = "ran"
      PROVE  Answered(events, c, n)
  <2>1. S = {c}
    BY <1>3 DEF Outcomes
  <2>2. IsFiniteSet(S) /\ S \in SUBSET Int /\ S # {}
    <3>. HIDE DEF S
    <3>1. IsFiniteSet({c})
      BY FS_Singleton
    <3>2. {c} \in SUBSET Int /\ {c} # {}
      BY <1>1
    <3>. QED BY <2>1, <3>1, <3>2
  <2>3. n = c
    <3>. HIDE DEF S
    <3>. QED BY <2>1, <2>2, MinIsLeast
  <2>4. events[c].of = events[c].at
    BY <1>3 DEF Drawn, LogOf
  <2>5. Answered(events, c, n)
    <3>. HIDE DEF n
    <3>. QED BY <1>3, <2>3, <2>4 DEF Answered
  <2>. QED BY <2>5
<1>4. ASSUME events[c].type = "call"
      PROVE  Answered(events, c, n)
  <2>1. S = {k \in (c + 1) .. Len(events) : events[k].type = "done" /\ events[k].of = events[c].at}
    BY <1>4 DEF Outcomes
  <2>2. S \in SUBSET ((c + 1) .. Len(events)) /\ S \in SUBSET Int
    <3>1. \A k \in S : k \in (c + 1) .. Len(events) /\ k \in Int
      BY <1>1, <2>1
    <3>. HIDE DEF S
    <3>. QED BY <3>1
  <2>3. IsFiniteSet(S)
    <3>. HIDE DEF S
    <3>1. IsFiniteSet((c + 1) .. Len(events))
      BY <1>1, FS_Interval
    <3>. QED BY <2>2, <3>1, FS_Subset
  <2>4. n \in S
    <3>. HIDE DEF S
    <3>1. S # {}
      BY DEF S
    <3>. QED BY <2>2, <2>3, <3>1, MinIsLeast
  <2>5. n \in (c + 1) .. Len(events) /\ events[n].type = "done" /\ events[n].of = events[c].at
    <3>. HIDE DEF n
    <3>. QED BY <2>1, <2>4
  <2>6. Answered(events, c, n)
    <3>. HIDE DEF n
    <3>. QED BY <1>1, <1>4, <2>5 DEF Answered
  <2>. QED BY <2>6
<1>5. events[c].type \in {"call", "ran"}
  BY <1>2 DEF Outcomes
<1>6. Answered(events, c, n)
  BY <1>3, <1>4, <1>5
<1>7. Attempt(events, c) = [key |-> events[c].key, out |-> events[n].out, callAt |-> c, resultAt |-> n]
  BY DEF Attempt
<1>. HIDE DEF n
<1>8. events[c].key \in Key /\ events[n].out \in Outcome /\ c \in Nat /\ n \in Nat /\ n \in DOMAIN events
  <2>1. n \in DOMAIN events /\ n \in Nat /\ c \in Nat
    BY <1>1, <1>6 DEF Answered
  <2>2. events[n] \in Event
    BY <1>1, <2>1
  <2>. QED BY <1>1, <2>1, <2>2 DEF Event
<1>9. PICK a : a = Attempt(events, c)
  OBVIOUS
<1>10. a \in Try /\ a.callAt = c /\ a.resultAt = n
  BY <1>7, <1>8, <1>9 DEF Try
<1>11. Answered(events, a.callAt, a.resultAt)
  BY <1>6, <1>10
<1>12. Tries(events, a)
  BY <1>10, <1>11 DEF Tries, Answered
<1>. QED BY <1>9, <1>10, <1>12

\* The attempts of some events, and which calls they are of.
LEMMA AttemptsAre ==
  ASSUME NEW l, LogOf(l), NEW events, Drawn(l, events)
  PROVE  Tried(events, collectAttempts(events))
<1> DEFINE heard == {c \in DOMAIN events : Outcomes(events, c) # {}}
           calls == InTurn(heard, Len(events))
           N == Len(calls)
           f == [i \in 1 .. N |-> Attempt(events, calls[i])]
<1>0. events \in Seq(Event) /\ Len(events) \in Nat /\ DOMAIN events = 1 .. Len(events)
  BY DEF Drawn
<1>1. Turns(calls, heard, Len(events))
  <2>. HIDE DEF heard
  <2>. QED BY <1>0, InTurnIs
<1>2. collectAttempts(events) = [i \in DOMAIN calls |-> Attempt(events, calls[i])] \o <<>>
  BY DEF collectAttempts
<1>3. \A c \in heard : Tries(events, Attempt(events, c)) /\ Attempt(events, c).callAt = c
  BY AttemptIs
<1>. HIDE DEF heard, calls
<1>4. N \in Nat /\ DOMAIN calls = 1 .. N /\ \A i \in 1 .. N : calls[i] \in heard
  BY <1>1 DEF Turns
<1>5. \A i, j \in 1 .. N : i < j => calls[i] < calls[j]
  <2>1. \A i, j \in DOMAIN calls : i < j => calls[i] < calls[j]
    BY <1>1 DEF Turns
  <2>. QED BY <1>4, <2>1, Zenon
<1>. HIDE DEF N
<1>6. \A i \in 1 .. N : f[i] = Attempt(events, calls[i]) /\ Tries(events, f[i]) /\ f[i].callAt = calls[i]
  BY <1>3, <1>4
<1>7. collectAttempts(events) = f \o <<>> /\ f \in [1 .. N -> Try]
  <2>1. f \in [1 .. N -> Try]
    <3>1. \A i \in 1 .. N : Attempt(events, calls[i]) \in Try
      BY <1>3, <1>4 DEF Tries
    <3>. QED BY <3>1
  <2>. QED BY <1>2, <1>4, <2>1
<1>. HIDE DEF f
<1>8. collectAttempts(events) = f /\ f \in Seq(Try) /\ DOMAIN f = 1 .. N
  BY <1>4, <1>7, AsItIs
<1>9. \A i, j \in DOMAIN f : i < j => f[i].callAt < f[j].callAt
  BY <1>5, <1>6, <1>8
<1>. QED BY <1>6, <1>8, <1>9 DEF Tried

-----------------------------------------------------------------------------
(* Recoveries.                                                             *)

\* The success j comes after the failure i, the latest of its tool, and teaches.
Cures(attempts, fresh, i, j) ==
  /\ j \in DOMAIN attempts /\ attempts[j].out = "ok" /\ attempts[j].resultAt \in fresh
  /\ FailuresBefore(attempts, j) # {} /\ i = Max(FailuresBefore(attempts, j))
  /\ Reacts(attempts[i], attempts[j]) /\ buildRecovery(attempts[i], attempts[j])

\* The latest failure is one of them, and comes before.
LEMMA LatestFailure ==
  ASSUME NEW attempts \in Seq(Try), NEW j \in DOMAIN attempts, FailuresBefore(attempts, j) # {}
  PROVE  LET i == Max(FailuresBefore(attempts, j)) IN
           /\ i \in FailuresBefore(attempts, j) /\ i \in 1 .. (j - 1)
           /\ \A k \in FailuresBefore(attempts, j) : k <= i
<1> DEFINE S == FailuresBefore(attempts, j)
           i == Max(S)
<1>1. S \in SUBSET (1 .. (j - 1)) /\ S \in SUBSET Int /\ S # {}
  <2>1. RECOVERY_WINDOW \in Nat /\ j \in Nat
    BY AttemptsAssumption
  <2>2. \A k \in S : k \in 1 .. (j - 1) /\ k \in Int
    BY <2>1 DEF FailuresBefore
  <2>. QED BY <2>2
<1>2. IsFiniteSet(S)
  <2>. HIDE DEF S
  <2>1. IsFiniteSet(1 .. (j - 1))
    BY FS_Interval
  <2>. QED BY <1>1, <2>1, FS_Subset
<1>3. i \in S /\ \A k \in S : k <= i
  <2>. HIDE DEF S
  <2>. QED BY <1>1, <1>2, MaxIsGreatest
<1>. QED BY <1>1, <1>3

\* What findRecoveries finds: cures only, and of every failure that was cured one.
LEMMA RecoveriesAre ==
  ASSUME NEW attempts \in Seq(Try), NEW fresh
  PROVE  /\ \A pair \in findRecoveries(attempts, fresh) : \E i, j \in DOMAIN attempts :
              pair = <<i, j>> /\ i < j /\ Cures(attempts, fresh, i, j)
         /\ \A i, j \in DOMAIN attempts : Cures(attempts, fresh, i, j) =>
              \E pair \in findRecoveries(attempts, fresh) : pair[1] = i
<1> DEFINE N == Len(attempts)
           Pairs(j, found) ==
             LET i == Max(FailuresBefore(attempts, j)) IN
             IF /\ \A pair \in found : pair[1] # i
                /\ Reacts(attempts[i], attempts[j]) /\ buildRecovery(attempts[i], attempts[j])
             THEN {<<i, j>>} ELSE {}
           successes == {j \in DOMAIN attempts : /\ attempts[j].out = "ok" /\ attempts[j].resultAt \in fresh
                                                 /\ FailuresBefore(attempts, j) # {}}
           add(s, j) == s \cup IF j \in successes THEN Pairs(j, s) ELSE {}
           Fold(f) == f = [j \in 0 .. N |-> IF j = 0 THEN {} ELSE add(f[j - 1], j)]
           found == CHOOSE f : Fold(f)
           S == SUBSET (Nat \X Nat)
           start == {}
           F == [j \in 1 .. N |-> [s \in S |-> add(s, j)]]
<1>1. findRecoveries(attempts, fresh) = found[N]
  BY DEF findRecoveries
<1>2. N \in Nat /\ DOMAIN attempts = 1 .. N
  OBVIOUS
<1>3. ASSUME NEW j \in 1 .. N, NEW s
      PROVE  LET new == IF j \in successes THEN Pairs(j, s) ELSE {} IN
               /\ \A pair \in new : \E i \in 1 .. N : pair = <<i, j>> /\ i < j /\ Cures(attempts, fresh, i, j)
               /\ \A i : Cures(attempts, fresh, i, j) => \E pair \in s \cup new : pair[1] = i
  <2> DEFINE i == Max(FailuresBefore(attempts, j))
             new == IF j \in successes THEN Pairs(j, s) ELSE {}
  <2>1. CASE j \in successes
    <3>1. FailuresBefore(attempts, j) # {} /\ attempts[j].out = "ok" /\ attempts[j].resultAt \in fresh
      BY <2>1
    <3>2. i \in 1 .. (j - 1)
      BY <1>2, <3>1, LatestFailure
    <3>. HIDE DEF i, successes
    <3>3. i \in 1 .. N /\ i < j
      BY <3>2
    <3>4. \A k : Cures(attempts, fresh, k, j) => k = i
      BY DEF Cures, i
    <3>5. new = IF /\ \A pair \in s : pair[1] # i
                   /\ Reacts(attempts[i], attempts[j]) /\ buildRecovery(attempts[i], attempts[j])
                THEN {<<i, j>>} ELSE {}
      BY <2>1 DEF i
    <3>6. Reacts(attempts[i], attempts[j]) /\ buildRecovery(attempts[i], attempts[j])
            <=> Cures(attempts, fresh, i, j)
      BY <1>2, <3>1 DEF Cures, i
    <3>. HIDE DEF new, Pairs
    <3>7. \A pair \in new : pair = <<i, j>> /\ Cures(attempts, fresh, i, j)
      BY <3>5, <3>6
    <3>8. Cures(attempts, fresh, i, j) => \E pair \in s \cup new : pair[1] = i
      <4>1. CASE ~ \A pair \in s : pair[1] # i
        BY <4>1
      <4>2. ASSUME \A pair \in s : pair[1] # i, Cures(attempts, fresh, i, j)
            PROVE  \E pair \in s \cup new : pair[1] = i
        <5>1. new = {<<i, j>>}
          BY <3>5, <3>6, <4>2
        <5>2. <<i, j>> \in s \cup new /\ <<i, j>>[1] = i
          BY <5>1
        <5>. QED BY <5>2
      <4>. QED BY <4>1, <4>2
    <3>9. \A pair \in new : \E k \in 1 .. N : pair = <<k, j>> /\ k < j /\ Cures(attempts, fresh, k, j)
      BY <3>3, <3>7
    <3>10. \A k : Cures(attempts, fresh, k, j) => \E pair \in s \cup new : pair[1] = k
      BY <3>4, <3>8
    <3>. QED BY <3>9, <3>10 DEF new
  <2>2. CASE j \notin successes
    BY <2>2 DEF Cures
  <2>. QED BY <2>1, <2>2
<1>. HIDE DEF successes, Pairs, N
<1>4. ASSUME NEW j \in 1 .. N, NEW s \in S
      PROVE  add(s, j) \in S
  <2> DEFINE new == IF j \in successes THEN Pairs(j, s) ELSE {}
  <2>1. \A pair \in new : \E i \in 1 .. N : pair = <<i, j>>
    BY <1>3
  <2>2. \A i \in 1 .. N : <<i, j>> \in Nat \X Nat
    BY <1>2
  <2>. HIDE DEF new
  <2>3. new \in S
    BY <2>1, <2>2
  <2>. QED BY <2>3 DEF new
<1>5. F \in [1 .. N -> [S -> S]] /\ start \in S
  <2>1. ASSUME NEW j \in 1 .. N
        PROVE  [s \in S |-> add(s, j)] \in [S -> S]
    <3>1. \A s \in S : add(s, j) \in S
      BY <1>4
    <3>. HIDE DEF add, S
    <3>. QED BY <3>1
  <2>. QED BY <2>1
<1>6. ASSUME NEW j \in 1 .. N, NEW s
      PROVE  /\ s \subseteq add(s, j)
             /\ \A pair \in add(s, j) : pair \in s \/
                  \E i \in 1 .. N : pair = <<i, j>> /\ i < j /\ Cures(attempts, fresh, i, j)
             /\ \A i : Cures(attempts, fresh, i, j) => \E pair \in add(s, j) : pair[1] = i
  BY <1>3
<1>. HIDE DEF add, S
<1>7. Fold(found)
  <2>1. PICK f \in [0 .. N -> S] : f[0] = start /\ \A j \in 1 .. N : f[j] = F[j][f[j - 1]]
    <3>. HIDE DEF F, start
    <3>1. Runs(F, S, start, N)
      BY <1>2, <1>5, RecursionExists
    <3>. QED BY <3>1 DEF Runs
  <2>2. ASSUME NEW j \in 0 .. N
        PROVE  f[j] = IF j = 0 THEN start ELSE add(f[j - 1], j)
    <3>1. CASE j = 0
      <4>. HIDE DEF F
      <4>. QED BY <2>1, <3>1
    <3>2. CASE j # 0
      <4>1. j \in 1 .. N /\ j - 1 \in 0 .. N
        BY <1>2, <3>2
      <4>2. f[j - 1] \in S /\ f[j] = F[j][f[j - 1]]
        <5>. HIDE DEF F
        <5>. QED BY <2>1, <4>1
      <4>3. F[j][f[j - 1]] = add(f[j - 1], j)
        BY <4>1, <4>2
      <4>. HIDE DEF F
      <4>. QED BY <3>2, <4>2, <4>3
    <3>. QED BY <3>1, <3>2
  <2>3. f = [j \in 0 .. N |-> f[j]]
    BY <2>1
  <2>4. Fold(f)
    BY <2>2, <2>3
  <2>. HIDE DEF Fold
  <2>. QED BY <2>4
<1>. HIDE DEF found
<1>8. found[0] = {} /\ \A j \in 1 .. N : found[j] = add(found[j - 1], j)
  <2>1. found[0] = {}
    BY <1>2, <1>7
  <2>2. ASSUME NEW j \in 1 .. N
        PROVE  found[j] = add(found[j - 1], j)
    <3>1. j \in 0 .. N /\ j # 0
      BY <1>2
    <3>2. \A k \in 0 .. N : found[k] = IF k = 0 THEN {} ELSE add(found[k - 1], k)
      BY <1>7
    <3>. HIDE DEF Fold
    <3>. QED BY <3>1, <3>2
  <2>. QED BY <2>1, <2>2
<1>. HIDE DEF Fold
<1> DEFINE Sound(j) == \A pair \in found[j] : \E x, y \in 1 .. N :
                         pair = <<x, y>> /\ x < y /\ Cures(attempts, fresh, x, y)
           Whole(j) == \A x \in 1 .. N, y \in 1 .. j : Cures(attempts, fresh, x, y) =>
                         \E pair \in found[j] : pair[1] = x
           Good == {j \in 0 .. N : Sound(j) /\ Whole(j)}
<1>9. 0 \in Good /\ Good \in SUBSET (0 .. N)
  BY <1>2, <1>8
<1>10. ASSUME NEW j \in 1 .. N, j - 1 \in Good
       PROVE  j \in Good
  <2>1. Sound(j - 1) /\ Whole(j - 1)
    BY <1>10
  <2>2. found[j] = add(found[j - 1], j)
    BY <1>8
  <2>3. /\ found[j - 1] \subseteq found[j]
        /\ \A pair \in found[j] : pair \in found[j - 1] \/
             \E x \in 1 .. N : pair = <<x, j>> /\ x < j /\ Cures(attempts, fresh, x, j)
        /\ \A x : Cures(attempts, fresh, x, j) => \E pair \in found[j] : pair[1] = x
    BY <1>6, <2>2
  <2>4. Sound(j)
    BY <2>1, <2>3
  <2>5. Whole(j)
    <3>1. \A y \in 1 .. j : y = j \/ y \in 1 .. (j - 1)
      OBVIOUS
    <3>. QED BY <2>1, <2>3, <3>1
  <2>. QED BY <1>2, <2>4, <2>5
<1>11. N \in Good
  <2>. HIDE DEF Good
  <2>1. Good = 0 .. N
    BY <1>2, <1>9, <1>10, UpTo
  <2>. QED BY <1>2, <2>1
<1>12. Sound(N) /\ Whole(N)
  BY <1>11
<1>. HIDE DEF Good
<1>. QED BY <1>1, <1>2, <1>12

\* The pairs of outcomes a fold finds are of what is stored, the second of the batch; where
\* the batch is the newest of what the fold reads, the call of the success came after the
\* failure was back.
LEMMA LearnedIs ==
  ASSUME LogOf(log), stored \subseteq DOMAIN log, NEW batch \in SUBSET stored
  PROVE  /\ learnRecoveries(batch) \subseteq stored \X batch
         /\ (\A n \in recentToolEvents(batch), m \in batch : ~(n > m)) =>
              \A pair \in learnRecoveries(batch) : pair[1] <= log[pair[2]].of
<1> DEFINE old == At(log, recentToolEvents(batch))
           new == At(log, batch)
           events == old \o new
           attempts == collectAttempts(events)
           fresh == {n \in DOMAIN events : events[n].at \in batch}
           Place(i) == events[attempts[i].resultAt].at
<1>1. learnRecoveries(batch) =
        {<<Place(pair[1]), Place(pair[2])>> : pair \in findRecoveries(attempts, fresh)}
  BY DEF learnRecoveries
<1>2. /\ Stretch(log, old) /\ Stretch(log, new)
      /\ \A k \in DOMAIN old : old[k].at \in recentToolEvents(batch)
      /\ \A k \in DOMAIN new : new[k].at \in batch
  BY ReadIsStretch
<1>3. Drawn(log, events)
  <2>. HIDE DEF old, new
  <2>. QED BY <1>2, JoinedStretch
<1>4. (\A n \in recentToolEvents(batch), m \in batch : ~(n > m)) => Stretch(log, events)
  <2> SUFFICES ASSUME \A n \in recentToolEvents(batch), m \in batch : ~(n > m)
               PROVE  Stretch(log, events)
    OBVIOUS
  <2>1. recentToolEvents(batch) \subseteq stored \ batch
    BY DEF recentToolEvents
  <2>2. \A n \in stored : n \in Nat
    BY DEF LogOf
  <2>3. \A n \in recentToolEvents(batch), m \in batch : n < m
    <3> SUFFICES ASSUME NEW n \in recentToolEvents(batch), NEW m \in batch PROVE n < m
      OBVIOUS
    <3>1. n \in Nat /\ m \in Nat /\ n # m /\ ~(n > m)
      BY <2>1, <2>2
    <3>. QED BY <3>1
  <2>. HIDE DEF old, new
  <2>4. \A j \in DOMAIN old, k \in DOMAIN new : old[j].at < new[k].at
    BY <1>2, <2>3
  <2>. QED BY <1>2, <2>4, JoinedStretch
<1>. HIDE DEF events
<1>5. Tried(events, attempts)
  BY <1>3, AttemptsAre
<1>. HIDE DEF attempts
<1>6. attempts \in Seq(Try) /\ \A i \in DOMAIN attempts : Tries(events, attempts[i])
  BY <1>5 DEF Tried
<1>7. \A i \in DOMAIN attempts : /\ Place(i) \in stored /\ events[attempts[i].resultAt] = log[Place(i)]
                                 /\ attempts[i].resultAt \in fresh => Place(i) \in batch
  <2>1. \A x \in DOMAIN events : events[x].at \in stored /\ events[x] = log[events[x].at]
    <3>1. \A k \in DOMAIN old : old[k].at \in stored
      BY <1>2 DEF recentToolEvents
    <3>2. \A k \in DOMAIN new : new[k].at \in stored
      BY <1>2
    <3>3. old \in Seq(Event) /\ new \in Seq(Event)
      BY <1>2 DEF Stretch, Drawn
    <3>4. \A x \in DOMAIN events : events[x] = log[events[x].at]
      BY <1>3 DEF Drawn
    <3>. HIDE DEF old, new
    <3>5. \A x \in DOMAIN (old \o new) : \/ x \in DOMAIN old /\ (old \o new)[x] = old[x]
                                       \/ \E k \in DOMAIN new : (old \o new)[x] = new[k]
      BY <3>3
    <3>. QED BY <3>1, <3>2, <3>4, <3>5 DEF events
  <2>2. \A i \in DOMAIN attempts : attempts[i].resultAt \in DOMAIN events
    BY <1>6 DEF Tries
  <2>. QED BY <2>1, <2>2
<1>. HIDE DEF fresh
<1>8. \A pair \in findRecoveries(attempts, fresh) : \E i, j \in DOMAIN attempts :
        pair = <<i, j>> /\ Cures(attempts, fresh, i, j)
  BY <1>6, RecoveriesAre
<1>9. \A i, j \in DOMAIN attempts : Stretch(log, events) /\ Cures(attempts, fresh, i, j) =>
        Place(i) <= log[Place(j)].of
  <2> SUFFICES ASSUME NEW i \in DOMAIN attempts, NEW j \in DOMAIN attempts,
                      Stretch(log, events), Cures(attempts, fresh, i, j)
               PROVE  Place(i) <= log[Place(j)].of
    OBVIOUS
  <2>1. /\ attempts[i].resultAt \in DOMAIN events /\ attempts[j].callAt \in DOMAIN events
        /\ events[attempts[j].resultAt].of = events[attempts[j].callAt].at
    BY <1>6 DEF Tries
  <2>2. attempts[j].callAt >= attempts[i].resultAt
    BY DEF Cures, Reacts
  <2>3. events \in Seq(Event) /\ DOMAIN events = 1 .. Len(events)
    BY <1>3 DEF Drawn
  <2>4. \A x, y \in DOMAIN events : x < y => events[x].at < events[y].at
    BY DEF Stretch
  <2>5. \A x \in DOMAIN events : events[x].at \in Nat
    <3>1. \A x \in DOMAIN events : events[x] \in Event
      BY <2>3
    <3>. QED BY <3>1 DEF Event
  <2>6. events[attempts[i].resultAt].at <= events[attempts[j].callAt].at
    BY <2>1, <2>2, <2>3, <2>4, <2>5
  <2>7. log[Place(j)].of = events[attempts[j].callAt].at
    BY <1>7, <2>1
  <2>. QED BY <2>6, <2>7
<1>. HIDE DEF Place
<1>10. \A pair \in learnRecoveries(batch) : \E i, j \in DOMAIN attempts :
         pair = <<Place(i), Place(j)>> /\ Cures(attempts, fresh, i, j)
  BY <1>1, <1>8
<1>11. learnRecoveries(batch) \subseteq stored \X batch
  BY <1>7, <1>10 DEF Cures
<1>12. Stretch(log, events) => \A pair \in learnRecoveries(batch) : pair[1] <= log[pair[2]].of
  BY <1>9, <1>10
<1>. QED BY <1>4, <1>11, <1>12

-----------------------------------------------------------------------------
(* Episodes.                                                               *)

EndOf(attempts, i) == Min(Ends(attempts, i))

\* An open failure ends, with a success called after it was back.
LEMMA OpenEnds ==
  ASSUME NEW events, NEW attempts, Tried(events, attempts), NEW i \in Open(attempts)
  PROVE  /\ i \in DOMAIN attempts /\ EndOf(attempts, i) \in DOMAIN attempts /\ i < EndOf(attempts, i)
         /\ EndOf(attempts, i) \in Ends(attempts, i)
         /\ attempts[EndOf(attempts, i)].callAt >= attempts[i].resultAt
         /\ \A j \in Ends(attempts, i) : EndOf(attempts, i) <= j
<1> DEFINE S == Ends(attempts, i)
           end == EndOf(attempts, i)
<1>1. attempts \in Seq(Try) /\ DOMAIN attempts = 1 .. Len(attempts) /\ Len(attempts) \in Nat
  BY DEF Tried
<1>2. i \in DOMAIN attempts /\ S # {}
  BY DEF Open, Failures
<1>3. \A j \in S : j \in (i + 1) .. Len(attempts) /\ attempts[j].callAt >= attempts[i].resultAt
  <2>1. EPISODE_WINDOW \in Nat
    BY AttemptsAssumption
  <2>. QED BY <1>1, <1>2, <2>1 DEF Ends
<1>. HIDE DEF S
<1>4. S \in SUBSET Int /\ IsFiniteSet(S)
  <2>1. IsFiniteSet((i + 1) .. Len(attempts))
    BY <1>1, <1>2, FS_Interval
  <2>2. S \in SUBSET ((i + 1) .. Len(attempts)) /\ S \in SUBSET Int
    BY <1>1, <1>2, <1>3
  <2>. QED BY <2>1, <2>2, FS_Subset
<1>5. Min(S) \in S /\ \A j \in S : Min(S) <= j
  BY <1>2, <1>4, MinIsLeast
<1>6. end = Min(S)
  BY DEF EndOf, S
<1>7. end \in S /\ \A j \in S : end <= j
  BY <1>5, <1>6
<1>. HIDE DEF end
<1>8. end \in DOMAIN attempts /\ i < end /\ attempts[end].callAt >= attempts[i].resultAt
  BY <1>1, <1>2, <1>3, <1>7
<1>. QED BY <1>2, <1>7, <1>8 DEF end, S

\* An episode of a session: a call, its failure, and the outcome that ended it, later.
Spell == [called : Nat, from : Nat, to : Nat, resolvedAt : Nat]
IsEpisode(l, e) ==
  /\ e \in Spell /\ e.called \in DOMAIN l /\ e.to \in DOMAIN l
  /\ e.called <= e.from /\ e.from < e.to /\ e.resolvedAt = l[e.to].ts
EpisodeFrom(events, attempts, i) == Episode(events, attempts[i], attempts[EndOf(attempts, i)])

\* What is collected from an open failure is an episode of the log.
LEMMA EpisodeIs ==
  ASSUME NEW l, LogOf(l), NEW events, Stretch(l, events), NEW attempts, Tried(events, attempts),
         NEW i \in Open(attempts)
  PROVE  /\ IsEpisode(l, EpisodeFrom(events, attempts, i))
         /\ EpisodeFrom(events, attempts, i).called = events[attempts[i].callAt].at
         /\ EpisodeFrom(events, attempts, i).to = events[attempts[EndOf(attempts, i)].resultAt].at
         /\ EpisodeFrom(events, attempts, i).resolvedAt = events[attempts[EndOf(attempts, i)].resultAt].ts
<1> DEFINE a == attempts[i]
           b == attempts[EndOf(attempts, i)]
           e == EpisodeFrom(events, attempts, i)
<1>1. /\ i \in DOMAIN attempts /\ EndOf(attempts, i) \in DOMAIN attempts /\ i < EndOf(attempts, i)
      /\ b.callAt >= a.resultAt
  BY OpenEnds
<1>2. Tries(events, a) /\ Tries(events, b) /\ a.callAt < b.callAt
  BY <1>1 DEF Tried
<1>3. e = [called |-> events[a.callAt].at, from |-> events[a.resultAt].at,
           to |-> events[b.resultAt].at, resolvedAt |-> events[b.resultAt].ts]
  BY DEF EpisodeFrom, Episode
<1>. HIDE DEF a, b, e
<1>4. /\ events \in Seq(Event) /\ DOMAIN events = 1 .. Len(events) /\ Len(events) \in Nat
      /\ \A x \in DOMAIN events : events[x].at \in DOMAIN l /\ events[x] = l[events[x].at] /\ events[x] \in Event
      /\ \A x, y \in DOMAIN events : x < y => events[x].at < events[y].at
  BY DEF Stretch, Drawn
<1>5. /\ a.callAt \in DOMAIN events /\ a.resultAt \in DOMAIN events /\ b.resultAt \in DOMAIN events
      /\ a.callAt <= a.resultAt
  BY <1>2, <1>4 DEF Tries
<1>6. a.resultAt < b.resultAt
  <2>1. CASE b.callAt < b.resultAt
    BY <1>1, <1>2, <1>4, <2>1 DEF Tries, a, b
  <2>2. CASE b.callAt = b.resultAt /\ events[b.callAt].type = "ran"
    <3>1. b.callAt # a.resultAt
      BY <1>2, <1>4, <2>2 DEF Tries
    <3>. QED BY <1>1, <1>2, <1>4, <2>2, <3>1 DEF Tries, a, b
  <2>. QED BY <1>2, <2>1, <2>2 DEF Tries
<1>7. \A x \in DOMAIN events : events[x].at \in Nat /\ events[x].ts \in Nat
  BY <1>4 DEF Event
<1>8. events[a.callAt].at <= events[a.resultAt].at /\ events[a.resultAt].at < events[b.resultAt].at
  BY <1>4, <1>5, <1>6, <1>7
<1>9. e \in Spell
  BY <1>3, <1>5, <1>7 DEF Spell
<1>10. /\ e.called = events[a.callAt].at /\ e.from = events[a.resultAt].at /\ e.to = events[b.resultAt].at
       /\ e.resolvedAt = events[b.resultAt].ts
  BY <1>3
<1>11. IsEpisode(l, e)
  BY <1>4, <1>5, <1>8, <1>9, <1>10 DEF IsEpisode
<1>. QED BY <1>10, <1>11 DEF a, b, e

\* The episodes told are those that start at some open failures, each after the one
\* before it ended, resolved after the mark.
Told(events, attempts, after, start, found) ==
  /\ start \in Seq(Open(attempts)) /\ found \in Seq(Spell) /\ Len(start) = Len(found)
  /\ \A k \in 1 .. Len(start) : /\ found[k] = EpisodeFrom(events, attempts, start[k])
                                /\ found[k].resolvedAt > after
  /\ \A j, k \in 1 .. Len(start) : j < k => EndOf(attempts, start[j]) < start[k]

\* An open failure the scan has accounted for.
Noted(events, attempts, after, start, i) ==
  /\ i \in Open(attempts)
  /\ EpisodeFrom(events, attempts, i).resolvedAt > after => \E k \in 1 .. Len(start) : start[k] = i
\* Up to n every open failure is, or lies within one that is.
Reached(events, attempts, after, start, n) ==
  \A i \in Open(attempts) : i <= n =>
    \E x \in Open(attempts) :
      x <= i /\ i <= EndOf(attempts, x) /\ Noted(events, attempts, after, start, x)

Scanning(events, attempts, after, n, s) ==
  \E start :
    /\ Told(events, attempts, after, start, s.found)
    /\ \A k \in 1 .. Len(start) : EndOf(attempts, start[k]) <= s.through
    /\ s.through # 0 => \E x \in Open(attempts) :
         x <= n /\ s.through = EndOf(attempts, x) /\ Noted(events, attempts, after, start, x)
    /\ Reached(events, attempts, after, start, n)

Scan == [through : Nat, found : Seq(Spell)]
ScanNext(events, attempts, after, s, i) ==
  IF i \notin Open(attempts) \/ i <= s.through THEN s
  ELSE [through |-> EndOf(attempts, i),
        found |-> IF EpisodeFrom(events, attempts, i).resolvedAt > after
                  THEN Append(s.found, EpisodeFrom(events, attempts, i)) ELSE s.found]

\* One attempt more.
LEMMA ScanStep ==
  ASSUME NEW l, LogOf(l), NEW events, Stretch(l, events), NEW attempts, Tried(events, attempts),
         NEW after \in Nat, NEW n \in 1 .. Len(attempts), NEW s \in Scan,
         Scanning(events, attempts, after, n - 1, s)
  PROVE  Scanning(events, attempts, after, n, ScanNext(events, attempts, after, s, n))
<1> DEFINE end == EndOf(attempts, n)
           e == EpisodeFrom(events, attempts, n)
           next == ScanNext(events, attempts, after, s, n)
<1>1. PICK start :
        /\ Told(events, attempts, after, start, s.found)
        /\ \A k \in 1 .. Len(start) : EndOf(attempts, start[k]) <= s.through
        /\ s.through # 0 => \E x \in Open(attempts) :
             x <= n - 1 /\ s.through = EndOf(attempts, x) /\ Noted(events, attempts, after, start, x)
        /\ Reached(events, attempts, after, start, n - 1)
  BY DEF Scanning
<1>2. \A x \in Open(attempts) :
        x \in Nat /\ x \in 1 .. Len(attempts) /\ EndOf(attempts, x) \in Nat /\ x < EndOf(attempts, x)
  <2>1. DOMAIN attempts = 1 .. Len(attempts) /\ Len(attempts) \in Nat
    BY DEF Tried
  <2>2. \A x \in Open(attempts) : x \in DOMAIN attempts /\ EndOf(attempts, x) \in DOMAIN attempts /\ x < EndOf(attempts, x)
    BY OpenEnds
  <2>. QED BY <2>1, <2>2
<1>3. /\ s.through \in Nat /\ s.found \in Seq(Spell) /\ start \in Seq(Open(attempts)) /\ Len(start) = Len(s.found)
      /\ Len(start) \in Nat
  BY <1>1 DEF Scan, Told
<1>4. \A x \in Open(attempts) : x <= n => x = n \/ x <= n - 1
  BY <1>2
<1>5. CASE n \notin Open(attempts)
  <2>1. next = s
    BY <1>5 DEF ScanNext
  <2>2. Reached(events, attempts, after, start, n)
    BY <1>1, <1>4, <1>5 DEF Reached
  <2>3. \A x \in Open(attempts) : x <= n - 1 => x <= n
    BY <1>2
  <2>. QED BY <1>1, <2>1, <2>2, <2>3 DEF Scanning
<1>6. CASE n \in Open(attempts) /\ n <= s.through
  <2>1. next = s
    BY <1>6 DEF ScanNext
  <2>2. PICK x \in Open(attempts) :
          x <= n - 1 /\ s.through = EndOf(attempts, x) /\ Noted(events, attempts, after, start, x)
    BY <1>1, <1>3, <1>6
  <2>3. x <= n /\ n <= EndOf(attempts, x)
    BY <1>2, <1>6, <2>2
  <2>4. Reached(events, attempts, after, start, n)
    BY <1>1, <1>4, <2>2, <2>3 DEF Reached
  <2>. QED BY <1>1, <2>1, <2>2, <2>3, <2>4 DEF Scanning
<1>7. CASE n \in Open(attempts) /\ ~(n <= s.through)
  <2>0. IsEpisode(l, e) /\ e.resolvedAt \in Nat /\ e \in Spell
    BY <1>7, EpisodeIs DEF IsEpisode, Spell
  <2>1. n < end /\ end \in Nat /\ s.through < n
    BY <1>2, <1>3, <1>7
  <2>2. CASE e.resolvedAt > after
    <3> DEFINE longer == Append(start, n)
               told == Append(s.found, e)
    <3>1. next.through = end /\ next.found = told
      BY <1>7, <2>2 DEF ScanNext
    <3>2. /\ longer \in Seq(Open(attempts)) /\ Len(longer) = Len(start) + 1 /\ longer[Len(start) + 1] = n
          /\ \A k \in 1 .. Len(start) : longer[k] = start[k]
      BY <1>3, <1>7
    <3>3. /\ told \in Seq(Spell) /\ Len(told) = Len(start) + 1 /\ told[Len(start) + 1] = e
          /\ \A k \in 1 .. Len(start) : told[k] = s.found[k]
      BY <1>3, <2>0
    <3>. HIDE DEF longer, told
    <3>4. \A k \in 1 .. (Len(start) + 1) : k = Len(start) + 1 \/ k \in 1 .. Len(start)
      BY <1>3
    <3>5. \A k \in 1 .. Len(longer) : told[k] = EpisodeFrom(events, attempts, longer[k]) /\ told[k].resolvedAt > after
      BY <1>1, <2>2, <3>2, <3>3, <3>4 DEF Told
    <3>6. ASSUME NEW j \in 1 .. Len(longer), NEW k \in 1 .. Len(longer), j < k
          PROVE  EndOf(attempts, longer[j]) < longer[k]
      <4>1. j \in 1 .. Len(start)
        BY <1>3, <3>2, <3>6
      <4>2. CASE k \in 1 .. Len(start)
        BY <1>1, <3>2, <3>6, <4>1, <4>2 DEF Told
      <4>3. CASE k = Len(start) + 1
        <5>1. EndOf(attempts, start[j]) <= s.through /\ start[j] \in Open(attempts)
          BY <1>1, <1>3, <4>1
        <5>2. EndOf(attempts, start[j]) < n
          BY <1>2, <1>3, <2>1, <5>1
        <5>. QED BY <3>2, <4>1, <4>3, <5>2
      <4>. QED BY <3>2, <3>4, <4>2, <4>3
    <3>7. Told(events, attempts, after, longer, told)
      BY <3>2, <3>3, <3>5, <3>6 DEF Told
    <3>8. \A k \in 1 .. Len(longer) : EndOf(attempts, longer[k]) <= end
      <4>1. ASSUME NEW k \in 1 .. Len(start)
            PROVE  EndOf(attempts, longer[k]) <= end
        <5>1. EndOf(attempts, start[k]) <= s.through /\ start[k] \in Open(attempts)
          BY <1>1, <1>3
        <5>2. EndOf(attempts, start[k]) <= end
          BY <1>2, <1>3, <2>1, <5>1
        <5>3. longer[k] = start[k]
          BY <3>2
        <5>. QED BY <5>2, <5>3
      <4>2. EndOf(attempts, longer[Len(start) + 1]) <= end
        BY <2>1, <3>2
      <4>. QED BY <3>2, <3>4, <4>1, <4>2
    <3>9. \A x : Noted(events, attempts, after, start, x) => Noted(events, attempts, after, longer, x)
      <4>1. \A k \in 1 .. Len(start) : k \in 1 .. Len(longer) /\ longer[k] = start[k]
        BY <1>3, <3>2
      <4>. QED BY <4>1 DEF Noted
    <3>10. Noted(events, attempts, after, longer, n)
      <4>1. Len(start) + 1 \in 1 .. Len(longer)
        BY <1>3, <3>2
      <4>. QED BY <1>7, <3>2, <4>1 DEF Noted
    <3>11. Reached(events, attempts, after, longer, n)
      BY <1>1, <1>2, <1>4, <1>7, <2>1, <3>9, <3>10 DEF Reached
    <3>12. n <= n
      OBVIOUS
    <3>13. /\ Told(events, attempts, after, longer, next.found)
           /\ \A k \in 1 .. Len(longer) : EndOf(attempts, longer[k]) <= next.through
           /\ next.through # 0 => \E x \in Open(attempts) :
                x <= n /\ next.through = EndOf(attempts, x) /\ Noted(events, attempts, after, longer, x)
           /\ Reached(events, attempts, after, longer, n)
      BY <1>7, <3>1, <3>7, <3>8, <3>10, <3>11, <3>12
    <3>. HIDE DEF next
    <3>14. Scanning(events, attempts, after, n, next)
      BY <3>13 DEF Scanning
    <3>. QED BY <3>14 DEF next
  <2>3. CASE ~(e.resolvedAt > after)
    <3>1. next.through = end /\ next.found = s.found
      BY <1>7, <2>3 DEF ScanNext
    <3>2. Noted(events, attempts, after, start, n)
      BY <1>7, <2>3 DEF Noted
    <3>3. Reached(events, attempts, after, start, n)
      BY <1>1, <1>2, <1>4, <1>7, <2>1, <3>2 DEF Reached
    <3>4. \A k \in 1 .. Len(start) : EndOf(attempts, start[k]) <= end
      <4>1. ASSUME NEW k \in 1 .. Len(start)
            PROVE  EndOf(attempts, start[k]) <= end
        <5>1. EndOf(attempts, start[k]) <= s.through /\ start[k] \in Open(attempts)
          BY <1>1, <1>3
        <5>. QED BY <1>2, <1>3, <2>1, <5>1
      <4>. QED BY <4>1
    <3>5. n <= n
      OBVIOUS
    <3>6. /\ Told(events, attempts, after, start, next.found)
          /\ \A k \in 1 .. Len(start) : EndOf(attempts, start[k]) <= next.through
          /\ next.through # 0 => \E x \in Open(attempts) :
               x <= n /\ next.through = EndOf(attempts, x) /\ Noted(events, attempts, after, start, x)
          /\ Reached(events, attempts, after, start, n)
      BY <1>1, <1>7, <3>1, <3>2, <3>3, <3>4, <3>5
    <3>. HIDE DEF next
    <3>7. Scanning(events, attempts, after, n, next)
      BY <3>6 DEF Scanning
    <3>. QED BY <3>7 DEF next
  <2>. QED BY <2>2, <2>3
<1>. QED BY <1>5, <1>6, <1>7

\* What collectEpisodes finds: episodes that follow one another, one of them over every
\* open failure whose episode is resolved after the mark.
LEMMA EpisodesAre ==
  ASSUME NEW l, LogOf(l), NEW events, Stretch(l, events), NEW after \in Nat,
         NEW attempts, attempts = collectAttempts(events)
  PROVE  \E start : /\ Told(events, attempts, after, start, collectEpisodes(events, after))
                    /\ Reached(events, attempts, after, start, Len(attempts))
<1> DEFINE N == Len(attempts)
           add(s, i) ==
             IF i \notin Open(attempts) \/ i <= s.through THEN s
             ELSE LET end == Min(Ends(attempts, i))
                      e == Episode(events, attempts[i], attempts[end])
                  IN [through |-> end,
                      found |-> IF e.resolvedAt > after THEN Append(s.found, e) ELSE s.found]
           nothing == [through |-> 0, found |-> <<>>]
           Fold(f) == f = [i \in 0 .. N |-> IF i = 0 THEN nothing ELSE add(f[i - 1], i)]
           scan == CHOOSE f : Fold(f)
           F == [i \in 1 .. N |-> [s \in Scan |-> add(s, i)]]
<1>1. collectEpisodes(events, after) = scan[N].found
  BY DEF collectEpisodes
<1>2. Tried(events, attempts)
  BY AttemptsAre DEF Stretch
<1>3. N \in Nat /\ DOMAIN attempts = 1 .. N
  BY <1>2 DEF Tried
<1>4. \A s, i : add(s, i) = ScanNext(events, attempts, after, s, i)
  BY DEF ScanNext, EpisodeFrom, EndOf
<1>. HIDE DEF add
<1>5. ASSUME NEW i \in 1 .. N, NEW s \in Scan
      PROVE  add(s, i) \in Scan
  <2>1. CASE i \notin Open(attempts) \/ i <= s.through
    BY <1>4, <2>1 DEF ScanNext
  <2>2. CASE i \in Open(attempts) /\ ~(i <= s.through)
    <3>1. EpisodeFrom(events, attempts, i) \in Spell
      BY <1>2, <2>2, EpisodeIs DEF IsEpisode
    <3>2. EndOf(attempts, i) \in Nat
      BY <1>2, <1>3, <2>2, OpenEnds
    <3>3. s.found \in Seq(Spell)
      BY DEF Scan
    <3>4. Append(s.found, EpisodeFrom(events, attempts, i)) \in Seq(Spell)
      BY <3>1, <3>3
    <3>. QED BY <1>4, <2>2, <3>2, <3>3, <3>4 DEF ScanNext, Scan
  <2>. QED BY <2>1, <2>2
<1>6. nothing \in Scan
  BY DEF Scan
<1>. HIDE DEF nothing, N
<1>7. F \in [1 .. N -> [Scan -> Scan]]
  <2>1. ASSUME NEW i \in 1 .. N
        PROVE  [s \in Scan |-> add(s, i)] \in [Scan -> Scan]
    BY <1>5
  <2>. QED BY <2>1
<1>8. Fold(scan)
  <2>1. PICK f \in [0 .. N -> Scan] : f[0] = nothing /\ \A i \in 1 .. N : f[i] = F[i][f[i - 1]]
    <3>. HIDE DEF F
    <3>1. Runs(F, Scan, nothing, N)
      BY <1>3, <1>6, <1>7, RecursionExists
    <3>. QED BY <3>1 DEF Runs
  <2>2. ASSUME NEW i \in 0 .. N
        PROVE  f[i] = IF i = 0 THEN nothing ELSE add(f[i - 1], i)
    <3>1. CASE i = 0
      <4>. HIDE DEF F
      <4>. QED BY <2>1, <3>1
    <3>2. CASE i # 0
      <4>1. i \in 1 .. N /\ i - 1 \in 0 .. N
        BY <1>3, <3>2
      <4>2. f[i - 1] \in Scan /\ f[i] = F[i][f[i - 1]]
        <5>. HIDE DEF F
        <5>. QED BY <2>1, <4>1
      <4>3. F[i][f[i - 1]] = add(f[i - 1], i)
        BY <4>1, <4>2
      <4>. HIDE DEF F
      <4>. QED BY <3>2, <4>2, <4>3
    <3>. QED BY <3>1, <3>2
  <2>3. f = [i \in 0 .. N |-> f[i]]
    BY <2>1
  <2>4. Fold(f)
    BY <2>2, <2>3
  <2>. HIDE DEF Fold
  <2>. QED BY <2>4
<1>. HIDE DEF scan
<1>9. scan[0] = nothing /\ \A i \in 1 .. N : scan[i] = add(scan[i - 1], i)
  <2>1. scan[0] = nothing
    BY <1>3, <1>8
  <2>2. ASSUME NEW i \in 1 .. N
        PROVE  scan[i] = add(scan[i - 1], i)
    <3>1. i \in 0 .. N /\ i # 0
      BY <1>3
    <3>2. \A k \in 0 .. N : scan[k] = IF k = 0 THEN nothing ELSE add(scan[k - 1], k)
      BY <1>8
    <3>. HIDE DEF Fold
    <3>. QED BY <3>1, <3>2
  <2>. QED BY <2>1, <2>2
<1>. HIDE DEF Fold
<1> DEFINE Good == {i \in 0 .. N : scan[i] \in Scan /\ Scanning(events, attempts, after, i, scan[i])}
<1>10. 0 \in Good /\ Good \in SUBSET (0 .. N)
  <2>1. scan[0] = [through |-> 0, found |-> <<>>]
    BY <1>9 DEF nothing
  <2>2. Told(events, attempts, after, <<>>, <<>>)
    BY DEF Told
  <2>3. \A i \in Open(attempts) : ~(i <= 0)
    BY <1>2, <1>3, OpenEnds
  <2>4. Reached(events, attempts, after, <<>>, 0)
    BY <2>3 DEF Reached
  <2>5. Scanning(events, attempts, after, 0, scan[0])
    BY <2>1, <2>2, <2>4 DEF Scanning
  <2>. QED BY <1>3, <1>6, <1>9, <2>5
<1>11. ASSUME NEW i \in 1 .. N, i - 1 \in Good
       PROVE  i \in Good
  <2>1. scan[i - 1] \in Scan /\ Scanning(events, attempts, after, i - 1, scan[i - 1])
    BY <1>11
  <2>2. scan[i] = add(scan[i - 1], i)
    BY <1>9
  <2>3. scan[i] \in Scan
    BY <1>5, <2>1, <2>2
  <2>4. Scanning(events, attempts, after, i, ScanNext(events, attempts, after, scan[i - 1], i))
    BY <1>2, <2>1, ScanStep DEF N
  <2>5. Scanning(events, attempts, after, i, scan[i])
    BY <1>4, <2>2, <2>4
  <2>. QED BY <2>3, <2>5
<1>12. N \in Good
  <2>. HIDE DEF Good
  <2>1. Good = 0 .. N
    BY <1>3, <1>10, <1>11, UpTo
  <2>. QED BY <1>3, <2>1
<1>13. Scanning(events, attempts, after, N, scan[N])
  BY <1>12
<1>. HIDE DEF Good
<1>. QED BY <1>1, <1>13 DEF Scanning, N

-----------------------------------------------------------------------------
(* Windows, and the walk over them.                                        *)

\* The lesser and the greater of two.
LEMMA OfTwo ==
  ASSUME NEW a \in Int, NEW b \in Int
  PROVE  /\ Min({a, b}) = IF a <= b THEN a ELSE b
         /\ Max({a, b}) = IF a >= b THEN a ELSE b
<1>1. IsFiniteSet({a, b}) /\ {a, b} \in SUBSET Int /\ {a, b} # {}
  <2>1. IsFiniteSet({a}) /\ IsFiniteSet({a} \cup {b}) /\ {a} \cup {b} = {a, b}
    BY FS_Singleton, FS_AddElement
  <2>. QED BY <2>1
<1>2. /\ Min({a, b}) \in {a, b} /\ \A n \in {a, b} : Min({a, b}) <= n
      /\ Max({a, b}) \in {a, b} /\ \A n \in {a, b} : n <= Max({a, b})
  BY <1>1, MinIsLeast, MaxIsGreatest
<1>. QED BY <1>2

\* The overlap is at most half a window.
LEMMA OverlapIs == overlap \in Nat /\ 2 * overlap <= WindowSize /\ WindowSize \in Nat \ {0}
<1>1. EPISODE_WINDOW \in Nat /\ OverlapFactor \in Nat /\ WindowSize \in Nat \ {0}
  BY AttemptsAssumption, LessonsAssumption
<1>2. EPISODE_WINDOW * OverlapFactor \in Nat
  BY <1>1
<1>3. WindowSize \div 2 \in Nat /\ 2 * (WindowSize \div 2) <= WindowSize
  BY <1>1
<1>. HIDE DEF overlap
<1>4. overlap \in {EPISODE_WINDOW * OverlapFactor, WindowSize \div 2} /\ overlap <= WindowSize \div 2
  BY <1>2, <1>3, OfTwo DEF overlap
<1>. QED BY <1>1, <1>2, <1>3, <1>4

\* A window is a stretch of the session, past the cursor.
LEMMA WindowIs ==
  ASSUME LogOf(log), NEW after \in Nat
  PROVE  /\ Stretch(log, sessionToolEvents(after)) /\ Len(sessionToolEvents(after)) <= WindowSize
         /\ \A k \in DOMAIN sessionToolEvents(after) : sessionToolEvents(after)[k].ts > after
<1> DEFINE positions == {n \in stored : log[n].ts > after}
           later == At(log, positions)
           m == Min({WindowSize, Len(later)})
           events == sessionToolEvents(after)
<1>1. Stretch(log, later) /\ \A k \in DOMAIN later : later[k].at \in positions
  BY ReadIsStretch
<1>2. events = SubSeq(later, 1, m)
  BY DEF sessionToolEvents
<1>3. \A k \in DOMAIN later : later[k].ts > after
  BY <1>1 DEF Stretch, Drawn
<1>. HIDE DEF positions, later
<1>4. Len(later) \in Nat /\ DOMAIN later = 1 .. Len(later)
  BY <1>1 DEF Stretch, Drawn
<1>5. m \in 0 .. Len(later) /\ m <= WindowSize
  BY <1>4, OfTwo, OverlapIs
<1>. HIDE DEF m
<1>6. Stretch(log, events) /\ Len(events) = m /\ \A k \in 1 .. m : events[k] = later[k]
  BY <1>1, <1>2, <1>5, FirstOfStretch
<1>7. DOMAIN events = 1 .. m
  BY <1>6 DEF Stretch, Drawn
<1>. HIDE DEF events
<1>8. \A k \in DOMAIN events : events[k].ts > after
  BY <1>3, <1>4, <1>5, <1>6, <1>7
<1>. QED BY <1>5, <1>6, <1>8 DEF events

\* What a window says is read is the time of one of its events, an overlap before its end.
LEMMA MarkReadIs ==
  ASSUME NEW l, NEW events, Stretch(l, events), Len(events) >= WindowSize
  PROVE  /\ Len(events) - overlap \in DOMAIN events
         /\ markRead(events) = events[Len(events) - overlap].ts /\ markRead(events) \in Nat
<1>1. /\ events \in Seq(Event) /\ Len(events) \in Nat /\ DOMAIN events = 1 .. Len(events)
      /\ \A k \in DOMAIN events : events[k] \in Event
  BY DEF Stretch, Drawn
<1>2. PICK n : n = Len(events) - overlap
  OBVIOUS
<1>3. n \in 1 .. Len(events) /\ n \in Int /\ n >= 1
  BY <1>1, <1>2, OverlapIs
<1>4. Max({1, n}) = n
  <2>0. 1 \in Int /\ n \in Int
    BY <1>3
  <2>1. Max({1, n}) = IF 1 >= n THEN 1 ELSE n
    <3>. HIDE DEF Max
    <3>. QED BY <2>0, OfTwo, Zenon
  <2>. QED BY <1>3, <2>1
<1>5. markRead(events) = events[n].ts
  BY <1>2, <1>4 DEF markRead
<1>6. events[n] \in Event
  BY <1>1, <1>3
<1>7. events[n].ts \in Nat
  BY <1>6 DEF Event
<1>. QED BY <1>1, <1>2, <1>3, <1>5, <1>7

-----------------------------------------------------------------------------
(* The session grows, and what is known of it stays.                       *)

Strict(l) == \A m, n \in DOMAIN l : m < n => l[m].ts < l[n].ts
Grown(l, next) == Len(l) <= Len(next) /\ \A n \in DOMAIN l : n \in DOMAIN next /\ next[n] = l[n]

\* What happens next makes a session of a session.
LEMMA ExtensionIs ==
  ASSUME NEW l, LogOf(l), setting \in Settings, NEW next \in Extensions(l)
  PROVE  /\ LogOf(next) /\ Grown(l, next) /\ Len(next) = Len(l) + 1
         /\ ~setting.ties /\ Strict(l) => Strict(next)
<1> DEFINE N == Len(l)
           now == IF l = <<>> THEN 1 ELSE Last(l).ts
<1>1. /\ l \in Seq(Event) /\ N \in Nat /\ DOMAIN l = 1 .. N /\ \A n \in 1 .. N : l[n] \in Event
  BY DEF LogOf
<1>2. PICK h \in Happenings(l), ts \in {now + 1} \cup {t \in {now} : setting.ties} :
        next = Append(l, [type |-> h.type, at |-> N + 1, of |-> h.of, key |-> h.key, out |-> h.out, ts |-> ts])
  BY DEF Extensions
<1>3. now \in Nat /\ now >= 1 /\ \A n \in 1 .. N : l[n].ts \in Nat /\ l[n].ts <= now
  <2>1. \A n \in 1 .. N : l[n].ts \in Nat /\ l[n].ts >= 1
    <3>1. \A n \in 1 .. N : l[n].ts \in Nat
      BY <1>1 DEF Event
    <3>. QED BY <1>1, <3>1 DEF LogOf
  <2>2. CASE l = <<>>
    BY <2>2
  <2>3. CASE l # <<>>
    <3>1. N \in 1 .. N /\ now = l[N].ts
      BY <1>1, <2>3 DEF Last
    <3>. HIDE DEF now
    <3>2. ASSUME NEW n \in 1 .. N
          PROVE  l[n].ts <= now
      <4>1. CASE n = N
        BY <2>1, <3>1, <4>1
      <4>2. CASE n # N
        <5>1. N \in Nat
          BY <1>1
        <5>2. n < N
          BY <4>2, <5>1
        <5>3. l[n].ts <= l[N].ts
          BY <1>1, <3>1, <5>2 DEF LogOf
        <5>. QED BY <3>1, <5>3
      <4>. QED BY <4>1, <4>2
    <3>3. now \in Nat /\ now >= 1
      BY <2>1, <3>1
    <3>. QED BY <2>1, <3>2, <3>3
  <2>. QED BY <2>2, <2>3
<1>. HIDE DEF now
<1>4. /\ setting.calls \subseteq Key \X Outcome /\ setting.runs \subseteq Command \X Outcome
  BY LessonsAssumption
<1>5. /\ h.type \in {"call", "done", "ran"} /\ h.of \in Nat /\ h.key \in Key /\ h.out \in Outcome
      /\ h.type # "done" => h.of = N + 1
  <2>0. "ok" \in Outcome /\ \A x \in setting.calls : x[1] \in Key /\ x[2] \in Outcome
    BY <1>4 DEF Outcome
  <2>1. CASE h \in {[type |-> "call", of |-> N + 1, key |-> k[1], out |-> "ok"] : k \in setting.calls}
    <3>1. PICK k \in setting.calls : h = [type |-> "call", of |-> N + 1, key |-> k[1], out |-> "ok"]
      BY <2>1
    <3>. QED BY <1>1, <2>0, <3>1
  <2>2. CASE \E c \in UnderWay(l) : \E k \in {x \in setting.calls : x[1] = l[c].key} :
               h = [type |-> "done", of |-> c, key |-> k[1], out |-> k[2]]
    <3>1. PICK c \in UnderWay(l), k \in setting.calls :
            h = [type |-> "done", of |-> c, key |-> k[1], out |-> k[2]]
      BY <2>2
    <3>2. c \in 1 .. N
      BY <1>1 DEF UnderWay
    <3>. QED BY <1>1, <2>0, <3>1, <3>2
  <2>3. CASE h \in {[type |-> "ran", of |-> N + 1, key |-> r[1], out |-> r[2]] : r \in setting.runs}
    <3>1. PICK r \in Command \X Outcome : h = [type |-> "ran", of |-> N + 1, key |-> r[1], out |-> r[2]]
      BY <1>4, <2>3
    <3>2. r[1] \in Key /\ r[2] \in Outcome
      BY DEF Key
    <3>. QED BY <1>1, <3>1, <3>2
  <2>4. h \in UNION {{[type |-> "done", of |-> c, key |-> k[1], out |-> k[2]] :
                     k \in {x \in setting.calls : x[1] = l[c].key}} : c \in UnderWay(l)} =>
          \E c \in UnderWay(l) : \E k \in {x \in setting.calls : x[1] = l[c].key} :
            h = [type |-> "done", of |-> c, key |-> k[1], out |-> k[2]]
    BY Zenon
  <2>5. h \in Happenings(l)
    OBVIOUS
  <2> DEFINE calls == {[type |-> "call", of |-> N + 1, key |-> k[1], out |-> "ok"] : k \in setting.calls}
             ends == UNION {{[type |-> "done", of |-> c, key |-> k[1], out |-> k[2]] :
                             k \in {x \in setting.calls : x[1] = l[c].key}} : c \in UnderWay(l)}
             runs == {[type |-> "ran", of |-> N + 1, key |-> r[1], out |-> r[2]] : r \in setting.runs}
  <2>6. Happenings(l) = calls \cup runs \cup ends
    BY DEF Happenings, calls, ends, runs
  <2>7. h \in calls \/ h \in ends \/ h \in runs
    <3>. HIDE DEF calls, ends, runs
    <3>. QED BY <2>5, <2>6
  <2>. QED BY <2>1, <2>2, <2>3, <2>4, <2>7, Zenon
<1>6. ts \in Nat /\ ts >= 1 /\ ts >= now /\ (~setting.ties => ts > now)
  BY <1>3
<1> DEFINE e == [type |-> h.type, at |-> N + 1, of |-> h.of, key |-> h.key, out |-> h.out, ts |-> ts]
<1>7. /\ e \in Event /\ e.at = N + 1 /\ e.ts = ts /\ (e.type # "done" => e.of = N + 1)
  BY <1>1, <1>5, <1>6 DEF Event
<1>8. next = Append(l, e)
  BY <1>2
<1>. HIDE DEF e
<1>9. /\ next \in Seq(Event) /\ DOMAIN next = 1 .. (N + 1) /\ Len(next) = N + 1
      /\ next[N + 1] = e /\ \A n \in 1 .. N : next[n] = l[n]
  BY <1>1, <1>7, <1>8
<1>10. \A n \in 1 .. (N + 1) : n = N + 1 \/ n \in 1 .. N
  BY <1>1
<1>11. Grown(l, next)
  BY <1>1, <1>9 DEF Grown
<1>12. \A n \in DOMAIN next : next[n].at = n /\ next[n].ts >= 1 /\ (next[n].type # "done" => next[n].of = n)
  BY <1>1, <1>6, <1>7, <1>9, <1>10 DEF LogOf
<1>13. ASSUME NEW m \in DOMAIN next, NEW n \in DOMAIN next, m < n
       PROVE  next[m].ts <= next[n].ts /\ (~setting.ties /\ Strict(l) => next[m].ts < next[n].ts)
  <2>1. m \in 1 .. N
    BY <1>1, <1>9, <1>13
  <2>2. CASE n \in 1 .. N
    BY <1>1, <1>9, <1>13, <2>1, <2>2 DEF LogOf, Strict
  <2>3. CASE n = N + 1
    BY <1>3, <1>6, <1>7, <1>9, <2>1, <2>3
  <2>. QED BY <1>9, <1>10, <2>2, <2>3
<1>14. LogOf(next)
  BY <1>9, <1>12, <1>13 DEF LogOf
<1>. QED BY <1>9, <1>11, <1>13, <1>14 DEF Strict

\* An episode stays one as the session grows.
LEMMA EpisodeStays ==
  ASSUME NEW l, NEW next, Grown(l, next), NEW e, IsEpisode(l, e)
  PROVE  IsEpisode(next, e) /\ next[e.called] = l[e.called] /\ next[e.to] = l[e.to]
BY DEF Grown, IsEpisode

\* The episodes of a window are of the session, past the cursor and in order.
LEMMA WindowEpisodes ==
  ASSUME LogOf(log), NEW c \in Nat, NEW episodes, episodes = collectEpisodes(sessionToolEvents(c), c)
  PROVE  /\ episodes \in Seq(Spell) /\ \A k \in DOMAIN episodes : IsEpisode(log, episodes[k])
         /\ \A k \in DOMAIN episodes : log[episodes[k].called].ts > c
         /\ \A j, k \in DOMAIN episodes : j < k => episodes[j].called < episodes[k].called
<1> DEFINE events == sessionToolEvents(c)
           attempts == collectAttempts(events)
<1>1. Stretch(log, events) /\ \A k \in DOMAIN events : events[k].ts > c
  BY WindowIs
<1>. HIDE DEF events
<1>2. Tried(events, attempts)
  BY <1>1, AttemptsAre DEF Stretch
<1>3. PICK start : Told(events, attempts, c, start, collectEpisodes(events, c))
  BY <1>1, EpisodesAre
<1>. HIDE DEF attempts
<1>4. /\ start \in Seq(Open(attempts)) /\ episodes \in Seq(Spell) /\ Len(start) = Len(episodes)
      /\ \A k \in 1 .. Len(start) : episodes[k] = EpisodeFrom(events, attempts, start[k])
      /\ \A j, k \in 1 .. Len(start) : j < k => EndOf(attempts, start[j]) < start[k]
  BY <1>3 DEF Told, events
<1>5. DOMAIN episodes = 1 .. Len(start) /\ \A k \in 1 .. Len(start) : start[k] \in Open(attempts)
  BY <1>4
<1>6. \A i \in Open(attempts) :
        /\ IsEpisode(log, EpisodeFrom(events, attempts, i))
        /\ EpisodeFrom(events, attempts, i).called = events[attempts[i].callAt].at
        /\ i \in DOMAIN attempts /\ i < EndOf(attempts, i) /\ EndOf(attempts, i) \in DOMAIN attempts
        /\ attempts[i].callAt \in DOMAIN events
  <2>1. \A i \in Open(attempts) : attempts[i].callAt \in DOMAIN events
    BY <1>2, OpenEnds DEF Tried, Tries
  <2>. QED BY <1>1, <1>2, <2>1, EpisodeIs, OpenEnds
<1>7. \A x \in DOMAIN events : events[x].at \in DOMAIN log /\ events[x] = log[events[x].at]
  BY <1>1 DEF Stretch, Drawn
<1>8. \A k \in DOMAIN episodes : IsEpisode(log, episodes[k]) /\ log[episodes[k].called].ts > c
  BY <1>1, <1>4, <1>5, <1>6, <1>7
<1>9. ASSUME NEW j \in DOMAIN episodes, NEW k \in DOMAIN episodes, j < k
      PROVE  episodes[j].called < episodes[k].called
  <2>1. attempts \in Seq(Try) /\ DOMAIN attempts = 1 .. Len(attempts)
    BY <1>2 DEF Tried
  <2>2. start[j] \in DOMAIN attempts /\ start[k] \in DOMAIN attempts /\ start[j] < start[k]
    <3>1. start[j] < EndOf(attempts, start[j]) /\ EndOf(attempts, start[j]) < start[k]
      BY <1>4, <1>5, <1>6, <1>9
    <3>2. start[j] \in Nat /\ EndOf(attempts, start[j]) \in Nat /\ start[k] \in Nat
      BY <1>5, <1>6, <2>1
    <3>. QED BY <1>5, <1>6, <3>1, <3>2
  <2>3. attempts[start[j]].callAt < attempts[start[k]].callAt
    BY <1>2, <2>2 DEF Tried
  <2>4. \A x, y \in DOMAIN events : x < y => events[x].at < events[y].at
    BY <1>1 DEF Stretch
  <2>5. events[attempts[start[j]].callAt].at < events[attempts[start[k]].callAt].at
    BY <1>5, <1>6, <2>3, <2>4
  <2>. QED BY <1>4, <1>5, <1>6, <2>5
<1>. QED BY <1>4, <1>8, <1>9

-----------------------------------------------------------------------------
(* What a learner asks about.                                              *)

Shown(episodes) == SubSeq(episodes, 1, Min({MaxEpisodes, Len(episodes)}))

\* The digest shows the first of the episodes, at least one if there is one.
LEMMA ShownIs ==
  ASSUME NEW episodes \in Seq(Spell)
  PROVE  /\ Shown(episodes) \in Seq(Spell) /\ Len(Shown(episodes)) <= Len(episodes)
         /\ \A k \in DOMAIN Shown(episodes) : k \in DOMAIN episodes /\ Shown(episodes)[k] = episodes[k]
         /\ episodes # <<>> => Shown(episodes) # <<>>
<1> DEFINE m == Min({MaxEpisodes, Len(episodes)})
<1>1. MaxEpisodes \in Nat \ {0} /\ Len(episodes) \in Nat
  BY LessonsAssumption
<1>2. m = IF MaxEpisodes <= Len(episodes) THEN MaxEpisodes ELSE Len(episodes)
  <2>1. MaxEpisodes \in Int /\ Len(episodes) \in Int
    BY <1>1
  <2>. QED BY <2>1, OfTwo, Zenon
<1>. HIDE DEF m
<1>3. m \in 0 .. Len(episodes)
  BY <1>1, <1>2
<1>4. Shown(episodes) = SubSeq(episodes, 1, m)
  BY DEF Shown, m
<1>5. /\ Shown(episodes) \in Seq(Spell) /\ Len(Shown(episodes)) = m /\ DOMAIN Shown(episodes) = 1 .. m
      /\ \A k \in 1 .. m : Shown(episodes)[k] = episodes[k] /\ k \in 1 .. Len(episodes)
  BY <1>3, <1>4
<1>6. episodes # <<>> => m # 0
  BY <1>1, <1>2
<1>. QED BY <1>1, <1>3, <1>5, <1>6

\* What a window shows begins after the cursor, and no later than the last of it is
\* resolved, which is after the cursor too.
LEMMA AskedIs ==
  ASSUME LogOf(log), NEW c \in Nat,
         NEW found, found = collectEpisodes(sessionToolEvents(c), c), found # <<>>,
         NEW shown, shown = Shown(found)
  PROVE  /\ shown \in Seq(Spell) /\ shown # <<>>
         /\ \A e \in Range(shown) :
              IsEpisode(log, e) /\ log[e.called].ts > c /\ log[e.called].ts <= Last(shown).resolvedAt
         /\ Last(shown).resolvedAt \in Nat
<1>1. /\ found \in Seq(Spell)
      /\ \A k \in DOMAIN found : IsEpisode(log, found[k]) /\ log[found[k].called].ts > c
      /\ \A j, k \in DOMAIN found : j < k => found[j].called < found[k].called
  BY WindowEpisodes
<1>2. /\ shown \in Seq(Spell) /\ shown # <<>>
      /\ \A k \in DOMAIN shown : k \in DOMAIN found /\ shown[k] = found[k]
  BY <1>1, ShownIs
<1>3. \A e \in Range(shown) : \E k \in DOMAIN shown : e = shown[k]
  BY DEF Range
<1>4. \A e \in Range(shown) : IsEpisode(log, e) /\ log[e.called].ts > c
  BY <1>1, <1>2, <1>3
<1> DEFINE n == Len(shown)
           last == shown[n]
<1>5. n \in Nat /\ DOMAIN shown = 1 .. n /\ n \in 1 .. n /\ Last(shown) = last
  BY <1>2 DEF Last
<1>6. last = found[n] /\ n \in DOMAIN found /\ IsEpisode(log, last) /\ last \in Spell
  BY <1>1, <1>2, <1>5 DEF IsEpisode
<1>. HIDE DEF n, last
<1>7. /\ last.called \in DOMAIN log /\ last.to \in DOMAIN log /\ last.called < last.to
      /\ last.resolvedAt = log[last.to].ts /\ last.resolvedAt \in Nat
  BY <1>6 DEF IsEpisode, Spell, LogOf
<1>8. ASSUME NEW k \in 1 .. n
      PROVE  log[shown[k].called].ts <= last.resolvedAt
  <2>1. shown[k] = found[k] /\ k \in DOMAIN found /\ shown[k].called \in DOMAIN log /\ shown[k].called \in Nat
    BY <1>1, <1>2, <1>5 DEF IsEpisode, Spell
  <2>2. shown[k].called < last.to
    <3>1. CASE k = n
      BY <1>7, <3>1 DEF last
    <3>2. CASE k # n
      <4>1. k < n
        BY <1>5, <3>2
      <4>2. shown[k].called < last.called
        BY <1>1, <1>6, <2>1, <4>1
      <4>. QED BY <1>6, <1>7, <2>1, <4>2 DEF Spell
    <3>. QED BY <3>1, <3>2
  <2>. QED BY <1>7, <2>1, <2>2 DEF LogOf
<1>9. \A e \in Range(shown) : log[e.called].ts <= last.resolvedAt
  BY <1>3, <1>5, <1>8
<1>. QED BY <1>2, <1>4, <1>5, <1>7, <1>9

-----------------------------------------------------------------------------
(* The session and its folds.                                              *)

FoldStages == {"idle", "stores", "looks back", "looks up", "commits", "marks"}
Holds == {"at", "again", "batch", "found", "overtaken", "read"}

\* What a fold holds is of what is stored, and its causes come first where nothing it read
\* overtook its batch.
FoldOK(x) ==
  /\ DOMAIN x = Holds /\ x.at \in FoldStages /\ x.batch \subseteq stored /\ x.found \subseteq stored \X x.batch
  /\ ~x.overtaken => \A pair \in x.found : pair[1] <= log[pair[2]].of

SessionInv ==
  /\ setting \in Settings /\ LogOf(log) /\ (~setting.ties => Strict(log)) /\ Len(log) <= setting.length
  /\ stored \subseteq DOMAIN log /\ pending \subseteq stored
  /\ folder = [p \in Folder |-> folder[p]] /\ \A p \in Folder : FoldOK(folder[p])

\* One that is idle holds nothing.
LEMMA IdleOK == FoldOK(Idle) /\ Idle.at = "idle" /\ Idle.read = <<>> /\ Idle.batch = {} /\ Idle.found = {}
<1>1. /\ DOMAIN Idle = Holds /\ Idle.at = "idle" /\ Idle.batch = {} /\ Idle.found = {} /\ Idle.read = <<>>
      /\ Idle.again = FALSE /\ Idle.overtaken = FALSE
  BY DEF Idle, Holds
<1>. HIDE DEF Idle
<1>. QED BY <1>1 DEF FoldOK, FoldStages

\* What one of them does leaves the others.
LEMMA OneFold ==
  ASSUME folder = [p \in Folder |-> folder[p]], NEW p \in Folder, NEW y, folder' = [folder EXCEPT ![p] = y]
  PROVE  /\ folder' = [q \in Folder |-> folder'[q]]
         /\ folder'[p] = y /\ \A q \in Folder : q # p => folder'[q] = folder[q]
<1>1. DOMAIN folder = Folder
  BY Zenon
<1>2. DOMAIN folder' = Folder /\ folder'[p] = y /\ \A q \in Folder : q # p => folder'[q] = folder[q]
  BY <1>1
<1>3. folder' = [q \in DOMAIN folder' |-> folder'[q]]
  <2>1. folder' = [q \in Folder |-> IF q = p THEN y ELSE folder[q]]
    BY <1>1
  <2>. QED BY <1>2, <2>1
<1>. QED BY <1>2, <1>3

\* What a fold holds stays right as the session grows.
LEMMA FoldStays ==
  ASSUME Grown(log, log'), stored \subseteq DOMAIN log, stored \subseteq stored', NEW x, FoldOK(x)
  PROVE  FoldOK(x)'
<1>1. \A n \in stored : log'[n] = log[n]
  BY DEF Grown
<1>2. \A pair \in x.found : pair[2] \in stored
  BY DEF FoldOK
<1>3. x.batch \subseteq stored' /\ x.found \subseteq stored' \X x.batch
  BY DEF FoldOK
<1>. QED BY <1>1, <1>2, <1>3 DEF FoldOK

\* Where one fold takes a step that is right, and the session grows as it may, all is right.
LEMMA SessionMoves ==
  ASSUME SessionInv, NEW p \in Folder, NEW y, folder' = [folder EXCEPT ![p] = y], FoldOK(y)',
         setting' = setting, LogOf(log'), ~setting.ties => Strict(log'), Len(log') <= setting.length,
         Grown(log, log'), stored \subseteq stored', stored' \subseteq DOMAIN log', pending' \subseteq stored'
  PROVE  SessionInv'
<1>1. /\ folder' = [q \in Folder |-> folder'[q]]
      /\ folder'[p] = y /\ \A q \in Folder : q # p => folder'[q] = folder[q]
  BY OneFold DEF SessionInv
<1>2. \A q \in Folder : FoldOK(folder[q])'
  <2> SUFFICES ASSUME NEW q \in Folder PROVE FoldOK(folder[q])'
    OBVIOUS
  <2>1. PICK x : x = IF q = p THEN y ELSE folder[q]
    OBVIOUS
  <2>2. folder'[q] = x
    BY <1>1, <2>1
  <2>3. FoldOK(x)'
    <3>1. CASE q = p
      BY <2>1, <3>1
    <3>2. CASE q # p
      <4>1. FoldOK(x)
        BY <2>1, <3>2 DEF SessionInv
      <4>. QED BY <4>1, FoldStays DEF SessionInv
    <3>. QED BY <3>1, <3>2
  <2>. QED BY <2>2, <2>3 DEF FoldOK
<1>. QED BY <1>1, <1>2 DEF SessionInv

\* Where no fold takes a step and the session grows, what they hold is right.
LEMMA SessionGrows ==
  ASSUME SessionInv, UNCHANGED <<folder, setting>>, LogOf(log'), ~setting.ties => Strict(log'),
         Len(log') <= setting.length, Grown(log, log'), stored' = stored, pending' \subseteq stored
  PROVE  SessionInv'
<1>1. stored' \subseteq DOMAIN log'
  BY DEF SessionInv, Grown
<1>2. \A x : FoldOK(x) => FoldOK(x)'
  BY FoldStays DEF SessionInv
<1>. QED BY <1>1, <1>2 DEF SessionInv

LEMMA SessionInit == Init => SessionInv
<1> SUFFICES ASSUME Init PROVE SessionInv
  OBVIOUS
<1>1. log = <<>> /\ stored = {} /\ pending = {} /\ setting \in Settings /\ folder = [p \in Folder |-> Idle]
  BY DEF Init
<1>2. LogOf(log) /\ Strict(log) /\ Len(log) = 0
  BY <1>1 DEF LogOf, Strict
<1>3. setting.length \in Nat
  BY <1>1, LessonsAssumption
<1>4. folder = [p \in Folder |-> folder[p]] /\ \A p \in Folder : folder[p] = Idle
  BY <1>1
<1>. QED BY <1>1, <1>2, <1>3, <1>4, IdleOK DEF SessionInv

\* A session grown by what happens next.
LEMMA NextOf ==
  ASSUME SessionInv, NEW l \in {log} \cup Extensions(log)
  PROVE  LogOf(l) /\ Grown(log, l) /\ (~setting.ties => Strict(l)) /\ DOMAIN log \subseteq DOMAIN l
<1>1. Len(log) \in Nat /\ DOMAIN log = 1 .. Len(log)
  BY DEF SessionInv, LogOf
<1>2. CASE l = log
  BY <1>1, <1>2 DEF SessionInv, Grown
<1>3. CASE l \in Extensions(log)
  <2>1. LogOf(l) /\ Grown(log, l) /\ (~setting.ties /\ Strict(log) => Strict(l))
    BY <1>3, ExtensionIs DEF SessionInv
  <2>. QED BY <2>1 DEF SessionInv, Grown
<1>. QED BY <1>2, <1>3

\* The steps of folds, one by one.
LEMMA FoldsKeepSession ==
  ASSUME SessionInv, NEW p \in Folder,
         \/ insertEvent(p) \/ refold(p) \/ LooksBack(p) \/ LooksUp(p)
         \/ commitPatch(p) \/ Refused(p) \/ MarksResolved(p) \/ FoldDies(p)
  PROVE  SessionInv' /\ Grown(log, log')
<1> DEFINE x == folder[p]
<1>0. /\ FoldOK(x) /\ DOMAIN folder = Folder /\ Len(log) \in Nat /\ Grown(log, log)
  <2>1. DOMAIN folder = Folder
    BY Zenon DEF SessionInv
  <2>. QED BY <2>1 DEF SessionInv, Grown, LogOf
<1>1. DOMAIN x = Holds /\ x.at \in FoldStages /\ x.batch \subseteq stored /\ x.found \subseteq stored \X x.batch
  BY <1>0 DEF FoldOK
<1>2. CASE insertEvent(p)
  <2>1. PICK l \in {log} \cup Extensions(log) :
          /\ Len(l) <= setting.length /\ log' = l
          /\ \E n \in DOMAIN l \ stored :
               /\ n < Len(l) => l = log
               /\ stored' = stored \cup {n} /\ pending' = pending \cup {n}
               /\ folder' = [folder EXCEPT ![p] = [folder[p] EXCEPT !.at = "stores", !.batch = folder[p].batch \cup {n}]]
    BY <1>2 DEF insertEvent
  <2>2. PICK n \in DOMAIN l \ stored :
          /\ stored' = stored \cup {n} /\ pending' = pending \cup {n}
          /\ folder' = [folder EXCEPT ![p] = [folder[p] EXCEPT !.at = "stores", !.batch = folder[p].batch \cup {n}]]
    BY <2>1
  <2>3. setting' = setting
    BY <1>2 DEF insertEvent
  <2>4. LogOf(l) /\ Grown(log, l) /\ (~setting.ties => Strict(l)) /\ DOMAIN log \subseteq DOMAIN l
    BY <2>1, NextOf
  <2>5. PICK y : y = [x EXCEPT !.at = "stores", !.batch = x.batch \cup {n}]
    OBVIOUS
  <2>6. folder' = [folder EXCEPT ![p] = y]
    BY <2>2, <2>5
  <2>7. FoldOK(y)'
    <3>1. stored \subseteq DOMAIN log /\ stored \subseteq stored' /\ Grown(log, log')
      BY <2>1, <2>2, <2>4 DEF SessionInv
    <3>2. PICK z : z = x
      OBVIOUS
    <3>3. FoldOK(z)'
      BY <1>0, <3>1, <3>2, FoldStays
    <3>4. /\ y.at = "stores" /\ y.batch = z.batch \cup {n} /\ y.found = z.found
          /\ y.overtaken = z.overtaken /\ DOMAIN y = Holds
      BY <1>1, <2>5, <3>2 DEF Holds
    <3>5. n \in stored' /\ z.batch \subseteq stored'
      BY <2>2, <3>3 DEF FoldOK
    <3>6. y.batch \subseteq stored' /\ y.found \subseteq stored' \X y.batch
      <4>1. z.found \subseteq stored' \X z.batch
        BY <3>3 DEF FoldOK
      <4>. QED BY <3>4, <3>5, <4>1
    <3>7. ~y.overtaken => \A pair \in y.found : pair[1] <= log'[pair[2]].of
      BY <3>3, <3>4 DEF FoldOK
    <3>. QED BY <3>4, <3>6, <3>7 DEF FoldOK, FoldStages
  <2>8. stored' \subseteq DOMAIN log' /\ pending' \subseteq stored'
    BY <2>1, <2>2, <2>4 DEF SessionInv
  <2>. HIDE DEF x
  <2>. QED BY <2>1, <2>2, <2>3, <2>4, <2>6, <2>7, <2>8, SessionMoves
<1>3. ASSUME ~insertEvent(p)
      PROVE  UNCHANGED <<log, stored, setting>> /\ pending' \subseteq pending
  BY <1>3 DEF refold, LooksBack, LooksUp, commitPatch, Refused, MarksResolved, FoldDies
<1>4. ASSUME ~insertEvent(p), NEW y, folder' = [folder EXCEPT ![p] = y], FoldOK(y)
      PROVE  SessionInv' /\ Grown(log, log')
  <2>1. FoldOK(y)'
    BY <1>3, <1>4 DEF FoldOK
  <2>2. log' = log /\ stored' = stored /\ setting' = setting /\ pending' \subseteq stored'
    BY <1>3, <1>4 DEF SessionInv
  <2>. QED BY <1>0, <1>4, <2>1, <2>2, SessionMoves DEF SessionInv
<1>5. CASE ~insertEvent(p) /\ refold(p)
  <2>1. folder' = [folder EXCEPT ![p] = [Idle EXCEPT !.at = "looks back", !.again = TRUE, !.batch = pending]]
    BY <1>5 DEF refold
  <2>2. PICK y : y = [Idle EXCEPT !.at = "looks back", !.again = TRUE, !.batch = pending]
    OBVIOUS
  <2>3. y = [at |-> "looks back", again |-> TRUE, batch |-> pending, found |-> {}, overtaken |-> FALSE, read |-> <<>>]
    BY <2>2 DEF Idle
  <2>4. FoldOK(y)
    BY <2>3 DEF FoldOK, Holds, FoldStages, SessionInv
  <2>. QED BY <1>4, <1>5, <2>1, <2>2, <2>4
<1>6. CASE ~insertEvent(p) /\ LooksBack(p)
  <2>1. PICK at, found, overtaken :
          /\ at \in {"marks", "looks up"} /\ found = learnRecoveries(x.batch)
          /\ overtaken = \E n \in recentToolEvents(x.batch), m \in x.batch : n > m
          /\ folder' = [folder EXCEPT ![p] = [folder[p] EXCEPT !.at = at, !.found = found, !.overtaken = overtaken]]
    BY <1>6 DEF LooksBack
  <2>2. PICK y : y = [x EXCEPT !.at = at, !.found = found, !.overtaken = overtaken]
    OBVIOUS
  <2>3. /\ folder' = [folder EXCEPT ![p] = y] /\ DOMAIN y = Holds
        /\ y.at = at /\ y.batch = x.batch /\ y.found = found /\ y.overtaken = overtaken
    BY <1>1, <2>1, <2>2 DEF Holds
  <2>4. /\ found \subseteq stored \X x.batch
        /\ ~overtaken => \A pair \in found : pair[1] <= log[pair[2]].of
    <3>1. x.batch \in SUBSET stored /\ LogOf(log) /\ stored \subseteq DOMAIN log
      BY <1>1 DEF SessionInv
    <3>2. PICK batch \in SUBSET stored : batch = x.batch
      BY <3>1
    <3>3. ~overtaken => \A n \in recentToolEvents(batch), m \in batch : ~(n > m)
      BY <2>1, <3>2
    <3>. QED BY <2>1, <3>1, <3>2, <3>3, LearnedIs
  <2>5. FoldOK(y)
    BY <1>1, <2>1, <2>3, <2>4 DEF FoldOK, FoldStages
  <2>. QED BY <1>4, <1>6, <2>3, <2>5
<1>7. CASE ~insertEvent(p) /\ LooksUp(p)
  <2>0. PICK read : \E at \in {"commits", "looks up"} :
          folder' = [folder EXCEPT ![p] = [folder[p] EXCEPT !.at = at, !.read = read]]
    <3>1. PICK failed \in Wrong(folder[p].found) \ DOMAIN folder[p].read :
            \E read : folder' = [folder EXCEPT ![p] = [folder[p] EXCEPT
              !.at = IF DOMAIN read = Wrong(folder[p].found) THEN "commits" ELSE "looks up",
              !.read = read]]
      BY <1>7 DEF LooksUp
    <3>2. PICK read : folder' = [folder EXCEPT ![p] = [folder[p] EXCEPT
              !.at = IF DOMAIN read = Wrong(folder[p].found) THEN "commits" ELSE "looks up",
              !.read = read]]
      BY <3>1
    <3>3. PICK at \in {"commits", "looks up"} :
            at = IF DOMAIN read = Wrong(folder[p].found) THEN "commits" ELSE "looks up"
      OBVIOUS
    <3>4. folder' = [folder EXCEPT ![p] = [folder[p] EXCEPT !.at = at, !.read = read]]
      BY <3>2, <3>3
    <3>. QED BY <3>3, <3>4
  <2>1. PICK at \in {"commits", "looks up"} :
          folder' = [folder EXCEPT ![p] = [folder[p] EXCEPT !.at = at, !.read = read]]
    BY <2>0
  <2>2. PICK y : y = [x EXCEPT !.at = at, !.read = read]
    OBVIOUS
  <2>3. /\ folder' = [folder EXCEPT ![p] = y] /\ DOMAIN y = Holds
        /\ y.at = at /\ y.batch = x.batch /\ y.found = x.found /\ y.overtaken = x.overtaken
    BY <1>1, <2>1, <2>2 DEF Holds
  <2>4. FoldOK(y)
    BY <1>0, <2>1, <2>3 DEF FoldOK, FoldStages
  <2>. QED BY <1>4, <1>7, <2>3, <2>4
<1>8. CASE ~insertEvent(p) /\ (commitPatch(p) \/ Refused(p))
  <2>1. folder' = [folder EXCEPT ![p] = [folder[p] EXCEPT !.at = "marks"]]
    BY <1>8 DEF commitPatch, Refused
  <2>2. PICK y : y = [x EXCEPT !.at = "marks"]
    OBVIOUS
  <2>3. /\ folder' = [folder EXCEPT ![p] = y] /\ DOMAIN y = Holds
        /\ y.at = "marks" /\ y.batch = x.batch /\ y.found = x.found /\ y.overtaken = x.overtaken
    BY <1>1, <2>1, <2>2 DEF Holds
  <2>4. FoldOK(y)
    BY <1>0, <2>3 DEF FoldOK, FoldStages
  <2>. QED BY <1>4, <1>8, <2>3, <2>4
<1>9. CASE ~insertEvent(p) /\ (MarksResolved(p) \/ FoldDies(p))
  <2>1. folder' = [folder EXCEPT ![p] = Idle]
    BY <1>9 DEF MarksResolved, FoldDies
  <2>. QED BY <1>4, <1>9, <2>1, IdleOK
<1>. QED BY <1>2, <1>5, <1>6, <1>7, <1>8, <1>9

\* Every step keeps the session and what its folds hold right.
LEMMA SessionStep ==
  ASSUME SessionInv, [Next]_vars
  PROVE  SessionInv' /\ Grown(log, log')
<1>0. LogOf(log) /\ Grown(log, log) /\ Len(log) <= setting.length /\ (~setting.ties => Strict(log))
  BY DEF SessionInv, Grown, LogOf
<1>1. CASE Happens
  <2>1. PICK l \in Extensions(log) : Len(l) <= setting.length /\ log' = l
    BY <1>1 DEF Happens
  <2>2. UNCHANGED <<stored, pending, folder, setting>>
    BY <1>1 DEF Happens
  <2>3. LogOf(l) /\ Grown(log, l) /\ (~setting.ties => Strict(l))
    BY <2>1, NextOf
  <2>4. pending' \subseteq stored
    BY <2>2 DEF SessionInv
  <2>. QED BY <2>1, <2>2, <2>3, <2>4, SessionGrows
<1>2. CASE \/ WorkerResolves \/ (\E r \in DOMAIN rules : RuleFades(r) \/ RuleRetired(r)) \/ UNCHANGED vars
           \/ \E p \in Learner : \/ buildLearnInput(p) \/ ReadsWindow(p) \/ learnWatermark(p)
                                 \/ advanceWatermark(p) \/ Answers(p) \/ Fails(p)
  <2>1. UNCHANGED <<log, stored, folder, setting>> /\ pending' \subseteq pending
    BY <1>2 DEF WorkerResolves, RuleFades, RuleRetired, vars, buildLearnInput, ReadsWindow, learnWatermark,
                advanceWatermark, Answers, Fails
  <2>2. pending' \subseteq stored
    BY <2>1 DEF SessionInv
  <2>. QED BY <1>0, <2>1, <2>2, SessionGrows
<1>3. ASSUME NEW p \in Folder,
             \/ insertEvent(p) \/ refold(p) \/ LooksBack(p) \/ LooksUp(p)
             \/ commitPatch(p) \/ Refused(p) \/ MarksResolved(p) \/ FoldDies(p)
      PROVE  SessionInv' /\ Grown(log, log')
  BY <1>3, FoldsKeepSession
<1>. QED BY <1>1, <1>2, <1>3 DEF Next

THEOREM SessionInvariant == Spec => []SessionInv
<1>1. SessionInv /\ [Next]_vars => SessionInv'
  BY SessionStep
<1>. QED BY <1>1, SessionInit, PTL DEF Spec

\* A rule comes of a success whose call was made after the failure had come back, where no
\* event the fold looked back at came later than one it folds (CauseBeforeEffect), for
\* sessions of any length, any tools, windows and batches, reported in any order.
THEOREM CausesComeFirst == Spec => []CauseBeforeEffect
<1>1. SessionInv => CauseBeforeEffect
  BY DEF SessionInv, FoldOK, CauseBeforeEffect
<1>. QED BY <1>1, SessionInvariant, PTL


-----------------------------------------------------------------------------
(* The learners and the mark.                                              *)

LearnStages == {"rests", "walks", "asks", "reads", "writes"}
Keeps == {"at", "cursor", "left", "asked", "until", "prev"}

\* What a learner asks about are episodes of the session that begin no later than the mark
\* it wants.
HoldOK(x) ==
  /\ DOMAIN x = Keeps /\ x.at \in LearnStages /\ x.cursor \in Nat /\ x.until \in Nat /\ x.prev \in Nat
  /\ (x.at = "rests" => x = Resting) /\ (x.at = "walks" => x.asked = <<>>) /\ (x.at = "asks" => x.asked # <<>>)
  /\ x.asked \in Seq(Spell)
  /\ \A e \in Range(x.asked) : IsEpisode(log, e) /\ log[e.called].ts <= x.until

\* The only learner there is walks at the mark or past it, asks about what lies past it,
\* and has read it as it is.
AloneOK(x) ==
  /\ x.at = "walks" => mark <= x.cursor
  /\ \A e \in Range(x.asked) : log[e.called].ts > mark
  /\ x.at \in {"reads", "writes"} /\ x.asked = <<>> => mark <= x.until
  /\ x.at = "writes" => x.prev = mark

LEMMA EpisodeTime ==
  ASSUME NEW l, LogOf(l), NEW e, IsEpisode(l, e)
  PROVE  l[e.called].ts \in Nat
<1>1. l[e.called] \in Event
  BY DEF IsEpisode, LogOf
<1>. QED BY <1>1 DEF Event

Settling(x, e) == x.at \in {"reads", "writes"} /\ e \in Range(x.asked)

LearnInv ==
  /\ mark \in Nat
  /\ learner = [p \in Learner |-> learner[p]] /\ \A p \in Learner : HoldOK(learner[p])
  /\ \A e \in answered : IsEpisode(log, e)
  /\ ~setting.shared =>
       /\ \A p, q \in Learner : learner[p] # Resting /\ learner[q] # Resting => p = q
       /\ \A p \in Learner : AloneOK(learner[p])
       /\ \A e \in answered : log[e.called].ts <= mark \/ \E p \in Learner : Settling(learner[p], e)

LEMMA RestingOK ==
  /\ HoldOK(Resting) /\ AloneOK(Resting) /\ Resting.at = "rests" /\ Resting.asked = <<>>
  /\ \A e : ~Settling(Resting, e)
<1>1. /\ DOMAIN Resting = Keeps /\ Resting.at = "rests" /\ Resting.asked = <<>>
      /\ Resting.cursor = 0 /\ Resting.until = 0 /\ Resting.prev = 0
  BY DEF Resting, Keeps
<1>. HIDE DEF Resting
<1>2. Resting.asked \in Seq(Spell) /\ Range(Resting.asked) = {}
  BY <1>1 DEF Range
<1>. QED BY <1>1, <1>2 DEF HoldOK, AloneOK, LearnStages, Settling

\* What one learner does leaves the others.
LEMMA OneLearner ==
  ASSUME learner = [p \in Learner |-> learner[p]], NEW p \in Learner, NEW y, learner' = [learner EXCEPT ![p] = y]
  PROVE  /\ learner' = [q \in Learner |-> learner'[q]]
         /\ learner'[p] = y /\ \A q \in Learner : q # p => learner'[q] = learner[q]
<1>1. DOMAIN learner = Learner
  BY Zenon
<1>2. DOMAIN learner' = Learner /\ learner'[p] = y /\ \A q \in Learner : q # p => learner'[q] = learner[q]
  BY <1>1
<1>3. learner' = [q \in DOMAIN learner' |-> learner'[q]]
  <2>1. learner' = [q \in Learner |-> IF q = p THEN y ELSE learner[q]]
    BY <1>1
  <2>. QED BY <1>2, <2>1
<1>. QED BY <1>2, <1>3

\* Where one learner is busy no other is.
LEMMA OthersRest ==
  ASSUME LearnInv, ~setting.shared, NEW p \in Learner, learner[p] # Resting, NEW q \in Learner, q # p
  PROVE  learner[q] = Resting
BY DEF LearnInv

\* Where one learner takes a step that is right, all is right.
LEMMA LearnMoves ==
  ASSUME LearnInv, NEW p \in Learner, NEW y, learner' = [learner EXCEPT ![p] = y],
         log' = log, setting' = setting, mark' \in Nat, HoldOK(y),
         \A e \in answered' : IsEpisode(log, e),
         ~setting.shared =>
           /\ \A q \in Learner : q # p => learner[q] = Resting
           /\ AloneOK(y)'
           /\ \A e \in answered' : log[e.called].ts <= mark' \/ Settling(y, e)
  PROVE  LearnInv'
<1>1. /\ learner' = [q \in Learner |-> learner'[q]]
      /\ learner'[p] = y /\ \A q \in Learner : q # p => learner'[q] = learner[q]
  BY OneLearner DEF LearnInv
<1>2. \A q \in Learner : HoldOK(learner[q])'
  <2> SUFFICES ASSUME NEW q \in Learner PROVE HoldOK(learner[q])'
    OBVIOUS
  <2>1. PICK x : x = learner'[q]
    OBVIOUS
  <2>2. HoldOK(x)
    BY <1>1, <2>1 DEF LearnInv
  <2>. QED BY <2>1, <2>2 DEF HoldOK
<1>3. ASSUME ~setting.shared
      PROVE  /\ \A q, r \in Learner : learner'[q] # Resting /\ learner'[r] # Resting => q = r
             /\ \A q \in Learner : AloneOK(learner[q])'
             /\ \A e \in answered' : log'[e.called].ts <= mark' \/ \E q \in Learner : Settling(learner'[q], e)
  <2>1. \A q \in Learner : q # p => learner'[q] = Resting
    BY <1>1, <1>3
  <2>2. \A q, r \in Learner : learner'[q] # Resting /\ learner'[r] # Resting => q = r
    BY <2>1
  <2>3. \A q \in Learner : AloneOK(learner[q])'
    <3> SUFFICES ASSUME NEW q \in Learner PROVE AloneOK(learner[q])'
      OBVIOUS
    <3>1. PICK x : x = learner'[q]
      OBVIOUS
    <3>2. AloneOK(x)'
      <4>1. CASE q = p
        BY <1>1, <1>3, <3>1, <4>1 DEF AloneOK
      <4>2. CASE q # p
        <5>1. x = Resting /\ Range(x.asked) = {} /\ x.at = "rests"
          BY <2>1, <3>1, <4>2, RestingOK DEF Range
        <5>. QED BY <5>1 DEF AloneOK
      <4>. QED BY <4>1, <4>2
    <3>. QED BY <3>1, <3>2 DEF AloneOK
  <2>4. \A e \in answered' : log'[e.called].ts <= mark' \/ Settling(learner'[p], e)
    BY <1>1, <1>3
  <2>. QED BY <2>2, <2>3, <2>4
<1>. QED BY <1>1, <1>2, <1>3 DEF LearnInv, Settling

\* Where no learner takes a step and the session grows, all stays right.
LEMMA LearnGrows ==
  ASSUME LearnInv, UNCHANGED <<mark, learner, answered, setting>>, Grown(log, log')
  PROVE  LearnInv'
<1>1. \A e : IsEpisode(log, e) => IsEpisode(log', e) /\ log'[e.called] = log[e.called]
  BY EpisodeStays
<1>2. \A p \in Learner : HoldOK(learner[p])'
  BY <1>1 DEF LearnInv, HoldOK
<1>3. ~setting.shared =>
       /\ \A p \in Learner : AloneOK(learner[p])'
       /\ \A e \in answered : log'[e.called].ts <= mark \/ \E p \in Learner : Settling(learner[p], e)
  BY <1>1 DEF LearnInv, HoldOK, AloneOK
<1>. QED BY <1>1, <1>2, <1>3 DEF LearnInv, Settling

LEMMA LearnInit == Init => LearnInv
<1> SUFFICES ASSUME Init PROVE LearnInv
  OBVIOUS
<1>1. mark = 0 /\ learner = [p \in Learner |-> Resting] /\ answered = {}
  BY DEF Init
<1>2. learner = [p \in Learner |-> learner[p]] /\ \A p \in Learner : learner[p] = Resting
  BY <1>1
<1>. QED BY <1>1, <1>2, RestingOK DEF LearnInv

\* A walk reads a window and asks about its first episodes, marks it read, or rests.
LEMMA ReadsIs ==
  ASSUME SessionInv, LearnInv, NEW p \in Learner, ReadsWindow(p)
  PROVE  LearnInv'
<1> DEFINE x == learner[p]
<1>1. /\ HoldOK(x) /\ x.at = "walks" /\ x # Resting /\ LogOf(log)
      /\ UNCHANGED <<log, mark, answered, setting>>
  <2>1. HoldOK(x) /\ x.at = "walks"
    BY DEF LearnInv, ReadsWindow
  <2>. QED BY <2>1, RestingOK DEF SessionInv, ReadsWindow
<1>2. /\ DOMAIN x = Keeps /\ x.cursor \in Nat /\ x.until \in Nat /\ x.prev \in Nat /\ x.asked = <<>>
  BY <1>1 DEF HoldOK
<1>3. /\ mark \in Nat /\ \A e \in answered : IsEpisode(log, e)
      /\ ~setting.shared => /\ \A q \in Learner : q # p => learner[q] = Resting
                            /\ mark <= x.cursor
                            /\ \A e \in answered : log[e.called].ts <= mark
  <2>1. \A q \in Learner : learner[q] # Resting /\ ~setting.shared => q = p
    BY <1>1 DEF LearnInv
  <2>2. \A e : ~Settling(x, e)
    BY <1>1 DEF Settling
  <2>3. ~setting.shared => \A q \in Learner, e \in answered : ~Settling(learner[q], e)
    BY <2>1, <2>2, RestingOK
  <2>. QED BY <1>1, <2>1, <2>3 DEF LearnInv, AloneOK
<1>4. PICK c, events, found, shown :
        /\ c = x.cursor /\ events = sessionToolEvents(c) /\ found = collectEpisodes(events, c) /\ shown = Shown(found)
  OBVIOUS
<1>5. learner' =
          IF found # <<>> THEN
            [learner EXCEPT ![p] = [learner[p] EXCEPT !.at = "asks", !.asked = shown, !.until = Last(shown).resolvedAt]]
          ELSE IF Len(events) < WindowSize \/ markRead(events) <= c THEN
            [learner EXCEPT ![p] = Resting]
          ELSE [learner EXCEPT ![p] = [learner[p] EXCEPT !.at = "reads", !.until = markRead(events)]]
  BY <1>4 DEF ReadsWindow, Shown
<1>. HIDE DEF x
<1>6. ASSUME NEW y, learner' = [learner EXCEPT ![p] = y], HoldOK(y),
             ~setting.shared => AloneOK(y)'
      PROVE  LearnInv'
  <2>1. \A e \in answered' : IsEpisode(log, e)
    BY <1>1, <1>3
  <2>2. ~setting.shared => /\ \A q \in Learner : q # p => learner[q] = Resting
                           /\ AloneOK(y)'
                           /\ \A e \in answered' : log[e.called].ts <= mark' \/ Settling(y, e)
    BY <1>1, <1>3, <1>6
  <2>3. log' = log /\ setting' = setting /\ mark' \in Nat
    BY <1>1, <1>3
  <2>. QED BY <1>6, <2>1, <2>2, <2>3, LearnMoves
<1>7. CASE found # <<>>
  <2>1. PICK y : y = [x EXCEPT !.at = "asks", !.asked = shown, !.until = Last(shown).resolvedAt]
    OBVIOUS
  <2>2. learner' = [learner EXCEPT ![p] = y]
    BY <1>5, <1>7, <2>1 DEF x
  <2>3. /\ shown \in Seq(Spell) /\ shown # <<>>
        /\ \A e \in Range(shown) :
              IsEpisode(log, e) /\ log[e.called].ts > c /\ log[e.called].ts <= Last(shown).resolvedAt
        /\ Last(shown).resolvedAt \in Nat
    BY <1>1, <1>2, <1>4, <1>7, AskedIs
  <2>4. /\ DOMAIN y = Keeps /\ y.at = "asks" /\ y.asked = shown /\ y.until = Last(shown).resolvedAt
        /\ y.cursor = x.cursor /\ y.prev = x.prev
    BY <1>2, <2>1 DEF Keeps
  <2>5. HoldOK(y)
    BY <1>2, <2>3, <2>4 DEF HoldOK, LearnStages
  <2>6. ~setting.shared => \A e \in Range(shown) : log[e.called].ts > mark
    <3>1. \A e \in Range(shown) : log[e.called].ts \in Nat
      BY <1>1, <2>3, EpisodeTime
    <3>. QED BY <1>2, <1>3, <1>4, <2>3, <3>1
  <2>7. ~setting.shared => AloneOK(y)'
    BY <1>1, <2>4, <2>6 DEF AloneOK
  <2>. QED BY <1>6, <2>2, <2>5, <2>7
<1>8. CASE found = <<>> /\ (Len(events) < WindowSize \/ markRead(events) <= c)
  <2>1. learner' = [learner EXCEPT ![p] = Resting]
    BY <1>5, <1>8
  <2>2. AloneOK(Resting)'
    BY RestingOK DEF AloneOK, Range
  <2>. QED BY <1>6, <2>1, <2>2, RestingOK
<1>9. CASE found = <<>> /\ ~(Len(events) < WindowSize \/ markRead(events) <= c)
  <2>1. PICK y : y = [x EXCEPT !.at = "reads", !.until = markRead(events)]
    OBVIOUS
  <2>2. learner' = [learner EXCEPT ![p] = y]
    BY <1>5, <1>9, <2>1 DEF x
  <2>3. Stretch(log, events) /\ Len(events) \in Nat /\ WindowSize \in Nat
    <3>1. Stretch(log, events)
      BY <1>1, <1>2, <1>4, WindowIs
    <3>. QED BY <3>1, OverlapIs DEF Stretch, Drawn
  <2>4. markRead(events) \in Nat
    BY <1>9, <2>3, MarkReadIs
  <2>5. /\ DOMAIN y = Keeps /\ y.at = "reads" /\ y.asked = <<>> /\ y.until = markRead(events)
        /\ y.cursor = x.cursor /\ y.prev = x.prev
    BY <1>2, <2>1 DEF Keeps
  <2>6. y.asked \in Seq(Spell) /\ Range(y.asked) = {}
    BY <2>5 DEF Range
  <2>7. HoldOK(y)
    BY <1>2, <2>4, <2>5, <2>6 DEF HoldOK, LearnStages
  <2>8. ~setting.shared => mark <= markRead(events)
    BY <1>2, <1>3, <1>4, <1>9, <2>4
  <2>9. ~setting.shared => AloneOK(y)'
    BY <1>1, <2>5, <2>6, <2>8 DEF AloneOK
  <2>. QED BY <1>6, <2>2, <2>7, <2>9
<1>. QED BY <1>7, <1>8, <1>9

\* It sets out at the mark.
LEMMA BeginsIs ==
  ASSUME LearnInv, NEW p \in Learner, buildLearnInput(p)
  PROVE  LearnInv'
<1>1. /\ UNCHANGED <<log, mark, answered, setting>> /\ learner[p] = Resting
      /\ setting.shared \/ \A q \in Learner : learner[q] = Resting
      /\ learner' = [learner EXCEPT ![p] = [learner[p] EXCEPT !.at = "walks", !.cursor = mark, !.left = MaxWindows]]
  BY DEF buildLearnInput
<1>2. PICK y : y = [Resting EXCEPT !.at = "walks", !.cursor = mark, !.left = MaxWindows]
  OBVIOUS
<1>3. learner' = [learner EXCEPT ![p] = y]
  BY <1>1, <1>2
<1>4. DOMAIN Resting = Keeps /\ Resting.asked = <<>> /\ Resting.until = 0 /\ Resting.prev = 0
  BY DEF Resting, Keeps
<1>. HIDE DEF Resting
<1>5. /\ DOMAIN y = Keeps /\ y.at = "walks" /\ y.cursor = mark /\ y.asked = <<>> /\ y.until = 0 /\ y.prev = 0
  BY <1>2, <1>4 DEF Keeps
<1>6. y.asked \in Seq(Spell) /\ Range(y.asked) = {} /\ mark \in Nat
  BY <1>5 DEF Range, LearnInv
<1>7. HoldOK(y)
  BY <1>5, <1>6 DEF HoldOK, LearnStages
<1>8. AloneOK(y)'
  BY <1>1, <1>5, <1>6 DEF AloneOK
<1>9. ~setting.shared => \A e \in answered' : log[e.called].ts <= mark' \/ Settling(y, e)
  BY <1>1, RestingOK DEF LearnInv
<1>10. log' = log /\ setting' = setting /\ mark' \in Nat /\ \A e \in answered' : IsEpisode(log, e)
  BY <1>1 DEF LearnInv
<1>11. ~setting.shared => \A q \in Learner : q # p => learner[q] = Resting
  BY <1>1
<1>. QED BY <1>3, <1>7, <1>8, <1>9, <1>10, <1>11, LearnMoves

\* It reads the mark before it writes it.
LEMMA LooksIs ==
  ASSUME LearnInv, NEW p \in Learner, learnWatermark(p)
  PROVE  LearnInv'
<1> DEFINE x == learner[p]
<1>1. /\ UNCHANGED <<log, mark, answered, setting>> /\ x.at = "reads" /\ HoldOK(x) /\ x # Resting
  <2>1. HoldOK(x) /\ x.at = "reads"
    BY DEF LearnInv, learnWatermark
  <2>. QED BY <2>1, RestingOK DEF learnWatermark
<1>2. PICK y : y = [x EXCEPT !.at = "writes", !.prev = mark]
  OBVIOUS
<1>3. learner' = [learner EXCEPT ![p] = y] /\ mark \in Nat
  BY <1>2 DEF learnWatermark, LearnInv
<1>4. ~setting.shared => AloneOK(x) /\ \A q \in Learner : q # p => learner[q] = Resting
  BY <1>1 DEF LearnInv
<1>5. ~setting.shared => \A e \in answered : log[e.called].ts <= mark \/ Settling(x, e)
  BY <1>4, RestingOK DEF LearnInv
<1>. HIDE DEF x
<1>6. /\ DOMAIN y = Keeps /\ y.at = "writes" /\ y.cursor = x.cursor /\ y.asked = x.asked
      /\ y.until = x.until /\ y.prev = mark
  BY <1>1, <1>2 DEF Keeps, HoldOK
<1>7. HoldOK(y)
  BY <1>1, <1>3, <1>6 DEF HoldOK, LearnStages
<1>8. ~setting.shared => AloneOK(y)'
  BY <1>1, <1>4, <1>6 DEF AloneOK
<1>9. ~setting.shared => \A e \in answered' : log[e.called].ts <= mark' \/ Settling(y, e)
  BY <1>1, <1>5, <1>6 DEF Settling
<1>10. log' = log /\ setting' = setting /\ mark' \in Nat /\ \A e \in answered' : IsEpisode(log, e)
  BY <1>1, <1>3 DEF LearnInv
<1>. QED BY <1>3, <1>4, <1>7, <1>8, <1>9, <1>10, LearnMoves

\* What the mark becomes: where there is one learner, at least what it was and what the
\* learner wants.
LEMMA MarkIs ==
  ASSUME LearnInv, NEW p \in Learner, advanceWatermark(p)
  PROVE  /\ mark' \in Nat /\ (mark' = mark \/ mark' = learner[p].until)
         /\ ~setting.shared => mark' >= mark /\ mark' >= learner[p].until
<1>1. /\ HoldOK(learner[p]) /\ learner[p].at = "writes" /\ mark \in Nat
      /\ mark' = IF learner[p].until > learner[p].prev THEN learner[p].until ELSE mark
  BY DEF LearnInv, advanceWatermark
<1>2. ~setting.shared => learner[p].prev = mark
  BY <1>1 DEF LearnInv, AloneOK
<1>. QED BY <1>1, <1>2 DEF HoldOK

LEMMA AdvancesIs ==
  ASSUME LearnInv, SessionInv, NEW p \in Learner, advanceWatermark(p)
  PROVE  LearnInv'
<1> DEFINE x == learner[p]
<1>1. /\ UNCHANGED <<log, answered, setting>> /\ x.at = "writes" /\ HoldOK(x) /\ x # Resting
  <2>1. HoldOK(x) /\ x.at = "writes"
    BY DEF LearnInv, advanceWatermark
  <2>. QED BY <2>1, RestingOK DEF advanceWatermark
<1>2. /\ mark' \in Nat /\ mark \in Nat /\ (mark' = mark \/ mark' = x.until)
      /\ ~setting.shared => mark' >= mark /\ mark' >= x.until
  BY MarkIs DEF LearnInv
<1>3. ~setting.shared => AloneOK(x) /\ \A q \in Learner : q # p => learner[q] = Resting
  BY <1>1 DEF LearnInv
<1>4. ~setting.shared => \A e \in answered : log[e.called].ts <= mark'
  <2> SUFFICES ASSUME ~setting.shared, NEW e \in answered PROVE log[e.called].ts <= mark'
    OBVIOUS
  <2>1. log[e.called].ts <= mark \/ Settling(x, e)
    BY <1>3, RestingOK DEF LearnInv
  <2>2. log[e.called].ts \in Nat
    BY EpisodeTime DEF LearnInv, SessionInv
  <2>3. x.until \in Nat /\ (Settling(x, e) => log[e.called].ts <= x.until)
    BY <1>1 DEF HoldOK, Settling
  <2>. QED BY <1>2, <2>1, <2>2, <2>3
<1>5. \A e \in answered' : IsEpisode(log, e)
  BY <1>1 DEF LearnInv
<1>6. CASE x.asked # <<>> \/ x.left = 1
  <2>1. learner' = [learner EXCEPT ![p] = Resting]
    BY <1>6 DEF advanceWatermark
  <2>2. AloneOK(Resting)'
    BY RestingOK DEF AloneOK, Range
  <2>3. log' = log /\ setting' = setting /\ ~setting.shared => \A e \in answered' : log[e.called].ts <= mark'
    BY <1>1, <1>4
  <2>. QED BY <1>1, <1>2, <1>3, <1>4, <1>5, <2>1, <2>2, LearnMoves, RestingOK
<1>7. CASE ~(x.asked # <<>> \/ x.left = 1)
  <2>1. PICK y : y = [x EXCEPT !.at = "walks", !.cursor = x.until, !.left = x.left - 1]
    OBVIOUS
  <2>2. learner' = [learner EXCEPT ![p] = y]
    BY <1>7, <2>1 DEF advanceWatermark
  <2>3. ~setting.shared => mark' = x.until
    BY <1>1, <1>2, <1>3, <1>7 DEF AloneOK, HoldOK
  <2>. HIDE DEF x
  <2>4. /\ DOMAIN y = Keeps /\ y.at = "walks" /\ y.cursor = x.until /\ y.asked = <<>>
        /\ y.until = x.until /\ y.prev = x.prev
    BY <1>1, <1>7, <2>1 DEF Keeps, HoldOK
  <2>5. Range(y.asked) = {} /\ y.asked \in Seq(Spell)
    BY <2>4 DEF Range
  <2>6. HoldOK(y)
    BY <1>1, <2>4, <2>5 DEF HoldOK, LearnStages
  <2>7. ~setting.shared => AloneOK(y)'
    BY <1>2, <2>3, <2>4, <2>5 DEF AloneOK
  <2>. QED BY <1>1, <1>2, <1>3, <1>4, <1>5, <2>2, <2>6, <2>7, LearnMoves
<1>. QED BY <1>6, <1>7

\* A patch settles what was asked unless nothing of it is kept.
LEMMA SettlesIs ==
  ASSUME NEW added \in SUBSET Entry
  PROVE  Settles(restrictLearnPatch(added)) <=> restrictLearnPatch(added) # "invalid"
BY DEF Settles, restrictLearnPatch

LEMMA AnswersIs ==
  ASSUME LearnInv, NEW p \in Learner, Answers(p) \/ Fails(p)
  PROVE  LearnInv'
<1> DEFINE x == learner[p]
<1>1. /\ UNCHANGED <<log, mark, setting>> /\ HoldOK(x) /\ x # Resting
  <2>1. HoldOK(x) /\ (x.at = "asks" \/ x # Resting)
    BY DEF LearnInv, Answers, Fails
  <2>. QED BY <2>1, RestingOK DEF Answers, Fails
<1>2. mark \in Nat /\ \A e \in answered : IsEpisode(log, e)
  BY DEF LearnInv
<1>3. ~setting.shared => AloneOK(x) /\ \A q \in Learner : q # p => learner[q] = Resting
  BY <1>1 DEF LearnInv
<1>4. ~setting.shared => \A e \in answered : log[e.called].ts <= mark \/ Settling(x, e)
  BY <1>3, RestingOK DEF LearnInv
<1>5. ASSUME NEW some, learner' = [learner EXCEPT ![p] = Resting], answered' = answered \ some,
             \A e \in answered \ some : ~Settling(x, e)
      PROVE  LearnInv'
  <2>1. AloneOK(Resting)'
    BY RestingOK DEF AloneOK, Range
  <2>2. /\ \A e \in answered' : IsEpisode(log, e)
        /\ ~setting.shared => \A e \in answered' : log[e.called].ts <= mark'
    BY <1>1, <1>2, <1>4, <1>5
  <2>. QED BY <1>1, <1>2, <1>3, <1>5, <2>1, <2>2, LearnMoves, RestingOK
<1>6. CASE Fails(p)
  <2>1. learner' = [learner EXCEPT ![p] = Resting]
    BY <1>6 DEF Fails
  <2>2. CASE x.at = "asks"
    <3>1. answered' = answered \ {}
      BY <1>6, <2>2 DEF Fails
    <3>2. \A e : ~Settling(x, e)
      BY <2>2 DEF Settling
    <3>. QED BY <1>5, <2>1, <3>1, <3>2
  <2>3. CASE x.at # "asks"
    <3>1. answered' = answered \ Range(x.asked)
      BY <1>6, <2>3 DEF Fails
    <3>2. \A e \in answered \ Range(x.asked) : ~Settling(x, e)
      BY DEF Settling
    <3>. QED BY <1>5, <2>1, <3>1, <3>2
  <2>. QED BY <2>2, <2>3
<1>7. CASE Answers(p)
  <2>1. x.at = "asks" /\ \A e : ~Settling(x, e)
    BY <1>7 DEF Answers, Settling
  <2>2. PICK added \in SUBSET Entry :
          /\ learner' = [learner EXCEPT ![p] =
                          IF Settles(restrictLearnPatch(added)) THEN [learner[p] EXCEPT !.at = "reads"] ELSE Resting]
          /\ answered' = IF restrictLearnPatch(added) = "invalid" THEN answered
                         ELSE answered \cup Range(learner[p].asked)
    BY <1>7 DEF Answers
  <2>3. CASE restrictLearnPatch(added) = "invalid"
    <3>1. learner' = [learner EXCEPT ![p] = Resting] /\ answered' = answered \ {}
      BY <2>2, <2>3, SettlesIs
    <3>. QED BY <1>5, <2>1, <3>1
  <2>4. CASE restrictLearnPatch(added) # "invalid"
    <3>1. learner' = [learner EXCEPT ![p] = [x EXCEPT !.at = "reads"]] /\ answered' = answered \cup Range(x.asked)
      BY <2>2, <2>4, SettlesIs
    <3>2. PICK y : y = [x EXCEPT !.at = "reads"]
      OBVIOUS
    <3>3. learner' = [learner EXCEPT ![p] = y]
      BY <3>1, <3>2
    <3>. HIDE DEF x
    <3>4. /\ DOMAIN y = Keeps /\ y.at = "reads" /\ y.cursor = x.cursor /\ y.asked = x.asked
          /\ y.until = x.until /\ y.prev = x.prev
      BY <1>1, <3>2 DEF Keeps, HoldOK
    <3>5. HoldOK(y)
      BY <1>1, <3>4 DEF HoldOK, LearnStages
    <3>6. x.asked # <<>>
      BY <1>1, <2>1 DEF HoldOK
    <3>7. ~setting.shared => AloneOK(y)'
      BY <1>1, <1>3, <3>4, <3>6 DEF AloneOK
    <3>8. \A e \in answered' : IsEpisode(log, e)
      BY <1>1, <1>2, <3>1 DEF HoldOK
    <3>9. ~setting.shared => \A e \in answered' : log[e.called].ts <= mark' \/ Settling(y, e)
      BY <1>1, <1>4, <2>1, <3>1, <3>4 DEF Settling
    <3>. QED BY <1>1, <1>2, <1>3, <3>3, <3>5, <3>7, <3>8, <3>9, LearnMoves
  <2>. QED BY <2>3, <2>4
<1>. QED BY <1>6, <1>7

LEMMA LearnStep ==
  ASSUME SessionInv, LearnInv, [Next]_vars
  PROVE  LearnInv' /\ (~setting.shared => mark' >= mark)
<1>1. Grown(log, log') /\ mark \in Nat
  BY SessionStep DEF LearnInv
<1>2. CASE \/ Happens \/ WorkerResolves \/ UNCHANGED vars
           \/ \E r \in DOMAIN rules : RuleFades(r) \/ RuleRetired(r)
           \/ \E p \in Folder : \/ insertEvent(p) \/ refold(p) \/ LooksBack(p) \/ LooksUp(p)
                                \/ commitPatch(p) \/ Refused(p) \/ MarksResolved(p) \/ FoldDies(p)
  <2>1. UNCHANGED <<mark, learner, answered, setting>>
    BY <1>2 DEF Happens, WorkerResolves, RuleFades, RuleRetired, insertEvent, refold, LooksBack, LooksUp,
                commitPatch, Refused, MarksResolved, FoldDies, vars
  <2>. QED BY <1>1, <2>1, LearnGrows
<1>3. ASSUME NEW p \in Learner, buildLearnInput(p) \/ ReadsWindow(p) \/ learnWatermark(p) \/ Answers(p) \/ Fails(p)
      PROVE  LearnInv' /\ (~setting.shared => mark' >= mark)
  <2>1. mark' = mark
    BY <1>3 DEF buildLearnInput, ReadsWindow, learnWatermark, Answers, Fails
  <2>. QED BY <1>1, <1>3, <2>1, BeginsIs, ReadsIs, LooksIs, AnswersIs
<1>4. ASSUME NEW p \in Learner, advanceWatermark(p)
      PROVE  LearnInv' /\ (~setting.shared => mark' >= mark)
  BY <1>4, MarkIs, AdvancesIs
<1>. QED BY <1>2, <1>3, <1>4 DEF Next

THEOREM LearnInvariant == Spec => []LearnInv
<1>1. SessionInv /\ LearnInv /\ [Next]_vars => LearnInv'
  BY LearnStep
<1>. QED BY <1>1, LearnInit, SessionInvariant, PTL DEF Spec

\* With one learner at a time nothing a model was asked about and answered is shown to it
\* again, however often a run dies between two steps, unless it dies with the answer
\* (NothingAskedTwiceAlone), for windows, digests and sessions of any size.
THEOREM NothingIsAskedTwice == Spec => []NothingAskedTwiceAlone
<1>1. SessionInv /\ LearnInv => NothingAskedTwiceAlone
  <2> SUFFICES ASSUME SessionInv, LearnInv, ~setting.shared, NEW p \in Learner, learner[p].at = "asks",
                      NEW e \in Range(learner[p].asked) \cap answered
               PROVE  FALSE
    BY DEF NothingAskedTwiceAlone
  <2>1. \A q \in Learner : learner[q] # Resting => q = p
    BY RestingOK DEF LearnInv
  <2>2. \A q \in Learner : ~Settling(learner[q], e)
    BY <2>1, RestingOK DEF Settling
  <2>3. log[e.called].ts <= mark
    BY <2>2 DEF LearnInv
  <2>4. log[e.called].ts > mark
    BY DEF LearnInv, AloneOK
  <2>5. log[e.called].ts \in Nat /\ mark \in Nat
    BY EpisodeTime DEF LearnInv, SessionInv
  <2>. QED BY <2>3, <2>4, <2>5
<1>. QED BY <1>1, SessionInvariant, LearnInvariant, PTL

\* With one learner at a time the mark of a session never goes back, though it is read in
\* one statement and written in another (learnWatermark, advanceWatermark).
THEOREM MarkNeverGoesBack == Spec => MarkNeverGoesBackAlone
<1>1. SessionInv /\ LearnInv /\ [Next]_vars => [~setting.shared => mark' >= mark]_vars
  BY LearnStep
<1>. QED BY <1>1, SessionInvariant, LearnInvariant, PTL DEF Spec, MarkNeverGoesBackAlone
-----------------------------------------------------------------------------
(* Windows of a session whose commands were reported whole.                *)

\* Each event is an attempt.
Direct(events, attempts) ==
  /\ attempts \in Seq(Try) /\ Len(attempts) = Len(events)
  /\ \A k \in 1 .. Len(events) :
       /\ attempts[k].key = events[k].key /\ attempts[k].out = events[k].out
       /\ attempts[k].callAt = k /\ attempts[k].resultAt = k

\* Where every call has its outcome, each of them is an attempt.
LEMMA WholeAttempts ==
  ASSUME NEW l, LogOf(l), NEW events, Drawn(l, events), \A k \in DOMAIN events : events[k].type = "ran"
  PROVE  Direct(events, collectAttempts(events))
<1> DEFINE heard == {c \in DOMAIN events : Outcomes(events, c) # {}}
           N == Len(events)
           calls == InTurn(heard, N)
           f == [i \in 1 .. N |-> Attempt(events, i)]
<1>1. events \in Seq(Event) /\ N \in Nat /\ DOMAIN events = 1 .. N
  BY DEF Drawn
<1>2. \A c \in 1 .. N : Outcomes(events, c) = {c}
  BY <1>1 DEF Outcomes
<1>3. heard = 1 .. N
  BY <1>1, <1>2
<1>4. Turns(calls, heard, N)
  <2>. HIDE DEF heard, N
  <2>. QED BY <1>1, InTurnIs
<1>. HIDE DEF calls
<1>5. Len(calls) = N /\ \A k \in 1 .. N : calls[k] = k
  <2>1. Len(calls) = N - 0 /\ \A k \in 1 .. (N - 0) : calls[k] = 0 + k
    <3>1. \A m \in 1 .. N : m \in heard <=> 0 < m
      BY <1>3
    <3>2. 0 \in Nat /\ 0 <= N
      BY <1>1
    <3>. HIDE DEF heard, N
    <3>. QED BY <1>1, <1>4, <3>1, <3>2, Consecutive
  <2>. HIDE DEF N
  <2>. QED BY <1>1, <2>1
<1>6. DOMAIN calls = 1 .. N
  <2>1. calls \in Seq(1 .. N)
    BY <1>4 DEF Turns
  <2>. QED BY <1>5, <2>1
<1>7. collectAttempts(events) = [i \in DOMAIN calls |-> Attempt(events, calls[i])] \o <<>>
  BY DEF collectAttempts, calls
<1>8. \A k \in 1 .. N : Min({k}) = k
  <2>1. \A k \in 1 .. N : IsFiniteSet({k}) /\ {k} \in SUBSET Int /\ {k} # {}
    BY FS_Singleton
  <2>. QED BY <2>1, MinIsLeast
<1>9. \A k \in 1 .. N :
        Attempt(events, k) = [key |-> events[k].key, out |-> events[k].out, callAt |-> k, resultAt |-> k]
  BY <1>2, <1>8 DEF Attempt
<1>. HIDE DEF heard
<1>10. collectAttempts(events) = f \o <<>>
  BY <1>5, <1>6, <1>7
<1>11. \A k \in 1 .. N : f[k] = [key |-> events[k].key, out |-> events[k].out, callAt |-> k, resultAt |-> k]
  BY <1>9
<1>12. f \in [1 .. N -> Try]
  <2>1. \A k \in 1 .. N : f[k] \in Try
    <3>1. \A k \in 1 .. N : events[k] \in Event
      BY <1>1
    <3>2. \A k \in 1 .. N : events[k].key \in Key /\ events[k].out \in Outcome
      BY <3>1 DEF Event
    <3>. QED BY <1>11, <3>2 DEF Try
  <2>2. f = [k \in 1 .. N |-> f[k]]
    OBVIOUS
  <2>. HIDE DEF f
  <2>. QED BY <2>1, <2>2
<1>. HIDE DEF f, N
<1>13. collectAttempts(events) = f /\ f \in Seq(Try) /\ Len(f) = N
  BY <1>1, <1>10, <1>12, AsItIs
<1>14. \A k \in 1 .. N : /\ f[k].key = events[k].key /\ f[k].out = events[k].out
                         /\ f[k].callAt = k /\ f[k].resultAt = k
  <2> SUFFICES ASSUME NEW k \in 1 .. N
               PROVE  /\ f[k].key = events[k].key /\ f[k].out = events[k].out
                      /\ f[k].callAt = k /\ f[k].resultAt = k
    OBVIOUS
  <2>1. PICK a : a = f[k]
    OBVIOUS
  <2>2. a = [key |-> events[k].key, out |-> events[k].out, callAt |-> k, resultAt |-> k]
    BY <1>11, <2>1
  <2>3. a.key = events[k].key /\ a.out = events[k].out /\ a.callAt = k /\ a.resultAt = k
    BY <2>2
  <2>. QED BY <2>1, <2>3, Zenon
<1>15. Direct(events, f)
  BY <1>13, <1>14 DEF Direct, N
<1>. QED BY <1>13, <1>15

\* A window starts where the times pass the cursor, and leaves nothing out.
Spans(c, events, a) ==
  /\ a \in 0 .. Len(log) /\ Len(events) \in Nat /\ a + Len(events) <= Len(log)
  /\ \A k \in 1 .. Len(events) : a + k \in DOMAIN log /\ events[k] = log[a + k]
  /\ \A n \in DOMAIN log : log[n].ts > c <=> a < n

\* What is read of a session from a position on.
LEMMA ReadFrom ==
  ASSUME NEW l \in Seq(Event), NEW a \in 0 .. Len(l), NEW positions,
         \A n \in 1 .. Len(l) : n \in positions <=> a < n
  PROVE  /\ Len(At(l, positions)) = Len(l) - a
         /\ \A k \in 1 .. (Len(l) - a) : At(l, positions)[k] = l[a + k]
<1>1. PICK order : /\ Turns(order, positions, Len(l)) /\ Len(At(l, positions)) = Len(order)
                   /\ \A k \in DOMAIN order : At(l, positions)[k] = l[order[k]]
  BY AtIs
<1>2. Len(order) = Len(l) - a /\ \A k \in 1 .. (Len(l) - a) : order[k] = a + k
  <2>1. a \in Nat /\ Len(l) \in Nat /\ a <= Len(l)
    OBVIOUS
  <2>. QED BY <1>1, <2>1, Consecutive
<1>3. DOMAIN order = 1 .. (Len(l) - a)
  <2>1. order \in Seq(1 .. Len(l))
    BY <1>1 DEF Turns
  <2>. QED BY <1>2, <2>1
<1>. QED BY <1>1, <1>2, <1>3

\* A window is a stretch of the log without a hole.
LEMMA WindowSpans ==
  ASSUME LogOf(log), stored = DOMAIN log, NEW c \in Nat
  PROVE  \E a : Spans(c, sessionToolEvents(c), a)
<1> DEFINE L == Len(log)
           S == {n \in 0 .. L : n = 0 \/ log[n].ts <= c}
           a == Max(S)
           positions == {n \in stored : log[n].ts > c}
           later == At(log, positions)
           m == Min({WindowSize, Len(later)})
           events == sessionToolEvents(c)
<1>1. /\ log \in Seq(Event) /\ L \in Nat /\ DOMAIN log = 1 .. L /\ \A n \in 1 .. L : log[n].ts \in Nat
  <2>1. \A n \in DOMAIN log : log[n] \in Event
    BY DEF LogOf
  <2>2. log \in Seq(Event)
    BY DEF LogOf
  <2>. QED BY <2>1, <2>2 DEF Event
<1>2. a \in S /\ \A n \in S : n <= a
  <2>1. S \in SUBSET (0 .. L) /\ S \in SUBSET Int /\ 0 \in S
    BY <1>1
  <2>2. IsFiniteSet(0 .. L)
    BY <1>1, FS_Interval
  <2>. HIDE DEF S
  <2>3. IsFiniteSet(S)
    BY <2>1, <2>2, FS_Subset
  <2>. QED BY <2>1, <2>3, MaxIsGreatest
<1>. HIDE DEF a
<1>3. a \in 0 .. L /\ (a = 0 \/ log[a].ts <= c)
  BY <1>2
<1>4. \A n \in 1 .. L : log[n].ts > c => a < n
  <2> SUFFICES ASSUME NEW n \in 1 .. L, n <= a PROVE ~(log[n].ts > c)
    BY <1>1, <1>3
  <2>1. a \in 1 .. L /\ log[a].ts <= c
    BY <1>1, <1>3
  <2>2. log[n].ts <= log[a].ts
    <3>1. CASE n = a
      BY <1>1, <2>1, <3>1
    <3>2. CASE n # a
      <4>1. n < a
        BY <1>1, <2>1, <3>2
      <4>. QED BY <1>1, <2>1, <4>1 DEF LogOf
    <3>. QED BY <3>1, <3>2
  <2>. QED BY <1>1, <2>1, <2>2
<1>5. \A n \in 1 .. L : a < n => log[n].ts > c
  <2> SUFFICES ASSUME NEW n \in 1 .. L, a < n PROVE log[n].ts > c
    OBVIOUS
  <2>1. n \notin S
    BY <1>1, <1>2, <1>3
  <2>. QED BY <1>1, <2>1
<1>6. later \in Seq(Event)
  <2>. HIDE DEF positions
  <2>. QED BY <1>1, AtIs
<1>7. Len(later) = L - a /\ \A k \in 1 .. (L - a) : later[k] = log[a + k]
  <2>1. \A n \in 1 .. L : n \in positions <=> a < n
    BY <1>1, <1>4, <1>5
  <2>. HIDE DEF positions
  <2>. QED BY <1>1, <1>3, <2>1, ReadFrom
<1>9. events = SubSeq(later, 1, m)
  BY DEF sessionToolEvents
<1>. HIDE DEF positions, later
<1>10. m \in 0 .. (L - a)
  <2>1. Len(later) = L - a /\ L - a \in Nat
    BY <1>1, <1>3, <1>7
  <2>2. m = IF WindowSize <= Len(later) THEN WindowSize ELSE Len(later)
    <3>1. WindowSize \in Int /\ Len(later) \in Int
      BY <2>1, OverlapIs
    <3>. QED BY <3>1, OfTwo, Zenon
  <2>. HIDE DEF m
  <2>. QED BY <2>1, <2>2, OverlapIs
<1>. HIDE DEF m, events
<1>11. Len(later) = L - a /\ L - a \in Nat /\ later \in Seq(Event)
  BY <1>1, <1>3, <1>6, <1>7
<1>12. Len(events) = m /\ \A k \in 1 .. m : events[k] = later[k] /\ k \in 1 .. (L - a)
  BY <1>6, <1>9, <1>10, <1>11
<1>13. \A k \in 1 .. m : a + k \in 1 .. L /\ events[k] = log[a + k]
  <2> SUFFICES ASSUME NEW k \in 1 .. m PROVE a + k \in 1 .. L /\ events[k] = log[a + k]
    OBVIOUS
  <2>1. k \in 1 .. (L - a) /\ events[k] = later[k]
    BY <1>12
  <2>2. later[k] = log[a + k]
    BY <1>7, <2>1
  <2>. QED BY <1>1, <1>3, <2>1, <2>2
<1>14. m \in Nat /\ a + m <= L
  BY <1>1, <1>3, <1>10
<1>15. Spans(c, events, a)
  BY <1>1, <1>3, <1>4, <1>5, <1>12, <1>13, <1>14 DEF Spans
<1>. QED BY <1>15 DEF events

\* What a window tries is what the session tries, from its start on.
Part(window, whole, a) ==
  /\ window \in Seq(Try) /\ whole \in Seq(Try) /\ a \in Nat /\ a + Len(window) <= Len(whole)
  /\ \A k \in 1 .. Len(window) :
       /\ window[k].key = whole[a + k].key /\ window[k].out = whole[a + k].out
       /\ window[k].callAt = k /\ window[k].resultAt = k
  /\ \A i \in 1 .. Len(whole) : whole[i].callAt = i /\ whole[i].resultAt = i
AllOf(attempts) == {a.resultAt : a \in Range(attempts)}

\* The latest failure before an attempt is the same in both, if the window has one.
LEMMA SameFailure ==
  ASSUME NEW window, NEW whole, NEW a, Part(window, whole, a),
         NEW j \in DOMAIN window, FailuresBefore(window, j) # {}
  PROVE  /\ FailuresBefore(whole, a + j) # {}
         /\ Max(FailuresBefore(whole, a + j)) = a + Max(FailuresBefore(window, j))
<1> DEFINE i == Max(FailuresBefore(window, j))
           x == Max(FailuresBefore(whole, a + j))
<1>1. /\ window \in Seq(Try) /\ whole \in Seq(Try) /\ a \in Nat /\ a + Len(window) <= Len(whole)
      /\ Len(window) \in Nat /\ Len(whole) \in Nat /\ DOMAIN window = 1 .. Len(window)
      /\ DOMAIN whole = 1 .. Len(whole)
  BY DEF Part
<1>2. \A k \in 1 .. Len(window) : window[k].key = whole[a + k].key /\ window[k].out = whole[a + k].out
  BY DEF Part
<1>3. RECOVERY_WINDOW \in Nat
  BY AttemptsAssumption
<1>4. \A k \in 1 .. (j - 1) : k \in FailuresBefore(window, j) <=> a + k \in FailuresBefore(whole, a + j)
  <2>1. \A k \in 1 .. (j - 1) : k \in 1 .. Len(window)
    BY <1>1
  <2>2. \A k \in 1 .. (j - 1) : /\ k \in j - RECOVERY_WINDOW .. j - 1
                                   <=> a + k \in (a + j) - RECOVERY_WINDOW .. (a + j) - 1
                                /\ a + k > 0 /\ k > 0
    BY <1>1, <1>3
  <2>. QED BY <1>1, <1>2, <2>1, <2>2 DEF FailuresBefore
<1>5. i \in FailuresBefore(window, j) /\ i \in 1 .. (j - 1) /\ \A k \in FailuresBefore(window, j) : k <= i
  BY <1>1, LatestFailure
<1>. HIDE DEF i
<1>6. a + i \in FailuresBefore(whole, a + j)
  BY <1>4, <1>5
<1>7. a + j \in DOMAIN whole /\ FailuresBefore(whole, a + j) # {}
  BY <1>1, <1>6
<1>8. /\ x \in FailuresBefore(whole, a + j) /\ x \in 1 .. ((a + j) - 1)
      /\ \A k \in FailuresBefore(whole, a + j) : k <= x
  BY <1>1, <1>7, LatestFailure
<1>. HIDE DEF x
<1>9. a + i <= x
  BY <1>6, <1>8
<1>10. x - a \in 1 .. (j - 1)
  BY <1>1, <1>5, <1>8, <1>9
<1>11. x - a \in FailuresBefore(window, j)
  <2>1. a + (x - a) = x
    BY <1>1, <1>8
  <2>. QED BY <1>4, <1>8, <1>10, <2>1
<1>12. x - a <= i
  BY <1>5, <1>11
<1>13. x = a + i
  BY <1>1, <1>5, <1>8, <1>9, <1>12
<1>. QED BY <1>7, <1>13 DEF i, x

\* What the fold learns in a window it learns in the session.
LEMMA LearnedInWhole ==
  ASSUME NEW window, NEW whole, NEW a, Part(window, whole, a),
         NEW pair \in findRecoveries(window, AllOf(window))
  PROVE  \E other \in findRecoveries(whole, AllOf(whole)) : other[1] = a + pair[1]
<1>1. /\ window \in Seq(Try) /\ whole \in Seq(Try) /\ a \in Nat /\ a + Len(window) <= Len(whole)
      /\ Len(window) \in Nat /\ Len(whole) \in Nat /\ DOMAIN window = 1 .. Len(window)
      /\ DOMAIN whole = 1 .. Len(whole)
  BY DEF Part
<1>2. PICK i, j \in DOMAIN window : pair = <<i, j>> /\ i < j /\ Cures(window, AllOf(window), i, j)
  BY <1>1, RecoveriesAre
<1>3. a + i \in DOMAIN whole /\ a + j \in DOMAIN whole
  BY <1>1
<1>4. /\ window[j].out = "ok" /\ FailuresBefore(window, j) # {} /\ i = Max(FailuresBefore(window, j))
      /\ buildRecovery(window[i], window[j])
  BY <1>2 DEF Cures
<1>5. FailuresBefore(whole, a + j) # {} /\ a + i = Max(FailuresBefore(whole, a + j))
  BY <1>4, SameFailure
<1>6. /\ whole[a + i].key = window[i].key /\ whole[a + i].out = window[i].out
      /\ whole[a + j].key = window[j].key /\ whole[a + j].out = window[j].out
      /\ whole[a + i].resultAt = a + i /\ whole[a + j].callAt = a + j
  BY <1>1, <1>3 DEF Part
<1>7. buildRecovery(whole[a + i], whole[a + j])
  BY <1>4, <1>6 DEF buildRecovery
<1>8. Reacts(whole[a + i], whole[a + j])
  BY <1>1, <1>2, <1>6 DEF Reacts
<1>9. whole[a + j].resultAt \in AllOf(whole)
  BY <1>3 DEF AllOf, Range
<1>10. Cures(whole, AllOf(whole), a + i, a + j)
  BY <1>3, <1>4, <1>5, <1>6, <1>7, <1>8, <1>9 DEF Cures
<1>11. \E other \in findRecoveries(whole, AllOf(whole)) : other[1] = a + i
  BY <1>1, <1>3, <1>10, RecoveriesAre
<1>. QED BY <1>2, <1>11

\* The first of the attempts that may end a failure's episode.
LEMMA FirstEnd ==
  ASSUME NEW attempts \in Seq(Try), NEW i \in DOMAIN attempts, Ends(attempts, i) # {}
  PROVE  /\ EndOf(attempts, i) \in Ends(attempts, i) /\ EndOf(attempts, i) \in DOMAIN attempts
         /\ i < EndOf(attempts, i) /\ \A j \in Ends(attempts, i) : EndOf(attempts, i) <= j /\ j \in DOMAIN attempts
<1> DEFINE S == Ends(attempts, i)
<1>1. Len(attempts) \in Nat /\ DOMAIN attempts = 1 .. Len(attempts) /\ EPISODE_WINDOW \in Nat
  BY AttemptsAssumption
<1>2. \A j \in S : j \in (i + 1) .. Len(attempts)
  BY <1>1 DEF Ends
<1>3. S # {}
  OBVIOUS
<1>. HIDE DEF S
<1>4. S \in SUBSET Int /\ IsFiniteSet(S)
  <2>1. IsFiniteSet((i + 1) .. Len(attempts))
    BY <1>1, FS_Interval
  <2>2. S \in SUBSET ((i + 1) .. Len(attempts)) /\ S \in SUBSET Int
    BY <1>1, <1>2
  <2>. QED BY <2>1, <2>2, FS_Subset
<1>5. Min(S) \in S /\ \A j \in S : Min(S) <= j
  BY <1>3, <1>4, MinIsLeast
<1>6. EndOf(attempts, i) = Min(S)
  BY DEF EndOf, S
<1>7. \A j \in S : j \in DOMAIN attempts /\ i < j
  BY <1>1, <1>2
<1>. QED BY <1>5, <1>6, <1>7 DEF S

\* An episode of the session that lies in a window is one of the window.
LEMMA OpenInWindow ==
  ASSUME NEW window, NEW whole, NEW a, Part(window, whole, a), NEW k \in DOMAIN window,
         a + k \in Open(whole), EndOf(whole, a + k) <= a + Len(window)
  PROVE  k \in Open(window) /\ a + EndOf(window, k) = EndOf(whole, a + k)
<1> DEFINE end == EndOf(whole, a + k)
           x == EndOf(window, k)
<1>1. /\ window \in Seq(Try) /\ whole \in Seq(Try) /\ a \in Nat /\ a + Len(window) <= Len(whole)
      /\ Len(window) \in Nat /\ Len(whole) \in Nat /\ DOMAIN window = 1 .. Len(window)
      /\ DOMAIN whole = 1 .. Len(whole)
  BY DEF Part
<1>2. \A n \in 1 .. Len(window) :
        /\ window[n].key = whole[a + n].key /\ window[n].out = whole[a + n].out
        /\ window[n].callAt = n /\ window[n].resultAt = n
        /\ whole[a + n].callAt = a + n /\ whole[a + n].resultAt = a + n
  <2>1. \A n \in 1 .. Len(window) : a + n \in 1 .. Len(whole)
    BY <1>1
  <2>. QED BY <2>1 DEF Part
<1>3. EPISODE_WINDOW \in Nat
  BY AttemptsAssumption
<1>4. \A j \in 1 .. Len(window) : j \in Ends(window, k) <=> a + j \in Ends(whole, a + k)
  <2> SUFFICES ASSUME NEW j \in 1 .. Len(window)
               PROVE  j \in Ends(window, k) <=> a + j \in Ends(whole, a + k)
    OBVIOUS
  <2>1. /\ j \in k + 1 .. k + EPISODE_WINDOW <=> a + j \in (a + k) + 1 .. (a + k) + EPISODE_WINDOW
        /\ j <= Len(window) /\ a + j <= Len(whole)
        /\ j > k + 1 <=> a + j > (a + k) + 1
    BY <1>1, <1>3
  <2>2. window[j].callAt >= window[k].resultAt <=> whole[a + j].callAt >= whole[a + k].resultAt
    BY <1>1, <1>2
  <2>. QED BY <1>1, <1>2, <2>1, <2>2 DEF Ends
<1>5. a + k \in Failures(whole) /\ Ends(whole, a + k) # {} /\ a + k \in DOMAIN whole
  BY DEF Open, Failures
<1>6. /\ end \in Ends(whole, a + k) /\ a + k < end /\ end \in DOMAIN whole
      /\ \A j \in Ends(whole, a + k) : end <= j
  BY <1>1, <1>5, FirstEnd
<1>7. ~editedBetween(whole, a + k, end) /\ ~wrongDirectory(whole, a + k, end)
  BY DEF Open, EndOf
<1>8. end <= a + Len(window)
  OBVIOUS
<1>. HIDE DEF end
<1>9. end - a \in 1 .. Len(window) /\ a + (end - a) = end
  BY <1>1, <1>6, <1>8
<1>10. end - a \in Ends(window, k)
  BY <1>4, <1>6, <1>9
<1>11. x \in Ends(window, k) /\ k < x /\ x \in DOMAIN window /\ \A j \in Ends(window, k) : x <= j
  BY <1>1, <1>10, FirstEnd
<1>. HIDE DEF x
<1>12. a + x = end
  <2>1. end <= a + x
    BY <1>1, <1>4, <1>6, <1>11
  <2>2. x <= end - a
    BY <1>10, <1>11
  <2>. QED BY <1>1, <1>6, <1>11, <2>1, <2>2
<1>13. ~editedBetween(window, k, x)
  <2> SUFFICES ASSUME editedBetween(window, k, x) PROVE FALSE
    OBVIOUS
  <2>1. PICK n \in k + 1 .. x - 1 : window[n].out = "ok" /\ ToolOf(window[n].key) = "Edit"
    BY DEF editedBetween
  <2>2. n \in 1 .. Len(window) /\ a + n \in (a + k) + 1 .. end - 1
    BY <1>1, <1>11, <1>12
  <2>. QED BY <1>2, <1>7, <2>1, <2>2 DEF editedBetween
<1>14. ~wrongDirectory(window, k, x)
  <2> SUFFICES ASSUME wrongDirectory(window, k, x) PROVE FALSE
    OBVIOUS
  <2>1. PICK n \in k + 1 .. x : <<window[k].key, window[n].key>> \in AfterCd
    BY DEF wrongDirectory
  <2>2. n \in 1 .. Len(window) /\ a + n \in (a + k) + 1 .. end /\ k \in 1 .. Len(window)
    BY <1>1, <1>11, <1>12
  <2>3. whole[a + k].key = window[k].key /\ whole[a + n].key = window[n].key
    BY <1>2, <2>2
  <2>4. <<whole[a + k].key, whole[a + n].key>> \in AfterCd
    BY <2>1, <2>3
  <2>. QED BY <1>7, <2>2, <2>4 DEF wrongDirectory
<1>15. k \in Failures(window)
  <2>1. \A pair \in findRecoveries(window, AllOf(window)) : pair[1] # k
    <3> SUFFICES ASSUME NEW pair \in findRecoveries(window, AllOf(window)), pair[1] = k PROVE FALSE
      OBVIOUS
    <3>1. PICK other \in findRecoveries(whole, AllOf(whole)) : other[1] = a + k
      BY LearnedInWhole
    <3>2. \A p \in findRecoveries(whole, AllOf(whole)) : p[1] # a + k
      BY <1>5 DEF Failures, AllOf
    <3>. QED BY <3>1, <3>2
  <2>2. whole[a + k].key \in Command \ Probes /\ substantive(whole[a + k].out)
    BY <1>5 DEF Failures
  <2>3. window[k].key \in Command \ Probes /\ substantive(window[k].out)
    BY <1>1, <1>2, <2>2
  <2>. QED BY <2>1, <2>3 DEF Failures, AllOf
<1>16. k \in Open(window)
  BY <1>10, <1>13, <1>14, <1>15 DEF Open, EndOf, x
<1>. QED BY <1>12, <1>16 DEF end, x

-----------------------------------------------------------------------------
(* Which episodes of the session the windows find.                         *)

\* An episode of a session reported whole starts at its place among the attempts.
LEMMA WholeEpisode ==
  ASSUME LogOf(log), ReportedWhole, NEW E \in Episodes, NEW whole, whole = collectAttempts(log)
  PROVE  /\ Direct(log, whole) /\ E.called \in Open(whole) /\ E.to = EndOf(whole, E.called)
         /\ E.called \in DOMAIN log /\ E.to \in DOMAIN log /\ E.called < E.to
<1>1. Stretch(log, log)
  <2>1. log \in Seq(Event) /\ \A k \in DOMAIN log : log[k].at = k
    BY DEF LogOf
  <2>2. \A k \in DOMAIN log : log[k].at \in DOMAIN log /\ log[k] = log[log[k].at]
    BY <2>1
  <2>. QED BY <2>1, <2>2 DEF Stretch, Drawn
<1>2. Direct(log, whole)
  BY <1>1, WholeAttempts DEF ReportedWhole, Stretch
<1>3. Tried(log, whole)
  BY <1>1, AttemptsAre DEF Stretch
<1>4. PICK start : Told(log, whole, 0, start, collectEpisodes(log, 0))
  BY <1>1, EpisodesAre
<1>5. PICK k \in DOMAIN collectEpisodes(log, 0) : E = collectEpisodes(log, 0)[k]
  BY DEF Episodes, Range
<1>6. k \in 1 .. Len(start) /\ start[k] \in Open(whole) /\ E = EpisodeFrom(log, whole, start[k])
  <2>1. /\ start \in Seq(Open(whole)) /\ collectEpisodes(log, 0) \in Seq(Spell)
        /\ Len(start) = Len(collectEpisodes(log, 0))
    BY <1>4 DEF Told
  <2>2. k \in 1 .. Len(start)
    BY <1>5, <2>1
  <2>. QED BY <1>4, <1>5, <2>1, <2>2 DEF Told
<1>7. PICK i \in Open(whole) : i = start[k]
  BY <1>6
<1>8. /\ IsEpisode(log, E) /\ E.called = log[whole[i].callAt].at
      /\ E.to = log[whole[EndOf(whole, i)].resultAt].at
  BY <1>1, <1>3, <1>6, <1>7, EpisodeIs
<1>9. i \in DOMAIN whole /\ EndOf(whole, i) \in DOMAIN whole /\ i < EndOf(whole, i)
  BY <1>3, OpenEnds
<1>10. DOMAIN whole = DOMAIN log /\ DOMAIN log = 1 .. Len(log)
  <2>1. whole \in Seq(Try) /\ log \in Seq(Event) /\ Len(whole) = Len(log)
    BY <1>2 DEF Direct, LogOf
  <2>. QED BY <2>1
<1>11. E.called = i /\ E.to = EndOf(whole, i)
  BY <1>2, <1>8, <1>9, <1>10 DEF Direct, LogOf
<1>. QED BY <1>2, <1>9, <1>10, <1>11

\* One that lies in a window is found there, or lies with another that is and that starts
\* no later.
LEMMA FoundOver ==
  ASSUME LogOf(log), ReportedWhole, NEW c \in Nat, NEW events, events = sessionToolEvents(c),
         NEW a, Spans(c, events, a), NEW E \in Episodes, log[E.called].ts > c, E.to <= a + Len(events),
         NEW found, found = collectEpisodes(events, c)
  PROVE  \E j \in DOMAIN found : Overlap(E, found[j]) /\ found[j].called <= E.called
<1> DEFINE whole == collectAttempts(log)
           window == collectAttempts(events)
           k == E.called - a
           m == Len(events)
<1>1. /\ Direct(log, whole) /\ E.called \in Open(whole) /\ E.to = EndOf(whole, E.called)
      /\ E.called \in DOMAIN log /\ E.to \in DOMAIN log /\ E.called < E.to
  BY WholeEpisode
<1>2. /\ Stretch(log, events) /\ \A n \in DOMAIN events : events[n].ts > c
  BY WindowIs
<1>3. /\ events \in Seq(Event) /\ m \in Nat /\ DOMAIN events = 1 .. m
      /\ log \in Seq(Event) /\ Len(log) \in Nat /\ DOMAIN log = 1 .. Len(log)
  BY <1>2 DEF Stretch, Drawn, LogOf
<1>4. /\ a \in 0 .. Len(log) /\ a + m <= Len(log) /\ a < E.called
      /\ \A n \in 1 .. m : a + n \in DOMAIN log /\ events[n] = log[a + n]
  BY <1>1 DEF Spans
<1>5. \A n \in DOMAIN events : events[n].type = "ran"
  BY <1>3, <1>4 DEF ReportedWhole
<1>6. Direct(events, window)
  BY <1>2, <1>5, WholeAttempts DEF Stretch
<1>7. Tried(events, window)
  BY <1>2, AttemptsAre DEF Stretch
<1>8. \E start : Told(events, window, c, start, found) /\ Reached(events, window, c, start, Len(window))
  BY <1>2, EpisodesAre
<1>. HIDE DEF whole, window
<1>9. window \in Seq(Try) /\ Len(window) = m /\ DOMAIN window = 1 .. m
  BY <1>3, <1>6 DEF Direct
<1>10. Part(window, whole, a)
  <2>1. whole \in Seq(Try) /\ Len(whole) = Len(log)
    BY <1>1 DEF Direct
  <2>2. ASSUME NEW n \in 1 .. m
        PROVE  /\ window[n].key = whole[a + n].key /\ window[n].out = whole[a + n].out
               /\ window[n].callAt = n /\ window[n].resultAt = n
    <3>1. a + n \in 1 .. Len(log) /\ events[n] = log[a + n]
      BY <1>3, <1>4
    <3>2. whole[a + n].key = log[a + n].key /\ whole[a + n].out = log[a + n].out
      BY <1>1, <3>1 DEF Direct
    <3>3. /\ window[n].key = events[n].key /\ window[n].out = events[n].out
          /\ window[n].callAt = n /\ window[n].resultAt = n
      BY <1>6 DEF Direct
    <3>. QED BY <3>1, <3>2, <3>3
  <2>3. \A i \in 1 .. Len(whole) : whole[i].callAt = i /\ whole[i].resultAt = i
    BY <1>1, <2>1 DEF Direct
  <2>4. a \in Nat /\ a + Len(window) <= Len(whole)
    BY <1>3, <1>4, <1>9, <2>1
  <2>. QED BY <1>9, <2>1, <2>2, <2>3, <2>4 DEF Part
<1>11. k \in 1 .. m /\ a + k = E.called
  BY <1>1, <1>3, <1>4
<1>. HIDE DEF k
<1>12. k \in Open(window) /\ a + EndOf(window, k) = E.to
  BY <1>1, <1>9, <1>10, <1>11, OpenInWindow
<1>13. PICK start : Told(events, window, c, start, found) /\ Reached(events, window, c, start, Len(window))
  BY <1>8
<1>14. PICK x \in Open(window) : x <= k /\ k <= EndOf(window, x) /\ Noted(events, window, c, start, x)
  BY <1>9, <1>11, <1>12, <1>13 DEF Reached
<1>15. x \in 1 .. m /\ EndOf(window, x) \in 1 .. m
  BY <1>7, <1>9, OpenEnds
<1>16. PICK f : f = EpisodeFrom(events, window, x)
  OBVIOUS
<1>17. /\ f.called = events[window[x].callAt].at /\ f.to = events[window[EndOf(window, x)].resultAt].at
       /\ f.resolvedAt = events[window[EndOf(window, x)].resultAt].ts
  BY <1>2, <1>7, <1>16, EpisodeIs
<1>18. f.called = a + x /\ f.to = a + EndOf(window, x) /\ f.resolvedAt > c
  <2>1. window[x].callAt = x /\ window[EndOf(window, x)].resultAt = EndOf(window, x)
    BY <1>6, <1>15 DEF Direct
  <2>2. \A n \in 1 .. m : events[n].at = a + n
    BY <1>4 DEF LogOf
  <2>3. events[EndOf(window, x)].ts > c
    BY <1>2, <1>3, <1>15
  <2>. QED BY <1>15, <1>17, <2>1, <2>2, <2>3
<1>19. PICK j \in 1 .. Len(start) : start[j] = x
  BY <1>14, <1>16, <1>18 DEF Noted
<1>20. j \in DOMAIN found /\ found[j] = f
  <2>1. found \in Seq(Spell) /\ Len(start) = Len(found)
    BY <1>13 DEF Told
  <2>2. j \in DOMAIN found
    BY <1>19, <2>1
  <2>. QED BY <1>13, <1>16, <1>19, <2>2 DEF Told
<1>21. f.called <= E.called /\ E.called <= f.to /\ f.called <= E.to
  BY <1>1, <1>3, <1>4, <1>11, <1>14, <1>15, <1>18
<1>. QED BY <1>20, <1>21 DEF Overlap

\* Cursors that no short episode begins behind, but those that began behind the mark.
Short(E) == E.to - E.called <= overlap
PassesNothing == {c \in Nat : \A E \in Episodes : Short(E) /\ log[E.called].ts <= c => log[E.called].ts <= mark}

\* A full window without an episode leads from one such cursor to another: an episode that
\* began no later than an overlap before its end lies in it.
LEMMA WalkPassesNothing ==
  ASSUME LogOf(log), Strict(log), stored = DOMAIN log, ReportedWhole, NEW c \in PassesNothing,
         NEW events, events = sessionToolEvents(c), collectEpisodes(events, c) = <<>>, Len(events) >= WindowSize
  PROVE  markRead(events) \in PassesNothing
<1>0. c \in Nat
  BY DEF PassesNothing
<1> DEFINE next == markRead(events)
           n == Len(events) - overlap
<1>1. Stretch(log, events)
  BY <1>0, WindowIs
<1>2. n \in DOMAIN events /\ next = events[n].ts /\ next \in Nat
  BY <1>1, MarkReadIs
<1>3. PICK a : Spans(c, events, a)
  BY <1>0, WindowSpans
<1>4. Len(events) \in Nat /\ DOMAIN events = 1 .. Len(events) /\ DOMAIN log = 1 .. Len(log) /\ Len(log) \in Nat
  BY <1>1 DEF Stretch, Drawn, LogOf
<1>5. a + n \in DOMAIN log /\ next = log[a + n].ts /\ a \in Nat /\ overlap \in Nat
  BY <1>2, <1>3, <1>4, OverlapIs DEF Spans
<1>6. n + overlap = Len(events)
  BY <1>4, OverlapIs
<1>. HIDE DEF next, n
<1>7. \A i \in DOMAIN log : log[i].ts \in Nat
  <2>1. \A i \in DOMAIN log : log[i] \in Event
    BY DEF LogOf
  <2>. QED BY <2>1 DEF Event
<1>8. ASSUME NEW E \in Episodes, Short(E), log[E.called].ts <= next
      PROVE  log[E.called].ts <= mark
  <2>1. E.called \in DOMAIN log /\ E.to \in DOMAIN log
    BY WholeEpisode
  <2>2. CASE log[E.called].ts <= c
    BY <1>8, <2>2 DEF PassesNothing
  <2>3. CASE log[E.called].ts > c
    <3>1. E.called <= a + n
      <4> SUFFICES ASSUME a + n < E.called PROVE FALSE
        BY <1>4, <1>5, <2>1
      <4>1. log[a + n].ts < log[E.called].ts
        BY <1>5, <2>1 DEF Strict
      <4>. QED BY <1>5, <1>7, <1>8, <2>1, <4>1
    <3>2. E.to <= a + Len(events)
      <4>1. E.to - E.called <= overlap
        BY <1>8 DEF Short
      <4>2. E.to \in Nat /\ E.called \in Nat /\ n \in Nat
        BY <1>2, <1>4, <2>1
      <4>. QED BY <1>4, <1>5, <1>6, <3>1, <4>1, <4>2
    <3>3. \E j \in DOMAIN collectEpisodes(events, c) : Overlap(E, collectEpisodes(events, c)[j])
      BY <1>0, <1>3, <2>3, <3>2, FoundOver
    <3>. QED BY <3>3
  <2>. QED BY <1>0, <1>7, <2>1, <2>2, <2>3
<1>. QED BY <1>2, <1>8 DEF PassesNothing, next

\* What is asked about leaves no episode out that begins past the cursor and by where the
\* mark is to move: it overlaps the last one, or ends before that begins and was found in
\* the same window.
LEMMA AskedCovers ==
  ASSUME LogOf(log), Strict(log), stored = DOMAIN log, ReportedWhole, NEW c \in Nat,
         NEW found, found = collectEpisodes(sessionToolEvents(c), c),
         NEW shown, shown = Shown(found), shown # <<>>,
         NEW E \in Episodes, log[E.called].ts > c, log[E.called].ts <= Last(shown).resolvedAt
  PROVE  \E f \in Range(shown) : Overlap(E, f)
<1> DEFINE events == sessionToolEvents(c)
<1>3. found \in Seq(Spell)
  BY WindowEpisodes
<1>5. /\ shown \in Seq(Spell) /\ Len(shown) <= Len(found)
      /\ \A k \in DOMAIN shown : k \in DOMAIN found /\ shown[k] = found[k]
  BY <1>3, ShownIs
<1>6. \E f \in Range(shown) : Overlap(E, f)
  <2> DEFINE n == Len(shown)
             last == shown[n]
  <2>1. n \in Nat /\ DOMAIN shown = 1 .. n /\ n \in 1 .. n /\ Last(shown) = last
    BY <1>5 DEF Last
  <2>4. /\ \A k \in DOMAIN found : IsEpisode(log, found[k])
        /\ \A j, k \in DOMAIN found : j < k => found[j].called < found[k].called
    BY WindowEpisodes
  <2>5. last = found[n] /\ n \in DOMAIN found /\ DOMAIN found = 1 .. Len(found) /\ last \in Range(shown)
    <3>1. n \in DOMAIN shown
      BY <2>1
    <3>2. last \in Range(shown)
      BY <3>1 DEF Range
    <3>. QED BY <1>3, <1>5, <3>1, <3>2
  <2>. HIDE DEF n, last
  <2>6. /\ last.called \in DOMAIN log /\ last.to \in DOMAIN log /\ last.called < last.to
        /\ last.resolvedAt = log[last.to].ts
    BY <2>4, <2>5 DEF IsEpisode, Spell
  <2>7. E.called \in DOMAIN log /\ E.to \in DOMAIN log /\ E.called < E.to /\ DOMAIN log = 1 .. Len(log)
    <3>1. E.called \in DOMAIN log /\ E.to \in DOMAIN log /\ E.called < E.to
      BY WholeEpisode
    <3>. QED BY <3>1 DEF LogOf
  <2>8. E.called <= last.to
    <3> SUFFICES ASSUME last.to < E.called PROVE FALSE
      BY <2>6, <2>7
    <3>1. log[last.to].ts < log[E.called].ts
      BY <2>6, <2>7 DEF Strict
    <3>2. log[last.to] \in Event /\ log[E.called] \in Event
      BY <2>6, <2>7 DEF LogOf
    <3>3. log[last.to].ts \in Nat /\ log[E.called].ts \in Nat
      BY <3>2 DEF Event
    <3>. QED BY <2>1, <2>6, <3>1, <3>3
  <2>9. CASE last.called <= E.to
    BY <2>5, <2>8, <2>9 DEF Overlap
  <2>10. CASE E.to < last.called
    <3>1. PICK a : Spans(c, events, a)
      BY WindowSpans
    <3>2. last.called <= a + Len(events)
      <4>1. Stretch(log, events)
        BY WindowIs
      <4>2. Tried(events, collectAttempts(events))
        BY <4>1, AttemptsAre DEF Stretch
      <4>3. PICK start : Told(events, collectAttempts(events), c, start, found)
        BY <4>1, EpisodesAre
      <4>. HIDE DEF events
      <4>4. n \in 1 .. Len(start) /\ start[n] \in Open(collectAttempts(events))
        <5>1. start \in Seq(Open(collectAttempts(events))) /\ Len(start) = Len(found)
          BY <4>3 DEF Told
        <5>. QED BY <2>5, <5>1
      <4>5. last = EpisodeFrom(events, collectAttempts(events), start[n])
        BY <2>5, <4>3, <4>4 DEF Told
      <4>6. PICK i \in Open(collectAttempts(events)) : i = start[n]
        BY <4>4
      <4>7. last.called = events[collectAttempts(events)[i].callAt].at
        BY <4>1, <4>2, <4>5, <4>6, EpisodeIs
      <4>8. collectAttempts(events)[i].callAt \in DOMAIN events
        BY <4>2, OpenEnds DEF Tried, Tries
      <4>9. DOMAIN events = 1 .. Len(events)
        BY <4>1 DEF Stretch, Drawn
      <4>10. PICK x \in 1 .. Len(events) : last.called = events[x].at
        BY <4>7, <4>8, <4>9
      <4>11. last.called = a + x
        BY <3>1, <4>10 DEF Spans, LogOf
      <4>. QED BY <3>1, <4>11 DEF Spans
    <3>3. E.to <= a + Len(events)
      BY <2>6, <2>7, <2>10, <3>1, <3>2 DEF Spans
    <3>4. PICK j \in DOMAIN found : Overlap(E, found[j]) /\ found[j].called <= E.called
      BY <3>1, <3>3, FoundOver
    <3>5. j < n
      <4> SUFFICES ASSUME n <= j PROVE FALSE
        BY <2>1, <2>5
      <4>1. last.called <= found[j].called
        <5>1. found[j].called \in DOMAIN log
          BY <2>4, <3>4 DEF IsEpisode
        <5>2. CASE j = n
          BY <2>5, <2>6, <2>7, <5>2
        <5>3. CASE j # n
          <6>1. n < j
            BY <2>1, <2>5, <5>3
          <6>2. found[n].called < found[j].called
            BY <2>4, <2>5, <6>1
          <6>. QED BY <2>5, <2>6, <2>7, <5>1, <6>2
        <5>. QED BY <5>2, <5>3
      <4>2. found[j].called \in DOMAIN log
        BY <2>4, <3>4 DEF IsEpisode
      <4>. QED BY <2>6, <2>7, <2>10, <3>4, <4>1, <4>2
    <3>6. j \in DOMAIN shown
      BY <2>1, <2>5, <3>5
    <3>7. shown[j] \in Range(shown) /\ shown[j] = found[j]
      BY <1>5, <3>6 DEF Range
    <3>. QED BY <3>4, <3>7
  <2>. QED BY <2>6, <2>7, <2>9, <2>10
<1>. QED BY <1>6

-----------------------------------------------------------------------------
(* Nothing is passed over.                                                 *)

\* Every episode of a session begins at one of its events.
LEMMA EpisodesBegin ==
  ASSUME NEW l, LogOf(l), NEW E \in Range(collectEpisodes(l, 0))
  PROVE  E.called \in DOMAIN l /\ l[E.called].ts \in Nat /\ l[E.called].ts >= 1
<1> DEFINE attempts == collectAttempts(l)
<1>1. Stretch(l, l)
  <2>1. l \in Seq(Event) /\ \A k \in DOMAIN l : l[k].at = k
    BY DEF LogOf
  <2>2. \A k \in DOMAIN l : l[k].at \in DOMAIN l /\ l[k] = l[l[k].at]
    BY <2>1
  <2>. QED BY <2>1, <2>2 DEF Stretch, Drawn
<1>2. Tried(l, attempts)
  BY <1>1, AttemptsAre DEF Stretch
<1>3. PICK start : Told(l, attempts, 0, start, collectEpisodes(l, 0))
  BY <1>1, EpisodesAre
<1>. HIDE DEF attempts
<1>4. PICK k \in DOMAIN collectEpisodes(l, 0) : E = collectEpisodes(l, 0)[k]
  BY DEF Range
<1>5. k \in 1 .. Len(start) /\ start[k] \in Open(attempts) /\ E = EpisodeFrom(l, attempts, start[k])
  <2>1. /\ start \in Seq(Open(attempts)) /\ collectEpisodes(l, 0) \in Seq(Spell)
        /\ Len(start) = Len(collectEpisodes(l, 0))
    BY <1>3 DEF Told
  <2>2. k \in 1 .. Len(start)
    BY <1>4, <2>1
  <2>. QED BY <1>3, <1>4, <2>1, <2>2 DEF Told
<1>6. IsEpisode(l, E)
  BY <1>1, <1>2, <1>5, EpisodeIs
<1>7. l[E.called] \in Event
  BY <1>6 DEF IsEpisode, LogOf
<1>. QED BY <1>6, <1>7 DEF IsEpisode, LogOf, Event

\* One learner, of a session that has ended, no two events of which have one timestamp.
Alone == ~setting.ties /\ ~setting.shared /\ setting.learns = "after"
Covered(E, asked) == \E f \in asked : Overlap(E, f)
Settled == {f \in answered : log[f.called].ts <= mark}

\* A learner's walk has passed nothing over, nor will the mark it wants but what it asks
\* about, which has been answered once it reads the mark.
PassedOK(x) ==
  /\ x.at = "walks" => x.cursor \in PassesNothing
  /\ x.at \in {"reads", "writes"} /\ x.asked = <<>> => x.until \in PassesNothing
  /\ x.asked # <<>> =>
       \A E \in Episodes :
         Short(E) /\ log[E.called].ts > mark /\ log[E.called].ts <= x.until => Covered(E, Range(x.asked))
  /\ x.at \in {"reads", "writes"} => Range(x.asked) \subseteq answered

\* Nothing is learned before the session has ended and is stored; then no short episode that
\* began by the mark is left out of what was answered.
PassedInv ==
  Alone =>
    /\ mark # 0 \/ (\E p \in Learner : learner[p] # Resting) => Len(log) = setting.length /\ stored = DOMAIN log
    /\ ReportedWhole =>
         /\ \A E \in Episodes : Short(E) /\ log[E.called].ts <= mark => Covered(E, Settled)
         /\ \A p \in Learner : PassedOK(learner[p])

LEMMA RestingPasses == PassedOK(Resting)
BY RestingOK DEF PassedOK

\* Nothing is passed over before the mark has moved.
LEMMA PassedInit == Init => PassedInv
<1> SUFFICES ASSUME Init PROVE PassedInv
  OBVIOUS
<1>1. log = <<>> /\ mark = 0 /\ \A p \in Learner : learner[p] = Resting
  BY DEF Init
<1>2. LogOf(log) /\ DOMAIN log = {}
  BY <1>1 DEF LogOf
<1>3. Episodes = {}
  BY <1>2, EpisodesBegin DEF Episodes
<1>. QED BY <1>1, <1>3, RestingPasses DEF PassedInv

\* While the session grows nothing is marked read.
LEMMA PassedGrows ==
  ASSUME SessionInv, SessionInv', PassedInv, Happens \/ \E p \in Folder : insertEvent(p)
  PROVE  PassedInv'
<1> SUFFICES ASSUME Alone' PROVE PassedInv'
  BY DEF PassedInv
<1>1. UNCHANGED <<mark, learner, answered, setting>> /\ Alone
  BY DEF Happens, insertEvent, Alone
<1>2. ~(Len(log) = setting.length /\ stored = DOMAIN log)
  <2> SUFFICES ASSUME Len(log) = setting.length, stored = DOMAIN log PROVE FALSE
    OBVIOUS
  <2>1. \A l \in Extensions(log) : ~(Len(l) <= setting.length)
    <3>1. \A l \in Extensions(log) : Len(l) = Len(log) + 1
      BY ExtensionIs DEF SessionInv
    <3>2. Len(log) \in Nat
      BY DEF SessionInv, LogOf
    <3>. QED BY <3>1, <3>2
  <2>. QED BY <2>1 DEF Happens, insertEvent
<1>3. mark = 0 /\ \A p \in Learner : learner[p] = Resting
  BY <1>1, <1>2 DEF PassedInv
<1>4. \A E \in Episodes' : log'[E.called].ts \in Nat /\ log'[E.called].ts >= 1
  BY EpisodesBegin DEF Episodes, SessionInv
<1>5. mark' = 0 /\ \A p \in Learner : learner'[p] = Resting
  BY <1>1, <1>3
<1>6. \A E \in Episodes' : ~(log'[E.called].ts <= mark')
  BY <1>4, <1>5
<1>7. \A p \in Learner : PassedOK(learner[p])'
  BY <1>5, RestingOK DEF PassedOK
<1>. QED BY <1>5, <1>6, <1>7 DEF PassedInv

\* The step of the only learner, once the session has ended.
LEMMA PassedMoves ==
  ASSUME LearnInv, Alone, NEW p \in Learner, NEW y, learner' = [learner EXCEPT ![p] = y],
         \A q \in Learner : q # p => learner[q] = Resting,
         UNCHANGED <<log, stored, setting>>, Len(log) = setting.length, stored = DOMAIN log,
         ReportedWhole =>
           /\ \A E \in Episodes : Short(E) /\ log[E.called].ts <= mark' => Covered(E, Settled')
           /\ PassedOK(y)'
  PROVE  PassedInv'
<1>1. learner'[p] = y /\ \A q \in Learner : q # p => learner'[q] = learner[q]
  BY OneLearner DEF LearnInv
<1>2. ReportedWhole' <=> ReportedWhole
  BY DEF ReportedWhole
<1>3. Episodes' = Episodes
  BY DEF Episodes
<1>4. ReportedWhole' => \A q \in Learner : PassedOK(learner[q])'
  <2> SUFFICES ASSUME ReportedWhole, NEW q \in Learner PROVE PassedOK(learner[q])'
    BY <1>2
  <2>1. PICK x : x = learner'[q]
    OBVIOUS
  <2>2. PassedOK(x)'
    <3>1. CASE q = p
      BY <1>1, <2>1, <3>1
    <3>2. CASE q # p
      <4>1. x = Resting
        BY <1>1, <2>1, <3>2
      <4>. QED BY <4>1, RestingOK DEF PassedOK
    <3>. QED BY <3>1, <3>2
  <2>. QED BY <2>1, <2>2 DEF PassedOK
<1>5. ReportedWhole' => \A E \in Episodes' : Short(E) /\ log'[E.called].ts <= mark' => Covered(E, Settled')
  BY <1>2, <1>3
<1>6. Len(log') = setting'.length /\ stored' = DOMAIN log'
  OBVIOUS
<1>7. (ReportedWhole => \A E \in Episodes : Short(E) /\ log[E.called].ts <= mark => Covered(E, Settled))'
  BY <1>5 DEF Short, Covered, Overlap
<1>. QED BY <1>4, <1>6, <1>7 DEF PassedInv

\* A busy learner is alone and the session has ended.
LEMMA BusyAlone ==
  ASSUME LearnInv, PassedInv, Alone, NEW p \in Learner, learner[p] # Resting
  PROVE  /\ \A q \in Learner : q # p => learner[q] = Resting
         /\ Len(log) = setting.length /\ stored = DOMAIN log
         /\ HoldOK(learner[p]) /\ AloneOK(learner[p])
         /\ ReportedWhole =>
              /\ \A E \in Episodes : Short(E) /\ log[E.called].ts <= mark => Covered(E, Settled)
              /\ PassedOK(learner[p])
BY DEF LearnInv, PassedInv, Alone

\* What the window a walk reads leaves to be answered.
LEMMA PassedReads ==
  ASSUME SessionInv, LearnInv, PassedInv, Alone, NEW p \in Learner, ReadsWindow(p)
  PROVE  PassedInv'
<1> DEFINE x == learner[p]
<1>1. /\ x.at = "walks" /\ x # Resting /\ UNCHANGED <<log, stored, mark, answered, setting>>
  BY RestingOK DEF ReadsWindow
<1>2. /\ \A q \in Learner : q # p => learner[q] = Resting
      /\ Len(log) = setting.length /\ stored = DOMAIN log /\ HoldOK(x) /\ AloneOK(x)
      /\ ReportedWhole =>
           /\ \A E \in Episodes : Short(E) /\ log[E.called].ts <= mark => Covered(E, Settled)
           /\ PassedOK(x)
  BY <1>1, BusyAlone
<1>3. PICK c, events, found, shown :
        /\ c = x.cursor /\ events = sessionToolEvents(c) /\ found = collectEpisodes(events, c) /\ shown = Shown(found)
  OBVIOUS
<1>4. learner' =
          IF found # <<>> THEN
            [learner EXCEPT ![p] = [learner[p] EXCEPT !.at = "asks", !.asked = shown, !.until = Last(shown).resolvedAt]]
          ELSE IF Len(events) < WindowSize \/ markRead(events) <= c THEN
            [learner EXCEPT ![p] = Resting]
          ELSE [learner EXCEPT ![p] = [learner[p] EXCEPT !.at = "reads", !.until = markRead(events)]]
  BY <1>3 DEF ReadsWindow, Shown
<1>. HIDE DEF x
<1>5. /\ c \in Nat /\ DOMAIN x = Keeps /\ x.asked = <<>> /\ LogOf(log) /\ Strict(log) /\ mark \in Nat
      /\ ReportedWhole => c \in PassesNothing
  <2>1. c \in Nat /\ DOMAIN x = Keeps /\ x.asked = <<>>
    BY <1>1, <1>2, <1>3 DEF HoldOK
  <2>2. LogOf(log) /\ Strict(log) /\ mark \in Nat
    BY DEF SessionInv, Alone, LearnInv
  <2>. QED BY <1>1, <1>2, <1>3, <2>1, <2>2 DEF PassedOK
<1>6. ASSUME NEW y, learner' = [learner EXCEPT ![p] = y], ReportedWhole => PassedOK(y)
      PROVE  PassedInv'
  <2>1. ReportedWhole => PassedOK(y)'
    BY <1>1, <1>6 DEF PassedOK, PassesNothing, Episodes, Covered, Overlap, Short
  <2>2. Settled' = Settled
    BY <1>1 DEF Settled
  <2>3. ReportedWhole => \A E \in Episodes : Short(E) /\ log[E.called].ts <= mark' => Covered(E, Settled')
    BY <1>1, <1>2, <2>2
  <2>. QED BY <1>1, <1>2, <1>6, <2>1, <2>3, PassedMoves
<1>7. CASE found # <<>>
  <2>1. PICK y : y = [x EXCEPT !.at = "asks", !.asked = shown, !.until = Last(shown).resolvedAt]
    OBVIOUS
  <2>2. /\ learner' = [learner EXCEPT ![p] = y]
        /\ y.at = "asks" /\ y.asked = shown /\ y.until = Last(shown).resolvedAt
    BY <1>4, <1>5, <1>7, <2>1 DEF x, Keeps
  <2>3. shown # <<>>
    BY <1>3, <1>5, <1>7, AskedIs
  <2>4. ASSUME ReportedWhole, NEW E \in Episodes, Short(E),
               log[E.called].ts > mark, log[E.called].ts <= Last(shown).resolvedAt
        PROVE  Covered(E, Range(shown))
    <3>1. log[E.called].ts > c
      <4>1. ~(log[E.called].ts <= mark)
        <5>1. log[E.called].ts \in Nat
          BY <1>5, EpisodesBegin DEF Episodes
        <5>. QED BY <1>5, <2>4, <5>1
      <4>2. ~(log[E.called].ts <= c)
        BY <1>5, <2>4, <4>1 DEF PassesNothing
      <4>3. log[E.called].ts \in Nat
        BY <1>5, EpisodesBegin DEF Episodes
      <4>. QED BY <1>5, <4>2, <4>3
    <3>. QED BY <1>2, <1>3, <1>5, <2>3, <2>4, <3>1, AskedCovers DEF Covered
  <2>5. ReportedWhole => PassedOK(y)
    BY <2>2, <2>4 DEF PassedOK
  <2>. QED BY <1>6, <2>2, <2>5
<1>8. CASE found = <<>> /\ (Len(events) < WindowSize \/ markRead(events) <= c)
  <2>1. learner' = [learner EXCEPT ![p] = Resting]
    BY <1>4, <1>8
  <2>. QED BY <1>6, <2>1, RestingPasses
<1>9. CASE found = <<>> /\ ~(Len(events) < WindowSize \/ markRead(events) <= c)
  <2>1. PICK y : y = [x EXCEPT !.at = "reads", !.until = markRead(events)]
    OBVIOUS
  <2>2. /\ learner' = [learner EXCEPT ![p] = y]
        /\ y.at = "reads" /\ y.asked = <<>> /\ y.until = markRead(events)
    BY <1>4, <1>5, <1>9, <2>1 DEF x, Keeps
  <2>3. Len(events) >= WindowSize
    <3>1. Stretch(log, events)
      BY <1>3, <1>5, WindowIs
    <3>2. Len(events) \in Nat /\ WindowSize \in Nat
      BY <3>1, OverlapIs DEF Stretch, Drawn
    <3>. QED BY <1>9, <3>2
  <2>4. ReportedWhole => markRead(events) \in PassesNothing
    BY <1>2, <1>3, <1>5, <1>9, <2>3, WalkPassesNothing
  <2>5. ReportedWhole => PassedOK(y)
    <3>1. Range(y.asked) = {}
      BY <2>2 DEF Range
    <3>. QED BY <2>2, <2>4, <3>1 DEF PassedOK
  <2>. QED BY <1>6, <2>2, <2>5
<1>. QED BY <1>7, <1>8, <1>9

\* A walk begins at the mark, behind which nothing is left out.
LEMMA PassedBegins ==
  ASSUME LearnInv, PassedInv, Alone, NEW p \in Learner, buildLearnInput(p)
  PROVE  PassedInv'
<1>1. /\ UNCHANGED <<log, stored, mark, answered, setting>>
      /\ \A q \in Learner : learner[q] = Resting
      /\ Len(log) = setting.length /\ stored = DOMAIN log
      /\ learner' = [learner EXCEPT ![p] = [learner[p] EXCEPT !.at = "walks", !.cursor = mark, !.left = MaxWindows]]
  BY DEF buildLearnInput, Due, Alone
<1>2. PICK y : y = [Resting EXCEPT !.at = "walks", !.cursor = mark, !.left = MaxWindows]
  OBVIOUS
<1>3. learner' = [learner EXCEPT ![p] = y] /\ y.at = "walks" /\ y.cursor = mark /\ y.asked = <<>> /\ mark \in Nat
  BY <1>1, <1>2 DEF Resting, LearnInv
<1>4. mark \in PassesNothing
  BY <1>3 DEF PassesNothing
<1>5. PassedOK(y)
  BY <1>3, <1>4 DEF PassedOK
<1>6. PassedOK(y)' /\ Settled' = Settled
  BY <1>1, <1>5 DEF PassedOK, PassesNothing, Episodes, Covered, Overlap, Short, Settled
<1>7. ReportedWhole => \A E \in Episodes : Short(E) /\ log[E.called].ts <= mark' => Covered(E, Settled')
  BY <1>1, <1>6 DEF PassedInv
<1>. QED BY <1>1, <1>3, <1>6, <1>7, PassedMoves

LEMMA PassedLooks ==
  ASSUME LearnInv, PassedInv, Alone, NEW p \in Learner, learnWatermark(p)
  PROVE  PassedInv'
<1> DEFINE x == learner[p]
<1>1. /\ x.at = "reads" /\ x # Resting /\ UNCHANGED <<log, stored, mark, answered, setting>>
      /\ learner' = [learner EXCEPT ![p] = [learner[p] EXCEPT !.at = "writes", !.prev = mark]]
  BY RestingOK DEF learnWatermark
<1>2. /\ \A q \in Learner : q # p => learner[q] = Resting
      /\ Len(log) = setting.length /\ stored = DOMAIN log /\ HoldOK(x)
      /\ ReportedWhole =>
           /\ \A E \in Episodes : Short(E) /\ log[E.called].ts <= mark => Covered(E, Settled)
           /\ PassedOK(x)
  BY <1>1, BusyAlone
<1>3. PICK y : y = [x EXCEPT !.at = "writes", !.prev = mark]
  OBVIOUS
<1>4. learner' = [learner EXCEPT ![p] = y]
  BY <1>1, <1>3
<1>. HIDE DEF x
<1>5. y.at = "writes" /\ y.cursor = x.cursor /\ y.asked = x.asked /\ y.until = x.until
  BY <1>2, <1>3 DEF HoldOK, Keeps
<1>6. ReportedWhole => PassedOK(y)
  BY <1>1, <1>2, <1>5 DEF PassedOK
<1>7. (ReportedWhole => PassedOK(y)') /\ Settled' = Settled
  BY <1>1, <1>6 DEF PassedOK, PassesNothing, Episodes, Covered, Overlap, Short, Settled
<1>8. ReportedWhole => \A E \in Episodes : Short(E) /\ log[E.called].ts <= mark' => Covered(E, Settled')
  BY <1>1, <1>2, <1>7
<1>. QED BY <1>1, <1>2, <1>4, <1>7, <1>8, PassedMoves

\* The mark moves past what was answered, or where nothing is passed.
LEMMA PassedAdvances ==
  ASSUME SessionInv, LearnInv, PassedInv, Alone, NEW p \in Learner, advanceWatermark(p)
  PROVE  PassedInv'
<1> DEFINE x == learner[p]
<1>1. /\ x.at = "writes" /\ x # Resting /\ UNCHANGED <<log, stored, answered, setting>>
  BY RestingOK DEF advanceWatermark
<1>2. /\ \A q \in Learner : q # p => learner[q] = Resting
      /\ Len(log) = setting.length /\ stored = DOMAIN log /\ HoldOK(x) /\ AloneOK(x)
      /\ ReportedWhole =>
           /\ \A E \in Episodes : Short(E) /\ log[E.called].ts <= mark => Covered(E, Settled)
           /\ PassedOK(x)
  BY <1>1, BusyAlone
<1>3. /\ mark \in Nat /\ mark' \in Nat /\ (mark' = mark \/ mark' = x.until) /\ mark' >= mark /\ mark' >= x.until
      /\ x.until \in Nat /\ LogOf(log)
  BY <1>2, MarkIs DEF LearnInv, Alone, SessionInv, HoldOK
<1>. HIDE DEF x
<1>4. Settled \subseteq Settled'
  <2>1. \A e \in answered : log[e.called].ts \in Nat
    BY <1>3, EpisodeTime DEF LearnInv
  <2>. QED BY <1>1, <1>3, <2>1 DEF Settled
<1>5. x.asked # <<>> /\ ReportedWhole => Range(x.asked) \subseteq Settled'
  <2> SUFFICES ASSUME x.asked # <<>>, ReportedWhole, NEW e \in Range(x.asked) PROVE e \in Settled'
    OBVIOUS
  <2>1. e \in answered
    BY <1>1, <1>2 DEF PassedOK
  <2>2. IsEpisode(log, e) /\ log[e.called].ts <= x.until
    BY <1>2 DEF HoldOK
  <2>3. log[e.called].ts \in Nat
    BY <1>3, <2>2, EpisodeTime
  <2>4. log[e.called].ts <= mark'
    BY <1>3, <2>2, <2>3
  <2>. QED BY <1>1, <2>1, <2>4 DEF Settled
<1>6. ASSUME ReportedWhole, NEW E \in Episodes, Short(E), log[E.called].ts <= mark'
      PROVE  Covered(E, Settled')
  <2>1. log[E.called].ts \in Nat
    BY <1>3, EpisodesBegin DEF Episodes
  <2>2. CASE log[E.called].ts <= mark
    BY <1>2, <1>4, <1>6, <2>2 DEF Covered
  <2>3. CASE ~(log[E.called].ts <= mark)
    <3>1. mark' = x.until /\ log[E.called].ts > mark
      BY <1>3, <1>6, <2>1, <2>3
    <3>2. CASE x.asked # <<>>
      <4>1. Covered(E, Range(x.asked))
        BY <1>2, <1>6, <3>1, <3>2 DEF PassedOK
      <4>. QED BY <1>5, <1>6, <3>2, <4>1 DEF Covered
    <3>3. CASE x.asked = <<>>
      <4>1. x.until \in PassesNothing
        BY <1>1, <1>2, <1>6, <3>3 DEF PassedOK
      <4>. QED BY <1>6, <2>3, <3>1, <4>1 DEF PassesNothing
    <3>. QED BY <3>2, <3>3
  <2>. QED BY <2>2, <2>3
<1>7. CASE x.asked # <<>> \/ x.left = 1
  <2>1. learner' = [learner EXCEPT ![p] = Resting]
    BY <1>7 DEF advanceWatermark, x
  <2>2. PassedOK(Resting)'
    BY RestingOK DEF PassedOK
  <2>. QED BY <1>1, <1>2, <1>6, <2>1, <2>2, PassedMoves
<1>8. CASE ~(x.asked # <<>> \/ x.left = 1)
  <2>1. PICK y : y = [x EXCEPT !.at = "walks", !.cursor = x.until, !.left = x.left - 1]
    OBVIOUS
  <2>2. learner' = [learner EXCEPT ![p] = y]
    BY <1>8, <2>1 DEF advanceWatermark, x
  <2>3. y.at = "walks" /\ y.cursor = x.until /\ y.asked = <<>>
    BY <1>2, <1>8, <2>1 DEF HoldOK, Keeps
  <2>4. mark' = x.until
    BY <1>1, <1>2, <1>3, <1>8 DEF AloneOK
  <2>5. y.cursor \in PassesNothing'
    BY <1>3, <2>3, <2>4 DEF PassesNothing
  <2>6. PassedOK(y)'
    BY <2>3, <2>5 DEF PassedOK
  <2>. QED BY <1>1, <1>2, <1>6, <2>2, <2>6, PassedMoves
<1>. QED BY <1>7, <1>8

LEMMA PassedAnswers ==
  ASSUME SessionInv, LearnInv, PassedInv, Alone, NEW p \in Learner, Answers(p) \/ Fails(p)
  PROVE  PassedInv'
<1> DEFINE x == learner[p]
<1>1. /\ x # Resting /\ UNCHANGED <<log, stored, mark, setting>>
  BY RestingOK DEF Answers, Fails
<1>2. /\ \A q \in Learner : q # p => learner[q] = Resting
      /\ Len(log) = setting.length /\ stored = DOMAIN log /\ HoldOK(x) /\ AloneOK(x)
      /\ ReportedWhole =>
           /\ \A E \in Episodes : Short(E) /\ log[E.called].ts <= mark => Covered(E, Settled)
           /\ PassedOK(x)
  BY <1>1, BusyAlone
<1>3. ASSUME Settled \subseteq Settled', NEW y, learner' = [learner EXCEPT ![p] = y], ReportedWhole => PassedOK(y)'
      PROVE  PassedInv'
  <2>1. ReportedWhole => \A E \in Episodes : Short(E) /\ log[E.called].ts <= mark' => Covered(E, Settled')
    BY <1>1, <1>2, <1>3 DEF Covered
  <2>. QED BY <1>1, <1>2, <1>3, <2>1, PassedMoves
<1>4. PassedOK(Resting)'
  BY RestingOK DEF PassedOK
<1>5. mark \in Nat /\ LogOf(log)
  BY DEF LearnInv, SessionInv
<1>6. CASE Fails(p)
  <2>1. learner' = [learner EXCEPT ![p] = Resting]
    BY <1>6 DEF Fails
  <2>2. Settled \subseteq Settled'
    <3> SUFFICES ASSUME NEW e \in Settled PROVE e \in Settled'
      OBVIOUS
    <3>1. e \in answered /\ log[e.called].ts <= mark
      BY DEF Settled
    <3>2. e \notin Range(x.asked)
      <4> SUFFICES ASSUME e \in Range(x.asked) PROVE FALSE
        OBVIOUS
      <4>1. log[e.called].ts > mark /\ IsEpisode(log, e)
        BY <1>2 DEF AloneOK, HoldOK
      <4>2. log[e.called].ts \in Nat
        BY <1>5, <4>1, EpisodeTime
      <4>. QED BY <1>5, <3>1, <4>1, <4>2
    <3>3. e \in answered'
      BY <1>6, <3>1, <3>2 DEF Fails
    <3>. QED BY <1>1, <3>1, <3>3 DEF Settled
  <2>. QED BY <1>3, <1>4, <2>1, <2>2
<1>7. CASE Answers(p)
  <2>1. PICK added \in SUBSET Entry :
          /\ learner' = [learner EXCEPT ![p] =
                          IF Settles(restrictLearnPatch(added)) THEN [learner[p] EXCEPT !.at = "reads"] ELSE Resting]
          /\ answered' = IF restrictLearnPatch(added) = "invalid" THEN answered
                         ELSE answered \cup Range(learner[p].asked)
    BY <1>7 DEF Answers
  <2>2. Settled \subseteq Settled'
    BY <1>1, <2>1 DEF Settled
  <2>3. CASE restrictLearnPatch(added) = "invalid"
    <3>1. learner' = [learner EXCEPT ![p] = Resting]
      BY <2>1, <2>3, SettlesIs
    <3>. QED BY <1>3, <1>4, <2>2, <3>1
  <2>4. CASE restrictLearnPatch(added) # "invalid"
    <3>1. learner' = [learner EXCEPT ![p] = [x EXCEPT !.at = "reads"]] /\ answered' = answered \cup Range(x.asked)
      BY <2>1, <2>4, SettlesIs
    <3>2. PICK y : y = [x EXCEPT !.at = "reads"]
      OBVIOUS
    <3>3. learner' = [learner EXCEPT ![p] = y]
      BY <3>1, <3>2
    <3>4. x.at = "asks"
      BY <1>7 DEF Answers
    <3>. HIDE DEF x
    <3>5. y.at = "reads" /\ y.asked = x.asked /\ y.until = x.until /\ x.asked # <<>>
      BY <1>2, <3>2, <3>4 DEF HoldOK, Keeps
    <3>6. ReportedWhole => PassedOK(y)'
      <4> SUFFICES ASSUME ReportedWhole PROVE PassedOK(y)'
        OBVIOUS
      <4>1. \A E \in Episodes :
              Short(E) /\ log[E.called].ts > mark /\ log[E.called].ts <= x.until => Covered(E, Range(x.asked))
        BY <1>2, <3>5 DEF PassedOK
      <4>2. \A E \in Episodes' :
              Short(E) /\ log'[E.called].ts > mark' /\ log'[E.called].ts <= y.until => Covered(E, Range(y.asked))
        BY <1>1, <3>5, <4>1 DEF Episodes
      <4>3. Range(y.asked) \subseteq answered'
        BY <3>1, <3>5
      <4>. QED BY <3>5, <4>2, <4>3 DEF PassedOK, Covered, Overlap, Short
    <3>. QED BY <1>3, <2>2, <3>3, <3>6
  <2>. QED BY <2>3, <2>4
<1>. QED BY <1>6, <1>7

\* Steps that touch neither the session nor what learns from it.
LEMMA PassedStays ==
  ASSUME PassedInv, UNCHANGED <<log, stored, mark, learner, answered, setting>>
  PROVE  PassedInv'
BY DEF PassedInv, Alone, PassedOK, PassesNothing, Settled, Episodes, Covered, Overlap, Short, ReportedWhole

LEMMA PassedStep ==
  ASSUME SessionInv, LearnInv, PassedInv, [Next]_vars
  PROVE  PassedInv'
<1>1. SessionInv'
  BY SessionStep
<1>2. CASE Happens \/ \E p \in Folder : insertEvent(p)
  BY <1>1, <1>2, PassedGrows
<1>3. CASE \/ WorkerResolves \/ UNCHANGED vars \/ \E r \in DOMAIN rules : RuleFades(r) \/ RuleRetired(r)
           \/ \E p \in Folder : \/ refold(p) \/ LooksBack(p) \/ LooksUp(p)
                                \/ commitPatch(p) \/ Refused(p) \/ MarksResolved(p) \/ FoldDies(p)
  <2>1. UNCHANGED <<log, stored, mark, learner, answered, setting>>
    BY <1>3 DEF WorkerResolves, RuleFades, RuleRetired, refold, LooksBack, LooksUp, commitPatch, Refused,
                MarksResolved, FoldDies, vars
  <2>. QED BY <2>1, PassedStays
<1>4. ASSUME NEW p \in Learner,
             \/ buildLearnInput(p) \/ ReadsWindow(p) \/ learnWatermark(p)
             \/ advanceWatermark(p) \/ Answers(p) \/ Fails(p)
      PROVE  PassedInv'
  <2>1. CASE Alone
    BY <1>4, <2>1, PassedBegins, PassedReads, PassedLooks, PassedAdvances, PassedAnswers
  <2>2. CASE ~Alone
    <3>1. setting' = setting
      BY <1>4 DEF buildLearnInput, ReadsWindow, learnWatermark, advanceWatermark, Answers, Fails
    <3>. QED BY <2>2, <3>1 DEF PassedInv, Alone
  <2>. QED BY <2>1, <2>2
<1>. QED BY <1>2, <1>3, <1>4 DEF Next

\* The walk of a single learner passes no lesson over that a session which has ended holds,
\* of commands reported whole at times of their own, and that spans no more than the overlap
\* (NothingIsPassedOver), for windows, overlaps, digests and sessions of any size.
THEOREM WalkPassesNoneOver == Spec => []NothingIsPassedOver
<1>1. SessionInv /\ LearnInv /\ PassedInv /\ [Next]_vars => PassedInv'
  BY PassedStep
<1>2. PassedInv => NothingIsPassedOver
  BY DEF PassedInv, Alone, NothingIsPassedOver, Short, Covered, Settled
<1>. QED BY <1>1, <1>2, PassedInit, SessionInvariant, LearnInvariant, PTL DEF Spec

-----------------------------------------------------------------------------
(* Plans.                                                                  *)

\* What a function makes of finitely many things are finitely many.
LEMMA FiniteImage ==
  ASSUME NEW S, IsFiniteSet(S), NEW f, f = [x \in S |-> f[x]]
  PROVE  IsFiniteSet({f[x] : x \in S})
<1> DEFINE T == {f[x] : x \in S}
<1>1. f \in [S -> T] /\ \A t \in T : \E x \in S : f[x] = t
  OBVIOUS
<1>. HIDE DEF T
<1>2. f \in Surjection(S, T)
  BY <1>1 DEF Surjection
<1>3. IsFiniteSet(T)
  BY <1>2, FS_Surjection
<1>. QED BY <1>3 DEF T

\* The rules of some memory.
Sensible(known) ==
  /\ DOMAIN known \subseteq RuleId /\ known \in Known(DOMAIN known)
  /\ \A r \in DOMAIN known : known[r].fixes # {}

Named == (SUBSET Key) \ {{}}

\* What is seen again is given files, and what is added names something.
PlanOK(plan) ==
  /\ \A r \in DOMAIN plan.files : plan.files[r] \in Named
  /\ plan.added \subseteq BOOLEAN \X Named /\ IsFiniteSet(plan.added)

\* The earliest of some rules is one of them.
LEMMA EarliestIs ==
  ASSUME NEW ids \in SUBSET RuleId, ids # {}
  PROVE  Earliest(ids) \in ids
<1> DEFINE S == {r.after : r \in ids}
<1>1. S \in SUBSET Nat /\ S # {}
  BY DEF RuleId
<1>2. PICK n \in S : \A m \in S : n <= m
  <2>. HIDE DEF S
  <2>. QED BY <1>1, Least
<1>3. PICK r \in ids : r.after = n
  BY <1>2
<1>4. \A s \in ids : r.after <= s.after
  BY <1>2, <1>3
<1>. QED BY <1>3, <1>4 DEF Earliest

\* A plan for a command adds finitely many rules, each for one command.
LEMMA CommandPlan ==
  ASSUME NEW fixes \in SUBSET Key, IsFiniteSet(fixes), NEW known
  PROVE  PlanOK(PlanForCommand(fixes, known))
<1> DEFINE With(fix) == {r \in DOMAIN known : fix \in known[r].fixes}
           old == {fix \in fixes : With(fix) # {}}
           fresh == fixes \ old
           f == [fix \in fresh |-> <<FALSE, {fix}>>]
           added == {<<FALSE, {fix}>> : fix \in fresh}
           again == {Earliest(With(fix)) : fix \in old}
<1>1. PlanForCommand(fixes, known) = Plan(again, <<>>, {}, added)
  BY DEF PlanForCommand
<1>2. fresh \subseteq Key /\ IsFiniteSet(fresh)
  <2>1. fresh \in SUBSET fixes
    OBVIOUS
  <2>. HIDE DEF fresh
  <2>. QED BY <2>1, FS_Subset
<1>. HIDE DEF fresh, again
<1>3. IsFiniteSet(added)
  <2>1. f = [x \in fresh |-> f[x]] /\ \A x \in fresh : f[x] = <<FALSE, {x}>>
    OBVIOUS
  <2>2. added = {f[x] : x \in fresh}
    BY <2>1
  <2>. HIDE DEF f, added
  <2>. QED BY <1>2, <2>1, <2>2, FiniteImage
<1>4. added \subseteq BOOLEAN \X Named
  <2>1. \A fix \in fresh : {fix} \in Named
    BY <1>2 DEF Named
  <2>2. \A fix \in fresh : <<FALSE, {fix}>> \in BOOLEAN \X Named
    BY <2>1
  <2>3. \A T : (\A fix \in fresh : <<FALSE, {fix}>> \in T) => added \subseteq T
    BY Zenon
  <2>. HIDE DEF added
  <2>. QED BY <2>2, <2>3
<1>. HIDE DEF added
<1>5. PICK plan : plan = PlanForCommand(fixes, known)
  OBVIOUS
<1>6. DOMAIN plan.files = {} /\ plan.added = added
  BY <1>1, <1>5 DEF Plan
<1>. QED BY <1>3, <1>4, <1>5, <1>6 DEF PlanOK

\* A plan for a path makes of what is known one answer: what said to search goes on saying
\* so, and what disagrees is retired for a rule that does; where all agree one is seen
\* again; and where nothing is known one rule is added.
OnePlan(fixes, known, plan) ==
  LET vague == {r \in DOMAIN known : r.ambiguous}
      rights == fixes \cup UNION {known[r].fixes : r \in DOMAIN known}
  IN \/ /\ vague # {} /\ plan.retired = DOMAIN known \ vague /\ plan.added = {}
        /\ plan.again \subseteq vague /\ DOMAIN plan.files \subseteq plan.again
     \/ /\ vague = {} /\ plan.retired = DOMAIN known /\ plan.again = {}
        /\ DOMAIN plan.files = {} /\ plan.added = {<<TRUE, rights>>}
     \/ /\ vague = {} /\ plan.retired = {} /\ plan.again \subseteq DOMAIN known
        /\ DOMAIN plan.files = {} /\ plan.added = {} /\ \A x, y \in rights : x = y
     \/ /\ DOMAIN known = {} /\ plan.retired = {} /\ plan.again = {}
        /\ DOMAIN plan.files = {} /\ plan.added = {<<FALSE, rights>>}

LEMMA PathPlan ==
  ASSUME NEW fixes \in Named, NEW known, Sensible(known)
  PROVE  PlanOK(PlanForPath(fixes, known)) /\ OnePlan(fixes, known, PlanForPath(fixes, known))
<1> DEFINE vague == {r \in DOMAIN known : r.ambiguous}
           plain == DOMAIN known \ vague
           rights == fixes \cup UNION {known[r].fixes : r \in DOMAIN known}
           head == Earliest(vague)
           files == [r \in {x \in {head} : rights # known[x].fixes} |-> rights]
           plan == PlanForPath(fixes, known)
<1>0. plan = IF vague # {} THEN Plan({head}, files, plain, {})
             ELSE IF \E x, y \in rights : x # y THEN Plan({}, <<>>, plain, {<<TRUE, rights>>})
             ELSE IF plain # {} THEN Plan({Earliest(plain)}, <<>>, {}, {})
             ELSE Plan({}, <<>>, {}, {<<FALSE, rights>>})
  BY DEF PlanForPath
<1>1. rights \in Named
  <2>1. \A r \in DOMAIN known : known[r].fixes \in SUBSET Key
    BY DEF Sensible, Known, Rule
  <2>2. fixes \in SUBSET Key /\ fixes # {}
    BY DEF Named
  <2>. QED BY <2>1, <2>2 DEF Named
<1>2. vague \in SUBSET RuleId /\ plain \in SUBSET RuleId
  BY DEF Sensible
<1>3. \A b \in BOOLEAN : {<<b, rights>>} \subseteq BOOLEAN \X Named /\ IsFiniteSet({<<b, rights>>})
  <2> SUFFICES ASSUME NEW b \in BOOLEAN
               PROVE  {<<b, rights>>} \subseteq BOOLEAN \X Named /\ IsFiniteSet({<<b, rights>>})
    OBVIOUS
  <2>1. IsFiniteSet({<<b, rights>>})
    BY FS_Singleton
  <2>. HIDE DEF rights
  <2>. QED BY <1>1, <2>1
<1>4. IsFiniteSet({}) /\ DOMAIN <<>> = {} /\ {} \subseteq BOOLEAN \X Named
  BY FS_EmptySet
<1>5. (vague # {} => head \in vague) /\ (plain # {} => Earliest(plain) \in plain)
  <2>. HIDE DEF vague, plain
  <2>. QED BY <1>2, EarliestIs
<1>6. DOMAIN files \subseteq {head} /\ \A r \in DOMAIN files : files[r] = rights
  OBVIOUS
<1>7. plain \subseteq DOMAIN known /\ vague \subseteq DOMAIN known /\ (vague = {} => plain = DOMAIN known)
  OBVIOUS
<1>8. plain = DOMAIN known \ vague
  OBVIOUS
<1>. HIDE DEF plan, vague, plain, rights, head, files
<1>9. CASE vague # {}
  <2>1. plan.again = {head} /\ plan.files = files /\ plan.retired = plain /\ plan.added = {}
    BY <1>0, <1>9 DEF Plan
  <2>2. PlanOK(plan)
    BY <1>1, <1>4, <1>6, <2>1 DEF PlanOK
  <2>3. OnePlan(fixes, known, plan)
    BY <1>5, <1>6, <1>8, <1>9, <2>1 DEF OnePlan, vague
  <2>. QED BY <2>2, <2>3 DEF plan
<1>10. CASE vague = {} /\ \E x, y \in rights : x # y
  <2>1. plan.again = {} /\ plan.files = <<>> /\ DOMAIN plan.files = {} /\ plan.retired = plain /\ plan.added = {<<TRUE, rights>>}
    BY <1>0, <1>4, <1>10 DEF Plan
  <2>2. PlanOK(plan)
    BY <1>3, <2>1 DEF PlanOK
  <2>3. OnePlan(fixes, known, plan)
    BY <1>7, <1>10, <2>1 DEF OnePlan, vague, rights
  <2>. QED BY <2>2, <2>3 DEF plan
<1>11. CASE vague = {} /\ ~(\E x, y \in rights : x # y) /\ plain # {}
  <2>1. plan.again = {Earliest(plain)} /\ plan.files = <<>> /\ DOMAIN plan.files = {} /\ plan.retired = {} /\ plan.added = {}
    BY <1>0, <1>4, <1>11 DEF Plan
  <2>2. PlanOK(plan)
    BY <1>4, <2>1 DEF PlanOK
  <2>3. OnePlan(fixes, known, plan)
    BY <1>5, <1>7, <1>11, <2>1 DEF OnePlan, vague, rights
  <2>. QED BY <2>2, <2>3 DEF plan
<1>12. CASE vague = {} /\ ~(\E x, y \in rights : x # y) /\ plain = {}
  <2>1. plan.again = {} /\ plan.files = <<>> /\ DOMAIN plan.files = {} /\ plan.retired = {} /\ plan.added = {<<FALSE, rights>>}
    BY <1>0, <1>4, <1>12 DEF Plan
  <2>2. PlanOK(plan)
    BY <1>3, <2>1 DEF PlanOK
  <2>3. OnePlan(fixes, known, plan)
    BY <1>7, <1>12, <2>1 DEF OnePlan, vague, rights
  <2>. QED BY <2>2, <2>3 DEF plan
<1>. QED BY <1>9, <1>10, <1>11, <1>12

-----------------------------------------------------------------------------
(* Plans applied.                                                          *)

Became(r, plan, known) ==
  IF r \in plan.retired THEN retire(r)
  ELSE IF r \in plan.again THEN revalidate(r, plan, known)
  ELSE rules[r]

\* The rules afterwards: what a plan adds for its mistake, active; what was there, as the
\* plan of its mistake has it; and what was there for mistakes nobody planned for, as it was.
OneRuleAfter(r, rule, plans, read) ==
  \/ /\ r.failed \in DOMAIN plans
     /\ \E added \in plans[r.failed].added : r = recoveryItem(r.failed, added)
     /\ rule = [fixes |-> r.fixes, status |-> "active"]
  \/ r \in DOMAIN rules /\ r.failed \in DOMAIN plans /\ rule = Became(r, plans[r.failed], read[r.failed])
  \/ r \in DOMAIN rules /\ r.failed \notin DOMAIN plans /\ rule = rules[r]

LEMMA AppliedIs ==
  ASSUME NEW plans, NEW read, NEW noted, NEW after, after = Applied(plans, read, noted)
  PROVE  /\ DOMAIN rules \subseteq DOMAIN after
         /\ \A r \in DOMAIN after : OneRuleAfter(r, after[r], plans, read)
         /\ (\A failed \in DOMAIN plans : IsFiniteSet(plans[failed].added))
              /\ IsFiniteSet(DOMAIN plans) /\ IsFiniteSet(DOMAIN rules) => IsFiniteSet(DOMAIN after)
         /\ after = [r \in DOMAIN after |-> after[r]]
<1> DEFINE Adds(failed) == pruneInertOperations(failed, plans[failed], noted)
           New(failed) == {recoveryItem(failed, added) : added \in Adds(failed)}
           news == {New(failed) : failed \in DOMAIN plans}
           new == UNION news
           Becomes(r) == Became(r, plans[r.failed], read[r.failed])
           value(r) == IF r \in new THEN [fixes |-> r.fixes, status |-> "active"]
                       ELSE IF r.failed \in DOMAIN plans THEN Becomes(r) ELSE rules[r]
<1>1. after = [r \in DOMAIN rules \cup new |-> value(r)]
  BY DEF Applied, Became
<1>2. \A r \in new : r.failed \in DOMAIN plans /\ \E added \in plans[r.failed].added : r = recoveryItem(r.failed, added)
  <2> SUFFICES ASSUME NEW r \in new
               PROVE  r.failed \in DOMAIN plans /\ \E added \in plans[r.failed].added : r = recoveryItem(r.failed, added)
    OBVIOUS
  <2>1. PICK failed \in DOMAIN plans : r \in New(failed)
    OBVIOUS
  <2>2. PICK added \in Adds(failed) : r = recoveryItem(failed, added)
    BY <2>1
  <2>3. r.failed = failed
    BY <2>2 DEF recoveryItem
  <2>4. added \in plans[failed].added
    BY DEF pruneInertOperations
  <2>. QED BY <2>2, <2>3, <2>4
<1>3. ASSUME \A failed \in DOMAIN plans : IsFiniteSet(plans[failed].added), IsFiniteSet(DOMAIN plans)
      PROVE  IsFiniteSet(new)
  <2>1. ASSUME NEW failed \in DOMAIN plans
        PROVE  IsFiniteSet(New(failed))
    <3>1. Adds(failed) \in SUBSET plans[failed].added
      BY DEF pruneInertOperations
    <3>. HIDE DEF Adds
    <3>2. IsFiniteSet(Adds(failed))
      BY <1>3, <3>1, FS_Subset
    <3>3. PICK f : f = [added \in Adds(failed) |-> recoveryItem(failed, added)]
      OBVIOUS
    <3>4. f = [added \in Adds(failed) |-> f[added]] /\ New(failed) = {f[added] : added \in Adds(failed)}
      BY <3>3
    <3>. HIDE DEF New
    <3>. QED BY <3>2, <3>4, FiniteImage
  <2>. HIDE DEF New
  <2>2. IsFiniteSet(news)
    <3>1. PICK f : f = [failed \in DOMAIN plans |-> New(failed)]
      OBVIOUS
    <3>2. f = [failed \in DOMAIN plans |-> f[failed]] /\ news = {f[failed] : failed \in DOMAIN plans}
      BY <3>1
    <3>. HIDE DEF news
    <3>. QED BY <1>3, <3>2, FiniteImage
  <2>3. \A T \in news : IsFiniteSet(T)
    BY <2>1
  <2>. HIDE DEF news
  <2>. QED BY <2>2, <2>3, FS_UNION
<1>4. DOMAIN after = DOMAIN rules \cup new
  <2>. HIDE DEF new, value
  <2>. QED BY <1>1
<1>5. ASSUME IsFiniteSet(new), IsFiniteSet(DOMAIN rules)
      PROVE  IsFiniteSet(DOMAIN after)
  <2>. HIDE DEF new
  <2>. QED BY <1>4, <1>5, FS_Union
<1>6. ASSUME NEW r \in DOMAIN after
      PROVE  OneRuleAfter(r, after[r], plans, read)
  <2>1. after[r] = value(r)
    <3>. HIDE DEF new, value
    <3>. QED BY <1>1, <1>4
  <2>. HIDE DEF new, Becomes
  <2>2. CASE r \in new
    BY <1>2, <2>1, <2>2 DEF OneRuleAfter
  <2>3. CASE r \notin new /\ r.failed \in DOMAIN plans
    BY <1>4, <2>1, <2>3 DEF OneRuleAfter, Becomes
  <2>4. CASE r \notin new /\ r.failed \notin DOMAIN plans
    BY <1>4, <2>1, <2>4 DEF OneRuleAfter
  <2>. QED BY <2>2, <2>3, <2>4
<1>7. after = [r \in DOMAIN after |-> after[r]]
  <2>. HIDE DEF new, value
  <2>. QED BY <1>1
<1>. HIDE DEF new
<1>. QED BY <1>3, <1>4, <1>5, <1>6, <1>7

\* A plan for each mistake that was looked up.
Planned(p) ==
  [failed \in DOMAIN folder[p].read |->
    planRecoveryRules(failed, Fixes(folder[p].found, failed), folder[p].read[failed])]

LEMMA CommitIs ==
  ASSUME NEW p \in Folder, commitPatch(p)
  PROVE  \E noted : rules' = Applied(Planned(p), folder[p].read, noted)
BY DEF commitPatch, Planned

-----------------------------------------------------------------------------
(* The rules of memory.                                                    *)

\* What a fold has read is of mistakes it found, and was the rules of a memory.
ReadOK(x) ==
  /\ x.at \in {"idle", "stores", "looks back"} => x.read = <<>>
  /\ DOMAIN x.read \subseteq Wrong(x.found)
  /\ \A failed \in DOMAIN x.read : Sensible(x.read[failed])

RulesInv ==
  /\ Sensible(rules) /\ IsFiniteSet(DOMAIN rules)
  /\ \A p \in Folder : ReadOK(folder[p])

\* What recoveries of a session are of: finitely many mistakes, each put right with
\* finitely many things.
LEMMA FixesAre ==
  ASSUME SessionInv, NEW found, found \subseteq stored \X stored
  PROVE  /\ Wrong(found) \subseteq Key /\ IsFiniteSet(Wrong(found))
         /\ \A failed \in Wrong(found) : Fixes(found, failed) \in Named /\ IsFiniteSet(Fixes(found, failed))
<1>1. \A n \in stored : log[n].key \in Key
  <2>1. \A n \in stored : log[n] \in Event
    BY DEF SessionInv, LogOf
  <2>. QED BY <2>1 DEF Event
<1>2. \A pair \in found : log[pair[1]].key \in Key /\ log[pair[2]].key \in Key
  BY <1>1
<1>3. IsFiniteSet(found)
  <2>1. IsFiniteSet(DOMAIN log)
    <3>1. DOMAIN log = 1 .. Len(log) /\ Len(log) \in Nat
      BY DEF SessionInv, LogOf
    <3>2. IsFiniteSet(1 .. Len(log))
      BY <3>1, FS_Interval
    <3>. QED BY <3>1, <3>2
  <2>2. IsFiniteSet(stored)
    BY <2>1, FS_Subset DEF SessionInv
  <2>3. IsFiniteSet(stored \X stored)
    BY <2>2, FS_Product
  <2>. QED BY <2>3, FS_Subset
<1>4. Wrong(found) \subseteq Key
  BY <1>2 DEF Wrong
<1>5. IsFiniteSet(Wrong(found))
  <2>1. PICK f : f = [pair \in found |-> log[pair[1]].key]
    OBVIOUS
  <2>2. f = [pair \in found |-> f[pair]] /\ Wrong(found) = {f[pair] : pair \in found}
    BY <2>1 DEF Wrong
  <2>. QED BY <1>3, <2>2, FiniteImage
<1>6. ASSUME NEW failed \in Wrong(found)
      PROVE  Fixes(found, failed) \in Named /\ IsFiniteSet(Fixes(found, failed))
  <2> DEFINE S == {x \in found : log[x[1]].key = failed}
  <2>1. S \in SUBSET found /\ Fixes(found, failed) = {log[pair[2]].key : pair \in S}
    BY DEF Fixes
  <2>2. PICK pair \in S : TRUE
    BY DEF Wrong
  <2>. HIDE DEF S
  <2>3. IsFiniteSet(S)
    BY <1>3, <2>1, FS_Subset
  <2>4. PICK f : f = [x \in S |-> log[x[2]].key]
    OBVIOUS
  <2>5. f = [x \in S |-> f[x]] /\ Fixes(found, failed) = {f[x] : x \in S}
    BY <2>1, <2>4
  <2>6. IsFiniteSet(Fixes(found, failed))
    BY <2>3, <2>5, FiniteImage
  <2>7. log[pair[2]].key \in Fixes(found, failed) /\ Fixes(found, failed) \in SUBSET Key
    BY <1>2, <2>1, <2>2
  <2>. QED BY <2>6, <2>7 DEF Named
<1>. QED BY <1>4, <1>5, <1>6

\* What a fold has found stays as it was as the session grows.
LEMMA FoundStays ==
  ASSUME SessionInv, Grown(log, log'), NEW x, FoldOK(x)
  PROVE  /\ x.found \subseteq stored \X stored /\ Wrong(x.found)' = Wrong(x.found)
         /\ (ReadOK(x) => ReadOK(x)')
<1>1. x.found \subseteq stored \X stored
  BY DEF FoldOK
<1>2. \A n \in stored : log'[n] = log[n]
  BY DEF Grown, SessionInv
<1>3. Wrong(x.found)' = Wrong(x.found)
  <2>1. \A pair \in x.found : log'[pair[1]].key = log[pair[1]].key
    BY <1>1, <1>2
  <2>. QED BY <2>1 DEF Wrong
<1>. QED BY <1>1, <1>3 DEF ReadOK

\* The plans of a fold are plans.
LEMMA PlannedIs ==
  ASSUME SessionInv, RulesInv, NEW p \in Folder
  PROVE  /\ DOMAIN Planned(p) = DOMAIN folder[p].read /\ IsFiniteSet(DOMAIN Planned(p))
         /\ \A failed \in DOMAIN Planned(p) : failed \in Key /\ PlanOK(Planned(p)[failed])
         /\ \A path \in Path \cap DOMAIN Planned(p) : \E fixes \in Named :
              OnePlan(fixes, folder[p].read[path], Planned(p)[path])
<1> DEFINE x == folder[p]
<1>1. FoldOK(x) /\ ReadOK(x) /\ x.found \subseteq stored \X stored
  BY DEF SessionInv, RulesInv, FoldOK
<1>2. DOMAIN Planned(p) = DOMAIN x.read /\ DOMAIN x.read \subseteq Wrong(x.found)
  BY <1>1 DEF Planned, ReadOK
<1>3. Wrong(x.found) \subseteq Key /\ IsFiniteSet(Wrong(x.found))
  BY <1>1, FixesAre
<1>4. IsFiniteSet(DOMAIN Planned(p))
  BY <1>2, <1>3, FS_Subset
<1>5. ASSUME NEW failed \in DOMAIN Planned(p)
      PROVE  /\ failed \in Key /\ PlanOK(Planned(p)[failed])
             /\ (failed \in Path => \E fixes \in Named : OnePlan(fixes, x.read[failed], Planned(p)[failed]))
  <2> DEFINE fixes == Fixes(x.found, failed)
             known == x.read[failed]
  <2>1. Planned(p)[failed] = planRecoveryRules(failed, fixes, known)
    BY <1>2 DEF Planned
  <2>2. fixes \in Named /\ IsFiniteSet(fixes) /\ failed \in Key
    BY <1>1, <1>2, <1>3, FixesAre
  <2>3. Sensible(known)
    BY <1>1, <1>2 DEF ReadOK
  <2>. HIDE DEF fixes, known
  <2>4. CASE failed \in Command
    <3>1. Planned(p)[failed] = PlanForCommand(fixes, known) /\ fixes \in SUBSET Key
      BY <2>1, <2>2, <2>4 DEF planRecoveryRules, Named
    <3>2. failed \notin Path
      BY <2>4, AttemptsAssumption
    <3>. QED BY <2>2, <3>1, <3>2, CommandPlan
  <2>5. CASE failed \notin Command
    <3>1. Planned(p)[failed] = PlanForPath(fixes, known)
      BY <2>1, <2>5 DEF planRecoveryRules
    <3>2. PlanOK(Planned(p)[failed]) /\ OnePlan(fixes, known, Planned(p)[failed])
      BY <2>2, <2>3, <3>1, PathPlan
    <3>. QED BY <2>2, <3>2 DEF known
  <2>. QED BY <2>4, <2>5
<1>. QED BY <1>2, <1>4, <1>5

\* Applying plans to the rules of a memory makes rules of a memory.
LEMMA CommitKeeps ==
  ASSUME SessionInv, RulesInv, NEW p \in Folder, commitPatch(p)
  PROVE  Sensible(rules') /\ IsFiniteSet(DOMAIN rules')
<1> DEFINE plans == Planned(p)
           read == folder[p].read
<1>1. PICK noted : rules' = Applied(plans, read, noted)
  BY CommitIs
<1>2. IsFiniteSet(DOMAIN plans) /\ \A failed \in DOMAIN plans : failed \in Key /\ PlanOK(plans[failed])
  BY PlannedIs
<1>3. /\ DOMAIN rules \subseteq RuleId /\ IsFiniteSet(DOMAIN rules)
      /\ \A r \in DOMAIN rules : rules[r] \in Rule /\ rules[r].fixes # {}
  BY DEF RulesInv, Sensible, Known
<1>4. /\ \A r \in DOMAIN rules' : OneRuleAfter(r, rules'[r], plans, read)
      /\ rules' = [r \in DOMAIN rules' |-> rules'[r]]
  <2>. HIDE DEF plans, read
  <2>. QED BY <1>1, AppliedIs
<1>5. IsFiniteSet(DOMAIN rules')
  <2>1. \A failed \in DOMAIN plans : IsFiniteSet(plans[failed].added)
    BY <1>2 DEF PlanOK
  <2>. HIDE DEF plans, read
  <2>. QED BY <1>1, <1>2, <1>3, <2>1, AppliedIs
<1>6. ASSUME NEW r \in DOMAIN rules'
      PROVE  r \in RuleId /\ rules'[r] \in Rule /\ rules'[r].fixes # {}
  <2>. HIDE DEF plans, read
  <2>0. OneRuleAfter(r, rules'[r], plans, read)
    BY <1>4
  <2>1. CASE /\ r.failed \in DOMAIN plans
             /\ \E added \in plans[r.failed].added : r = recoveryItem(r.failed, added)
             /\ rules'[r] = [fixes |-> r.fixes, status |-> "active"]
    <3>1. PICK added \in plans[r.failed].added : r = recoveryItem(r.failed, added)
      BY <2>1
    <3>2. added \in BOOLEAN \X Named /\ r.failed \in Key
      BY <1>2, <2>1 DEF PlanOK
    <3>3. PICK failed \in Key : failed = r.failed
      BY <3>2
    <3>4. PICK ambiguous \in BOOLEAN, fixes \in Named : added = <<ambiguous, fixes>>
      BY <3>2
    <3>5. Cardinality(DOMAIN rules) \in Nat
      BY <1>3, FS_CardinalityType
    <3>6. r = [failed |-> failed, ambiguous |-> ambiguous, fixes |-> fixes, after |-> Cardinality(DOMAIN rules)]
      BY <3>1, <3>3, <3>4 DEF recoveryItem
    <3>7. r \in RuleId /\ r.fixes \in SUBSET Key /\ r.fixes # {}
      BY <3>5, <3>6 DEF RuleId, Named
    <3>8. rules'[r] \in Rule /\ rules'[r].fixes = r.fixes
      BY <2>1, <3>7 DEF Rule
    <3>. QED BY <3>7, <3>8
  <2>2. CASE r \in DOMAIN rules /\ r.failed \in DOMAIN plans
             /\ rules'[r] = Became(r, plans[r.failed], read[r.failed])
    <3> DEFINE plan == plans[r.failed]
    <3>1. PlanOK(plan)
      BY <1>2, <2>2
    <3>. HIDE DEF plan
    <3>2. rules[r] \in Rule /\ rules[r].fixes # {} /\ r \in RuleId
      BY <1>3, <2>2
    <3>3. rules'[r] = Became(r, plan, read[r.failed])
      BY <2>2 DEF plan
    <3>4. CASE r \in plan.retired
      BY <3>2, <3>3, <3>4 DEF Became, retire, Rule
    <3>5. CASE r \notin plan.retired /\ r \in plan.again
      <4>1. rules'[r] = revalidate(r, plan, read[r.failed])
        BY <3>3, <3>5 DEF Became
      <4>2. PICK fixes : fixes = IF r \in DOMAIN plan.files THEN plan.files[r] ELSE rules[r].fixes
        OBVIOUS
      <4>3. fixes \in SUBSET Key /\ fixes # {}
        BY <3>1, <3>2, <4>2 DEF PlanOK, Named, Rule
      <4>4. PICK status : status = IF read[r.failed][r].status = "stale" THEN "active" ELSE rules[r].status
        OBVIOUS
      <4>5. status \in {"active", "stale", "retired"}
        BY <3>2, <4>4 DEF Rule
      <4>6. rules'[r] = [fixes |-> fixes, status |-> status]
        BY <4>1, <4>2, <4>4 DEF revalidate
      <4>. QED BY <3>2, <4>3, <4>5, <4>6 DEF Rule
    <3>6. CASE r \notin plan.retired /\ r \notin plan.again
      BY <3>2, <3>3, <3>6 DEF Became
    <3>. QED BY <3>4, <3>5, <3>6
  <2>3. CASE r \in DOMAIN rules /\ rules'[r] = rules[r]
    BY <1>3, <2>3
  <2>. QED BY <2>0, <2>1, <2>2, <2>3 DEF OneRuleAfter
<1>. HIDE DEF plans, read
<1>. QED BY <1>4, <1>5, <1>6 DEF Sensible, Known

\* What one fold holds changes as it should, and the rules are of a memory.
LEMMA RulesMove ==
  ASSUME SessionInv, RulesInv, Grown(log, log'), Sensible(rules'), IsFiniteSet(DOMAIN rules'),
         NEW p \in Folder, NEW y, folder' = [folder EXCEPT ![p] = y], ReadOK(y)'
  PROVE  RulesInv'
<1>1. folder'[p] = y /\ \A q \in Folder : q # p => folder'[q] = folder[q]
  BY OneFold DEF SessionInv
<1>2. ASSUME NEW q \in Folder
      PROVE  ReadOK(folder[q])'
  <2>1. PICK x : x = IF q = p THEN y ELSE folder[q]
    OBVIOUS
  <2>2. folder'[q] = x
    BY <1>1, <2>1
  <2>3. ReadOK(x)'
    <3>1. CASE q = p
      BY <2>1, <3>1
    <3>2. CASE q # p
      <4>1. FoldOK(x) /\ ReadOK(x)
        BY <2>1, <3>2 DEF SessionInv, RulesInv
      <4>. QED BY <4>1, FoundStays
    <3>. QED BY <3>1, <3>2
  <2>. QED BY <2>2, <2>3 DEF ReadOK, Wrong
<1>. QED BY <1>2 DEF RulesInv, Sensible, Known

\* The steps of folds, one by one.
LEMMA FoldsKeepRules ==
  ASSUME SessionInv, RulesInv, NEW p \in Folder, Grown(log, log'),
         \/ insertEvent(p) \/ refold(p) \/ LooksBack(p) \/ LooksUp(p)
         \/ commitPatch(p) \/ Refused(p) \/ MarksResolved(p) \/ FoldDies(p)
  PROVE  RulesInv'
<1>1. PICK x : x = folder[p]
  OBVIOUS
<1>2. FoldOK(x) /\ ReadOK(x) /\ DOMAIN x = Holds
  BY <1>1 DEF SessionInv, RulesInv, FoldOK
<1>3. /\ DOMAIN x.read \subseteq Wrong(x.found) /\ \A failed \in DOMAIN x.read : Sensible(x.read[failed])
      /\ (x.at \in {"idle", "stores", "looks back"} => x.read = <<>>)
  BY <1>2 DEF ReadOK
<1>4. Sensible(rules) /\ IsFiniteSet(DOMAIN rules)
  BY DEF RulesInv
<1>5. \A y : y.read = <<>> => ReadOK(y)'
  <2>1. DOMAIN <<>> = {}
    OBVIOUS
  <2>. QED BY <2>1 DEF ReadOK
<1>6. ASSUME NEW y, folder' = [folder EXCEPT ![p] = y], ReadOK(y)', ~commitPatch(p)
      PROVE  RulesInv'
  <2>1. rules' = rules
    BY <1>6 DEF insertEvent, refold, LooksBack, LooksUp, Refused, MarksResolved, FoldDies
  <2>2. Sensible(rules') /\ IsFiniteSet(DOMAIN rules')
    BY <1>4, <2>1
  <2>. QED BY <1>6, <2>2, RulesMove
<1>7. CASE ~commitPatch(p) /\ insertEvent(p)
  <2>1. PICK batch : folder' = [folder EXCEPT ![p] = [folder[p] EXCEPT !.at = "stores", !.batch = batch]]
    BY <1>7 DEF insertEvent
  <2>2. PICK y : y = [x EXCEPT !.at = "stores", !.batch = batch]
    OBVIOUS
  <2>3. y.read = x.read /\ x.read = <<>>
    BY <1>1, <1>2, <1>3, <1>7, <2>2 DEF Holds, insertEvent
  <2>. QED BY <1>1, <1>5, <1>6, <1>7, <2>1, <2>2, <2>3
<1>8. CASE ~commitPatch(p) /\ refold(p)
  <2>1. PICK y : y = [Idle EXCEPT !.at = "looks back", !.again = TRUE, !.batch = pending]
    OBVIOUS
  <2>2. y.read = <<>> /\ folder' = [folder EXCEPT ![p] = y]
    BY <1>8, <2>1 DEF refold, Idle
  <2>. QED BY <1>5, <1>6, <1>8, <2>2
<1>9. CASE ~commitPatch(p) /\ LooksBack(p)
  <2>1. PICK at, found, overtaken :
          folder' = [folder EXCEPT ![p] = [folder[p] EXCEPT !.at = at, !.found = found, !.overtaken = overtaken]]
    BY <1>9 DEF LooksBack
  <2>2. PICK y : y = [x EXCEPT !.at = at, !.found = found, !.overtaken = overtaken]
    OBVIOUS
  <2>3. y.read = x.read /\ x.read = <<>>
    BY <1>1, <1>2, <1>3, <1>9, <2>2 DEF Holds, LooksBack
  <2>. QED BY <1>1, <1>5, <1>6, <1>9, <2>1, <2>2, <2>3
<1>10. CASE ~commitPatch(p) /\ LooksUp(p)
  <2>1. PICK failed, read :
          /\ failed \in Wrong(folder[p].found) \ DOMAIN folder[p].read
          /\ read = [k \in DOMAIN folder[p].read \cup {failed} |-> IF k = failed THEN Read(failed) ELSE folder[p].read[k]]
          /\ folder' = [folder EXCEPT ![p] = [folder[p] EXCEPT
               !.at = IF DOMAIN read = Wrong(folder[p].found) THEN "commits" ELSE "looks up",
               !.read = read]]
    BY <1>10 DEF LooksUp
  <2>2. /\ failed \in Wrong(x.found)
        /\ read = [k \in DOMAIN x.read \cup {failed} |-> IF k = failed THEN Read(failed) ELSE x.read[k]]
    BY <1>1, <2>1
  <2>3. PICK y : y = [x EXCEPT !.at = IF DOMAIN read = Wrong(x.found) THEN "commits" ELSE "looks up", !.read = read]
    OBVIOUS
  <2>4. folder' = [folder EXCEPT ![p] = y]
    BY <1>1, <2>1, <2>3
  <2>5. y.read = read /\ y.found = x.found /\ y.at \in {"commits", "looks up"}
    BY <1>2, <2>3 DEF Holds
  <2>6. Sensible(Read(failed))
    BY <1>4 DEF Sensible, Known, Read, recoveryRulesFor
  <2>7. DOMAIN read \subseteq Wrong(x.found) /\ \A k \in DOMAIN read : Sensible(read[k])
    BY <1>3, <2>2, <2>6
  <2>8. Wrong(y.found)' = Wrong(y.found)
    <3>1. log' = log
      BY <1>10 DEF LooksUp
    <3>. QED BY <3>1 DEF Wrong
  <2>9. ReadOK(y)'
    BY <2>5, <2>7, <2>8 DEF ReadOK
  <2>. QED BY <1>6, <1>10, <2>4, <2>9
<1>11. ASSUME NEW y, y = [x EXCEPT !.at = "marks"]
       PROVE  ReadOK(y)'
  <2>1. y.at = "marks" /\ y.read = x.read /\ y.found = x.found
    BY <1>2, <1>11 DEF Holds
  <2>2. Wrong(y.found)' = Wrong(x.found)
    BY <1>2, <2>1, FoundStays
  <2>. QED BY <1>3, <2>1, <2>2 DEF ReadOK
<1>12. CASE ~commitPatch(p) /\ Refused(p)
  <2>1. folder' = [folder EXCEPT ![p] = [x EXCEPT !.at = "marks"]]
    BY <1>1, <1>12 DEF Refused
  <2>. QED BY <1>6, <1>11, <1>12, <2>1
<1>13. CASE ~commitPatch(p) /\ (MarksResolved(p) \/ FoldDies(p))
  <2>1. folder' = [folder EXCEPT ![p] = Idle]
    BY <1>13 DEF MarksResolved, FoldDies
  <2>2. ReadOK(Idle)'
    BY <1>5, IdleOK
  <2>. QED BY <1>6, <1>13, <2>1, <2>2
<1>14. CASE commitPatch(p)
  <2>1. folder' = [folder EXCEPT ![p] = [x EXCEPT !.at = "marks"]]
    BY <1>1, <1>14 DEF commitPatch
  <2>2. Sensible(rules') /\ IsFiniteSet(DOMAIN rules')
    BY <1>14, CommitKeeps
  <2>3. PICK y : y = [x EXCEPT !.at = "marks"]
    OBVIOUS
  <2>. QED BY <1>11, <2>1, <2>2, <2>3, RulesMove
<1>. QED BY <1>7, <1>8, <1>9, <1>10, <1>12, <1>13, <1>14

\* A rule that fades or is retired is a rule; and both leave what folds hold.
LEMMA RulesFade ==
  ASSUME RulesInv, NEW r \in DOMAIN rules, RuleFades(r) \/ RuleRetired(r)
  PROVE  /\ Sensible(rules') /\ IsFiniteSet(DOMAIN rules') /\ UNCHANGED <<folder, log, setting>>
         /\ DOMAIN rules' = DOMAIN rules /\ \A s \in DOMAIN rules : rules'[s].fixes = rules[s].fixes
         /\ ~setting.racing =>
              \A s \in DOMAIN rules : rules'[s].status # "retired" => rules[s].status # "retired"
<1>1. /\ DOMAIN rules \subseteq RuleId /\ IsFiniteSet(DOMAIN rules) /\ rules \in [DOMAIN rules -> Rule]
      /\ \A s \in DOMAIN rules : rules[s] \in Rule /\ rules[s].fixes # {}
  BY DEF RulesInv, Sensible, Known
<1>2. PICK status \in {"stale", "retired"} : rules' = [rules EXCEPT ![r] = [rules[r] EXCEPT !.status = status]]
  <2>1. CASE RuleFades(r)
    BY <2>1 DEF RuleFades
  <2>2. CASE RuleRetired(r)
    BY <2>2 DEF RuleRetired, retire
  <2>. QED BY <2>1, <2>2
<1>3. ~setting.racing => rules[r].status # "retired"
  BY DEF RuleFades, RuleRetired, InForce
<1>4. PICK y : y = [rules[r] EXCEPT !.status = status]
  OBVIOUS
<1>5. y \in Rule /\ y.fixes = rules[r].fixes
  BY <1>1, <1>4 DEF Rule
<1>6. rules' = [rules EXCEPT ![r] = y]
  BY <1>2, <1>4
<1>7. /\ DOMAIN rules' = DOMAIN rules /\ rules' \in [DOMAIN rules -> Rule] /\ rules'[r] = y
      /\ \A s \in DOMAIN rules : s # r => rules'[s] = rules[s]
  BY <1>1, <1>5, <1>6
<1>8. \A s \in DOMAIN rules : rules'[s].fixes = rules[s].fixes
  BY <1>5, <1>7
<1>9. Sensible(rules')
  BY <1>1, <1>7, <1>8 DEF Sensible, Known
<1>10. ~setting.racing => \A s \in DOMAIN rules : rules'[s].status # "retired" => rules[s].status # "retired"
  BY <1>3, <1>7
<1>11. UNCHANGED <<folder, log, setting>>
  BY DEF RuleFades, RuleRetired
<1>. QED BY <1>1, <1>7, <1>8, <1>9, <1>10, <1>11

LEMMA RulesStep ==
  ASSUME SessionInv, RulesInv, [Next]_vars
  PROVE  RulesInv'
<1>1. Grown(log, log')
  BY SessionStep
<1>2. ASSUME UNCHANGED folder, Sensible(rules'), IsFiniteSet(DOMAIN rules')
      PROVE  RulesInv'
  <2>1. ASSUME NEW q \in Folder
        PROVE  ReadOK(folder[q])'
    <3>1. PICK x : x = folder[q]
      OBVIOUS
    <3>2. ReadOK(x)'
      BY <1>1, <3>1, FoundStays DEF SessionInv, RulesInv
    <3>. QED BY <1>2, <3>1, <3>2 DEF ReadOK, Wrong
  <2>. QED BY <1>2, <2>1 DEF RulesInv, Sensible, Known
<1>3. CASE \/ Happens \/ WorkerResolves \/ UNCHANGED vars
           \/ \E p \in Learner : \/ buildLearnInput(p) \/ ReadsWindow(p) \/ learnWatermark(p)
                                 \/ advanceWatermark(p) \/ Answers(p) \/ Fails(p)
  <2>1. UNCHANGED <<rules, folder>>
    BY <1>3 DEF Happens, WorkerResolves, vars, buildLearnInput, ReadsWindow, learnWatermark, advanceWatermark,
                Answers, Fails
  <2>2. Sensible(rules') /\ IsFiniteSet(DOMAIN rules')
    BY <2>1 DEF RulesInv
  <2>. QED BY <1>2, <2>1, <2>2
<1>4. CASE \E r \in DOMAIN rules : RuleFades(r) \/ RuleRetired(r)
  BY <1>2, <1>4, RulesFade
<1>5. CASE \E p \in Folder : \/ insertEvent(p) \/ refold(p) \/ LooksBack(p) \/ LooksUp(p)
                             \/ commitPatch(p) \/ Refused(p) \/ MarksResolved(p) \/ FoldDies(p)
  BY <1>1, <1>5, FoldsKeepRules
<1>. QED BY <1>3, <1>4, <1>5 DEF Next

LEMMA RulesInit == Init => RulesInv
<1> SUFFICES ASSUME Init PROVE RulesInv
  OBVIOUS
<1>1. Sensible(rules) /\ IsFiniteSet(DOMAIN rules)
  BY RememberedAssumption DEF Init, Sensible
<1>2. \A p \in Folder : folder[p] = Idle
  BY DEF Init
<1>3. ReadOK(Idle)
  <2>1. DOMAIN <<>> = {}
    OBVIOUS
  <2>. QED BY <2>1, IdleOK DEF ReadOK
<1>. QED BY <1>1, <1>2, <1>3 DEF RulesInv

\* Rules are of a memory, and what folds read of them was.
THEOREM RulesInvariant == Spec => []RulesInv
<1>1. SessionInv /\ RulesInv /\ [Next]_vars => RulesInv'
  BY RulesStep
<1>. QED BY <1>1, RulesInit, SessionInvariant, PTL DEF Spec

-----------------------------------------------------------------------------
(* Answers.                                                                *)

\* What a fold's plan for a path leaves in force gives one answer, if it was made of the
\* rules as they are.
LEMMA CommitSettles ==
  ASSUME SessionInv, RulesInv, NEW p \in Folder, commitPatch(p),
         NEW path \in Path, path \in DOMAIN folder[p].read, folder[p].read[path] = Read(path)
  PROVE  Agree(path)'
<1> DEFINE plans == Planned(p)
           read == folder[p].read
           plan == plans[path]
           known == Read(path)
           left == {r \in DOMAIN rules' : r.failed = path /\ rules'[r].status # "retired"}
<1>1. PICK noted : rules' = Applied(plans, read, noted)
  BY CommitIs
<1>2. path \in DOMAIN plans
  BY PlannedIs
<1>3. PICK fixes \in Named : OnePlan(fixes, known, plan)
  BY <1>2, PlannedIs
<1> DEFINE rights == fixes \cup UNION {known[r].fixes : r \in DOMAIN known}
           vague == {r \in DOMAIN known : r.ambiguous}
<1>4. /\ DOMAIN known = {r \in DOMAIN rules : r.failed = path /\ rules[r].status # "retired"}
      /\ \A r \in DOMAIN known : known[r] = rules[r] /\ rules[r].fixes # {}
  BY DEF Read, recoveryRulesFor, InForce, RulesInv, Sensible
<1>5. \A r \in DOMAIN rules' : OneRuleAfter(r, rules'[r], plans, read)
  <2>. HIDE DEF plans, read
  <2>. QED BY <1>1, AppliedIs
\* What is in force was added, or seen again, or in force already and not retired.
<1>6. ASSUME NEW r \in left
      PROVE  \/ \E added \in plan.added : r = recoveryItem(path, added) /\ rules'[r].fixes = r.fixes
             \/ r \in DOMAIN rules /\ r \notin plan.retired /\ r \in plan.again
                /\ (r \notin DOMAIN plan.files => rules'[r].fixes = rules[r].fixes)
             \/ r \in DOMAIN known /\ r \notin plan.retired /\ r \notin plan.again /\ rules'[r].fixes = rules[r].fixes
  <2>1. OneRuleAfter(r, rules'[r], plans, read) /\ r.failed = path /\ rules'[r].status # "retired"
    BY <1>5
  <2>. HIDE DEF plans, known
  <2>2. CASE (\E added \in plan.added : r = recoveryItem(path, added)) /\ rules'[r] = [fixes |-> r.fixes, status |-> "active"]
    BY <2>2
  <2>3. CASE r \in DOMAIN rules /\ rules'[r] = Became(r, plan, read[path])
    <3>1. r \notin plan.retired
      <4>1. ASSUME r \in plan.retired PROVE FALSE
        <5>1. rules'[r] = [rules[r] EXCEPT !.status = "retired"]
          BY <2>3, <4>1 DEF Became, retire
        <5>2. rules[r] \in Rule
          BY <2>3 DEF RulesInv, Sensible, Known
        <5>3. rules'[r].status = "retired"
          BY <5>1, <5>2 DEF Rule
        <5>. QED BY <2>1, <5>3
      <4>. QED BY <4>1
    <3>2. CASE r \in plan.again
      BY <2>3, <3>1, <3>2 DEF Became, revalidate
    <3>3. CASE r \notin plan.again
      <4>1. rules'[r] = rules[r]
        BY <2>3, <3>1, <3>3 DEF Became
      <4>. QED BY <1>4, <2>1, <2>3, <3>1, <3>3, <4>1
    <3>. QED BY <3>2, <3>3
  <2>. QED BY <1>2, <2>1, <2>2, <2>3 DEF OneRuleAfter
<1>7. DOMAIN known \subseteq DOMAIN rules
  BY <1>4
<1>8. Agree(path)' <=> \A r, s \in left : r.ambiguous = s.ambiguous /\ (~r.ambiguous => rules'[r].fixes = rules'[s].fixes)
  BY DEF Agree, SameAnswer, InForce
<1>. HIDE DEF left, plans, known, read
<1>9. CASE vague # {} /\ plan.added = {} /\ plan.retired = DOMAIN known \ vague /\ plan.again \subseteq vague
  <2>1. \A r \in left : r.ambiguous
    BY <1>6, <1>9
  <2>2. \A r \in left : r.ambiguous = TRUE
    <3>1. \A r \in vague : r.ambiguous \in BOOLEAN
      BY <1>7 DEF RulesInv, Sensible, RuleId
    <3>2. \A r \in left : r \in vague
      BY <1>6, <1>9
    <3>. QED BY <2>1, <3>1, <3>2
  <2>. QED BY <1>8, <2>2
<1>10. CASE vague = {} /\ plan.retired = DOMAIN known /\ plan.again = {} /\ plan.added = {<<TRUE, rights>>}
  <2>1. \A r \in left : r = recoveryItem(path, <<TRUE, rights>>)
    BY <1>6, <1>10
  <2>. QED BY <1>8, <2>1
<1>11. CASE /\ vague = {} /\ plan.retired = {} /\ plan.again \subseteq DOMAIN known
            /\ DOMAIN plan.files = {} /\ plan.added = {} /\ \A x, y \in rights : x = y
  <2>1. \A r \in left : r \in DOMAIN known /\ rules'[r].fixes = rules[r].fixes
    BY <1>6, <1>11
  <2>2. \A r \in DOMAIN known : r.ambiguous = FALSE
    BY <1>7, <1>11 DEF RulesInv, Sensible, RuleId
  <2>3. \A r \in DOMAIN known : rules[r].fixes \subseteq rights /\ rules[r].fixes # {}
    BY <1>4
  <2>. HIDE DEF rights
  <2>4. ASSUME NEW r \in DOMAIN known, NEW s \in DOMAIN known
        PROVE  rules[r].fixes = rules[s].fixes
    <3>1. PICK x \in rights : \A y \in rights : y = x
      BY <1>11, <2>3
    <3>2. rules[r].fixes = {x} /\ rules[s].fixes = {x}
      BY <2>3, <3>1
    <3>. QED BY <3>2
  <2>. QED BY <1>8, <2>1, <2>2, <2>4
<1>12. CASE DOMAIN known = {} /\ plan.again = {} /\ plan.added = {<<FALSE, rights>>}
  <2>1. \A r \in left : r = recoveryItem(path, <<FALSE, rights>>)
    BY <1>6, <1>12
  <2>. QED BY <1>8, <2>1
<1>. QED BY <1>3, <1>9, <1>10, <1>11, <1>12 DEF OnePlan

\* A fold settles what it has learned about: its commit leaves one answer for each wrong
\* path whose rules are still what it read (AFoldSettlesItsPath), whatever folds that raced
\* each other left before, for any paths, recoveries and rules remembered.
THEOREM FoldsSettle == Spec => AFoldSettlesItsPath
<1>1. ASSUME SessionInv, RulesInv
      PROVE  \A p \in Folder : commitPatch(p) =>
               \A path \in Path \cap DOMAIN folder[p].read :
                 folder[p].read[path] = Read(path) => Agree(path)'
  BY <1>1, CommitSettles
<1>. QED BY <1>1, SessionInvariant, RulesInvariant, PTL DEF AFoldSettlesItsPath

\* Nothing a fold does ends the rule that says to search for a path, however old what it
\* planned with has become (OnceAmbiguousStaysSo): a plan for a path never retires one, and
\* what is seen again stays in force.
THEOREM AmbiguousStays == Spec => OnceAmbiguousStaysSo
<1>1. ASSUME NEW p \in Folder, commitPatch(p), NEW path \in Path, Ambiguous(path)
      PROVE  Ambiguous(path)'
  <2> DEFINE plans == Planned(p)
             read == folder[p].read
  <2>1. PICK noted : rules' = Applied(plans, read, noted)
    BY <1>1, CommitIs
  <2>2. PICK r \in DOMAIN rules : r.failed = path /\ rules[r].status # "retired" /\ r.ambiguous
    BY <1>1 DEF Ambiguous, InForce
  <2>3. r \in DOMAIN rules' /\ OneRuleAfter(r, rules'[r], plans, read)
    <3>. HIDE DEF plans, read
    <3>. QED BY <2>1, <2>2, AppliedIs
  <2>4. path \in DOMAIN plans => r \notin plans[path].retired
    <3>1. path \notin Command
      BY AttemptsAssumption
    <3>2. path \in DOMAIN plans => plans[path] = PlanForPath(Fixes(folder[p].found, path), read[path])
      BY <3>1 DEF Planned, planRecoveryRules
    <3>3. \A fixes, known : r \notin PlanForPath(fixes, known).retired
      BY <2>2 DEF PlanForPath, Plan
    <3>. QED BY <3>2, <3>3
  <2>. HIDE DEF plans, read
  <2>5. rules'[r].status # "retired"
    BY <2>2, <2>3, <2>4 DEF OneRuleAfter, Became, revalidate
  <2>. QED BY <2>2, <2>3, <2>5 DEF Ambiguous, InForce
<1>2. ASSUME [Next]_vars, ~UNCHANGED folder, ~ \E p \in Folder : commitPatch(p)
      PROVE  rules' = rules
  BY <1>2 DEF Next, vars, Happens, WorkerResolves, insertEvent, refold, LooksBack, LooksUp, Refused, MarksResolved,
              FoldDies, RuleFades, RuleRetired, buildLearnInput, ReadsWindow, learnWatermark, advanceWatermark,
              Answers, Fails
<1>3. ASSUME NEW path \in Path, rules' = rules, Ambiguous(path)
      PROVE  Ambiguous(path)'
  BY <1>3 DEF Ambiguous, InForce
<1>4. [Next]_vars => \A path \in Path : Ambiguous(path) /\ ~Ambiguous(path)' => UNCHANGED folder
  BY <1>1, <1>2, <1>3
<1>. QED BY <1>4, PTL DEF Spec, OnceAmbiguousStaysSo

\* Where folds do not race only one is under way; what it has looked up is still so; and
\* the rules give one answer for each path.
RaceInv ==
  ~setting.racing =>
    /\ \A p, q \in Folder : p # q => folder[p] = Idle \/ folder[q] = Idle
    /\ \A p \in Folder : folder[p].at \in {"looks up", "commits"} =>
         \A failed \in DOMAIN folder[p].read : folder[p].read[failed] = Read(failed)
    /\ \A path \in Path : Agree(path)

LEMMA RaceInit == Init => RaceInv
<1> SUFFICES ASSUME Init, ~setting.racing PROVE RaceInv
  BY DEF RaceInv
<1>1. \A p \in Folder : folder[p] = Idle
  BY DEF Init
<1>2. \A path \in Path : Agree(path)
  BY RememberedAssumption DEF Init, Agree, InForce
<1>. QED BY <1>1, <1>2, IdleOK DEF RaceInv

\* Rules that come to be in force nowhere, and say what they said, still agree.
LEMMA StillAgree ==
  ASSUME NEW path \in Path, Agree(path),
         \A r \in DOMAIN rules' : r.failed = path /\ rules'[r].status # "retired" =>
           r \in DOMAIN rules /\ rules[r].status # "retired" /\ rules'[r].fixes = rules[r].fixes
  PROVE  Agree(path)'
BY DEF Agree, InForce, SameAnswer

\* A step of one fold, while the others are idle.
LEMMA RaceMoves ==
  ASSUME SessionInv, RaceInv, ~setting.racing, UNCHANGED setting, NEW p \in Folder,
         \A q \in Folder : q # p => folder[q] = Idle,
         NEW y, folder' = [folder EXCEPT ![p] = y],
         y.at \in {"looks up", "commits"} => \A failed \in DOMAIN y.read : y.read[failed] = Read(failed)',
         \A path \in Path : Agree(path)'
  PROVE  RaceInv'
<1>1. folder'[p] = y /\ \A q \in Folder : q # p => folder'[q] = Idle
  BY OneFold DEF SessionInv
<1>2. \A q \in Folder : folder'[q].at \in {"looks up", "commits"} =>
        \A failed \in DOMAIN folder'[q].read : folder'[q].read[failed] = Read(failed)'
  BY <1>1, IdleOK
<1>. QED BY <1>1, <1>2 DEF RaceInv

LEMMA FoldsKeepRace ==
  ASSUME SessionInv, RulesInv, RaceInv, ~setting.racing, NEW p \in Folder,
         \/ insertEvent(p) \/ refold(p) \/ LooksBack(p) \/ LooksUp(p)
         \/ commitPatch(p) \/ Refused(p) \/ MarksResolved(p) \/ FoldDies(p)
  PROVE  RaceInv'
<1>1. PICK x : x = folder[p]
  OBVIOUS
<1>2. FoldOK(x) /\ DOMAIN x = Holds /\ ReadOK(x)
  BY <1>1 DEF SessionInv, RulesInv, FoldOK
<1>3. \A q \in Folder : q # p => folder[q] = Idle
  <2>1. CASE folder[p] = Idle
    <3>1. Undisturbed(p)
      BY <2>1, IdleOK DEF insertEvent, refold, LooksBack, LooksUp, commitPatch, Refused, MarksResolved, FoldDies
    <3>. QED BY <3>1 DEF Undisturbed
  <2>2. CASE folder[p] # Idle
    BY <2>2 DEF RaceInv
  <2>. QED BY <2>1, <2>2
<1>4. UNCHANGED setting
  BY DEF insertEvent, refold, LooksBack, LooksUp, commitPatch, Refused, MarksResolved, FoldDies
<1>5. ASSUME rules' = rules, NEW path \in Path
      PROVE  Agree(path)'
  <2>1. Agree(path)
    BY DEF RaceInv
  <2>. QED BY <1>5, <2>1 DEF Agree, InForce, SameAnswer
<1>6. ASSUME rules' = rules, NEW y, folder' = [folder EXCEPT ![p] = y],
             y.at \in {"looks up", "commits"} => \A failed \in DOMAIN y.read : y.read[failed] = Read(failed)
      PROVE  RaceInv'
  <2>1. \A failed : Read(failed)' = Read(failed)
    BY <1>6 DEF Read, recoveryRulesFor, InForce
  <2>2. y.at \in {"looks up", "commits"} => \A failed \in DOMAIN y.read : y.read[failed] = Read(failed)'
    BY <1>6, <2>1
  <2>. QED BY <1>3, <1>4, <1>5, <1>6, <2>2, RaceMoves
<1>7. CASE insertEvent(p)
  <2>1. PICK batch : folder' = [folder EXCEPT ![p] = [folder[p] EXCEPT !.at = "stores", !.batch = batch]]
    BY <1>7 DEF insertEvent
  <2>2. PICK y : y = [x EXCEPT !.at = "stores", !.batch = batch]
    OBVIOUS
  <2>3. y.at = "stores" /\ rules' = rules
    BY <1>2, <1>7, <2>2 DEF Holds, insertEvent
  <2>. QED BY <1>1, <1>6, <2>1, <2>2, <2>3
<1>8. CASE refold(p)
  <2>1. PICK y : y = [Idle EXCEPT !.at = "looks back", !.again = TRUE, !.batch = pending]
    OBVIOUS
  <2>2. y.at = "looks back" /\ folder' = [folder EXCEPT ![p] = y] /\ rules' = rules
    BY <1>8, <2>1 DEF refold, Idle
  <2>. QED BY <1>6, <2>2
<1>9. CASE LooksBack(p)
  <2>1. PICK at, found, overtaken :
          folder' = [folder EXCEPT ![p] = [folder[p] EXCEPT !.at = at, !.found = found, !.overtaken = overtaken]]
    BY <1>9 DEF LooksBack
  <2>2. PICK y : y = [x EXCEPT !.at = at, !.found = found, !.overtaken = overtaken]
    OBVIOUS
  <2>3. y.read = x.read /\ x.read = <<>> /\ rules' = rules
    BY <1>1, <1>2, <1>9, <2>2 DEF Holds, LooksBack, ReadOK
  <2>4. DOMAIN <<>> = {}
    OBVIOUS
  <2>. QED BY <1>1, <1>6, <2>1, <2>2, <2>3, <2>4
<1>10. CASE LooksUp(p)
  <2>1. PICK failed, read :
          /\ failed \in Wrong(folder[p].found) \ DOMAIN folder[p].read
          /\ read = [k \in DOMAIN folder[p].read \cup {failed} |-> IF k = failed THEN Read(failed) ELSE folder[p].read[k]]
          /\ folder' = [folder EXCEPT ![p] = [folder[p] EXCEPT
               !.at = IF DOMAIN read = Wrong(folder[p].found) THEN "commits" ELSE "looks up",
               !.read = read]]
    BY <1>10 DEF LooksUp
  <2>2. PICK y : y = [x EXCEPT !.at = IF DOMAIN read = Wrong(x.found) THEN "commits" ELSE "looks up", !.read = read]
    OBVIOUS
  <2>3. y.read = read /\ rules' = rules
    BY <1>2, <1>10, <2>2 DEF Holds, LooksUp
  <2>4. \A k \in DOMAIN folder[p].read : folder[p].read[k] = Read(k)
    BY <1>10 DEF RaceInv, LooksUp
  <2>5. \A k \in DOMAIN read : read[k] = Read(k)
    BY <2>1, <2>4
  <2>. QED BY <1>1, <1>6, <2>1, <2>2, <2>3, <2>5
<1>11. CASE Refused(p)
  BY <1>11 DEF Refused
<1>12. CASE MarksResolved(p) \/ FoldDies(p)
  <2>1. folder' = [folder EXCEPT ![p] = Idle] /\ rules' = rules
    BY <1>12 DEF MarksResolved, FoldDies
  <2>. QED BY <1>6, <2>1, IdleOK
<1>13. CASE commitPatch(p)
  <2>1. folder' = [folder EXCEPT ![p] = [x EXCEPT !.at = "marks"]]
    BY <1>1, <1>13 DEF commitPatch
  <2>2. PICK y : y = [x EXCEPT !.at = "marks"]
    OBVIOUS
  <2>3. y.at = "marks"
    BY <1>2, <2>2 DEF Holds
  <2>4. ASSUME NEW path \in Path
        PROVE  Agree(path)'
    <3>1. CASE path \in DOMAIN folder[p].read
      <4>1. folder[p].read[path] = Read(path)
        BY <1>13, <3>1 DEF commitPatch, RaceInv
      <4>. QED BY <1>13, <3>1, <4>1, CommitSettles
    <3>2. CASE path \notin DOMAIN folder[p].read
      <4> DEFINE plans == Planned(p)
                 read == folder[p].read
      <4>1. PICK noted : rules' = Applied(plans, read, noted)
        BY <1>13, CommitIs
      <4>2. path \notin DOMAIN plans
        BY <3>2 DEF Planned
      <4>. HIDE DEF plans, read
      <4>3. \A r \in DOMAIN rules' : OneRuleAfter(r, rules'[r], plans, read)
        BY <4>1, AppliedIs
      <4>4. \A r \in DOMAIN rules' : r.failed = path => r \in DOMAIN rules /\ rules'[r] = rules[r]
        BY <4>2, <4>3 DEF OneRuleAfter
      <4>5. Agree(path)
        BY DEF RaceInv
      <4>. QED BY <4>4, <4>5, StillAgree
    <3>. QED BY <3>1, <3>2
  <2>. QED BY <1>3, <1>4, <2>1, <2>2, <2>3, <2>4, RaceMoves
<1>. QED BY <1>7, <1>8, <1>9, <1>10, <1>11, <1>12, <1>13

LEMMA RaceStep ==
  ASSUME SessionInv, RulesInv, RaceInv, [Next]_vars
  PROVE  RaceInv'
<1>1. setting' = setting
  BY DEF Next, vars, Happens, WorkerResolves, insertEvent, refold, LooksBack, LooksUp, commitPatch, Refused,
         MarksResolved, FoldDies, RuleFades, RuleRetired, buildLearnInput, ReadsWindow, learnWatermark,
         advanceWatermark, Answers, Fails
<1>2. CASE setting.racing
  BY <1>1, <1>2 DEF RaceInv
<1>3. CASE ~setting.racing /\ UNCHANGED <<rules, folder>>
  <2>1. \A failed : Read(failed)' = Read(failed)
    BY <1>3 DEF Read, recoveryRulesFor, InForce
  <2>2. \A path : Agree(path)' = Agree(path)
    BY <1>3 DEF Agree, SameAnswer, InForce
  <2>. QED BY <1>1, <1>3, <2>1, <2>2 DEF RaceInv
<1>4. CASE ~setting.racing /\ \E r \in DOMAIN rules : RuleFades(r) \/ RuleRetired(r)
  <2>1. PICK r \in DOMAIN rules : RuleFades(r) \/ RuleRetired(r)
    BY <1>4
  <2>2. \A p \in Folder : folder[p] = Idle
    BY <1>4, <2>1 DEF RuleFades, RuleRetired, Unused
  <2>3. /\ folder' = folder /\ DOMAIN rules' = DOMAIN rules
        /\ \A s \in DOMAIN rules : rules'[s].fixes = rules[s].fixes
        /\ \A s \in DOMAIN rules : rules'[s].status # "retired" => rules[s].status # "retired"
    BY <1>4, <2>1, RulesFade
  <2>4. \A path \in Path : Agree(path)
    BY <1>4 DEF RaceInv
  <2>5. \A path \in Path : Agree(path)'
    BY <2>3, <2>4, StillAgree
  <2>. QED BY <1>1, <2>2, <2>3, <2>5, IdleOK DEF RaceInv
<1>5. CASE ~setting.racing /\
           \E p \in Folder : \/ insertEvent(p) \/ refold(p) \/ LooksBack(p) \/ LooksUp(p)
                             \/ commitPatch(p) \/ Refused(p) \/ MarksResolved(p) \/ FoldDies(p)
  BY <1>5, FoldsKeepRace
<1>6. CASE \/ Happens \/ WorkerResolves \/ UNCHANGED vars
           \/ \E p \in Learner : \/ buildLearnInput(p) \/ ReadsWindow(p) \/ learnWatermark(p)
                                 \/ advanceWatermark(p) \/ Answers(p) \/ Fails(p)
  <2>1. UNCHANGED <<rules, folder>>
    BY <1>6 DEF Happens, WorkerResolves, vars, buildLearnInput, ReadsWindow, learnWatermark, advanceWatermark,
                Answers, Fails
  <2>. QED BY <1>2, <1>3, <2>1
<1>. QED BY <1>2, <1>4, <1>5, <1>6 DEF Next

\* Where folds do not race, the rules in force for a wrong path give one answer
\* (OneAnswerAlone), whatever fades, is seen again or is retired, for any number of paths,
\* of things they may have meant, and of rules remembered.
THEOREM OneAnswer == Spec => []OneAnswerAlone
<1>1. SessionInv /\ RulesInv /\ RaceInv /\ [Next]_vars => RaceInv'
  BY RaceStep
<1>2. RaceInv => OneAnswerAlone
  BY DEF RaceInv, OneAnswerAlone
<1>. QED BY <1>1, <1>2, RaceInit, SessionInvariant, RulesInvariant, PTL DEF Spec

-----------------------------------------------------------------------------
(* Types.                                                                  *)

\* Sessions, rules, marks and what is held, asked and answered stay well formed (TypeOK).
THEOREM TypeCorrect == Spec => []TypeOK
<1>1. SessionInv /\ LearnInv /\ RulesInv => TypeOK
  <2> SUFFICES ASSUME SessionInv, LearnInv, RulesInv PROVE TypeOK
    OBVIOUS
  <2>1. /\ log \in Seq(Event) /\ Len(log) <= setting.length /\ stored \subseteq DOMAIN log
        /\ pending \subseteq stored /\ setting \in Settings
    BY DEF SessionInv, LogOf
  <2>2. DOMAIN rules \subseteq RuleId /\ rules \in Known(DOMAIN rules)
    BY DEF RulesInv, Sensible
  <2>3. \A p \in Folder :
          /\ folder[p].at \in {"idle", "stores", "looks back", "looks up", "commits", "marks"}
          /\ folder[p].batch \subseteq stored /\ folder[p].found \subseteq stored \X folder[p].batch
    BY DEF SessionInv, FoldOK, FoldStages
  <2>4. mark \in Nat /\ \A p \in Learner :
          /\ learner[p].at \in {"rests", "walks", "asks", "reads", "writes"}
          /\ learner[p].cursor \in Nat /\ learner[p].until \in Nat /\ learner[p].prev \in Nat
          /\ learner[p].at = "asks" => learner[p].asked # <<>>
    BY DEF LearnInv, HoldOK, LearnStages
  <2>5. \A e \in answered : e.from < e.to /\ e.to \in DOMAIN log
    BY DEF LearnInv, IsEpisode
  <2>. QED BY <2>1, <2>2, <2>3, <2>4, <2>5 DEF TypeOK
<1>. QED BY <1>1, SessionInvariant, LearnInvariant, RulesInvariant, PTL
=============================================================================
