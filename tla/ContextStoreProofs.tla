--------------------------- MODULE ContextStoreProofs ---------------------------
(***************************************************************************)
(* Theorems of ContextStore, for every set of ids, texts, events, workers  *)
(* and patches.  First the lemmas about the patch semantics of Patch, for  *)
(* every memory a patch may meet: what each stage of applyPatch returns,   *)
(* and what validation buys.  Then the store: the inductive invariant is   *)
(* its typing with the finiteness of its items, and the lemmas follow the  *)
(* pipeline of commitPatch (normalize, prune, verify, validate, apply,     *)
(* materialize).  Last, the fold of the log against the tables.            *)
(***************************************************************************)
EXTENDS ContextStore, FiniteSetTheorems, TLAPS

\* A materialized memory: finitely many typed items under their ids.
IsMemory(mem) ==
  /\ DOMAIN mem \subseteq Id
  /\ IsFiniteSet(DOMAIN mem)
  /\ mem \in [DOMAIN mem -> MemoryItem]

-----------------------------------------------------------------------------
(* LastOf. *)

\* A finite non-empty set of naturals has a greatest element, so LastOf picks
\* one of its members (no member would do if the set were unbounded).
LEMMA LastOfIsLast ==
  ASSUME NEW S \in SUBSET Nat, S # {}, IsFiniteSet(S)
  PROVE  LastOf(S) \in S /\ \A j \in S : j <= LastOf(S)
<1> DEFINE NoLast == {A \in SUBSET S : A # {} /\ ~ \E i \in A : \A j \in A : j <= i}
<1>1. CASE NoLast = {}
  BY <1>1 DEF LastOf
<1>2. CASE NoLast # {}
  <2>1. PICK A \in NoLast : \A B \in NoLast : ~(<<B, A>> \in StrictSubsetOrdering(S))
    <3>1. NoLast \subseteq FiniteSubsetsOf(S)
      BY FS_Subset DEF FiniteSubsetsOf
    <3>. QED BY <1>2, <3>1, WFMin, FS_StrictSubsetOrderingWellFounded
  <2>2. PICK a \in A : TRUE
    OBVIOUS
  <2>3. A \ {a} \notin NoLast
    BY <2>1, <2>2 DEF StrictSubsetOrdering
  <2>4. CASE A \ {a} = {}
    BY <2>2, <2>4
  <2>5. CASE A \ {a} # {}
    <3>1. PICK m \in A \ {a} : \A j \in A \ {a} : j <= m
      BY <2>3, <2>5
    <3>2. a \in Nat /\ m \in Nat /\ \A j \in A : j \in Nat
      BY <2>2
    <3>3. \E i \in A : \A j \in A : j <= i
      BY <2>2, <3>1, <3>2
    <3>. QED BY <3>3
  <2>. QED BY <2>4, <2>5
<1>. QED BY <1>1, <1>2

\* Of a set of naturals that is not empty, one is the least.
LEMMA Least ==
  ASSUME NEW S \in SUBSET Nat, S # {}
  PROVE  \E m \in S : \A n \in S : m <= n
<1>1. PICK s \in S : TRUE
  OBVIOUS
<1> DEFINE Below == {k \in 0 .. s : s - k \in S}
<1>2. Below \in SUBSET Nat /\ IsFiniteSet(Below)
  <2>1. IsFiniteSet(0 .. s)
    BY FS_Interval
  <2>. QED BY <2>1, FS_Subset
<1>3. \A n \in S : n <= s => s - n \in Below
  OBVIOUS
<1>4. Below # {}
  BY <1>3
<1>5. LastOf(Below) \in Below /\ \A k \in Below : k <= LastOf(Below)
  BY <1>2, <1>4, LastOfIsLast
<1>6. \A n \in S : s - LastOf(Below) <= n
  BY <1>2, <1>3, <1>5
<1>. QED BY <1>5, <1>6

\* The positions of a list are finitely many naturals.
LEMMA PositionsAreFinite ==
  ASSUME NEW S \in SUBSET (1 .. MaxEntries)
  PROVE  S \in SUBSET Nat /\ IsFiniteSet(S)
<1>1. MaxEntries \in Int
  BY PatchAssumption
<1>2. IsFiniteSet(1 .. MaxEntries)
  BY <1>1, FS_Interval
<1>3. IsFiniteSet(S)
  BY <1>2, FS_Subset
<1>. QED BY <1>1, <1>3

\* The last of some positions is one of them, and none is later.
LEMMA LastPosition ==
  ASSUME NEW S \in SUBSET (1 .. MaxEntries), S # {}
  PROVE  LastOf(S) \in S /\ \A j \in S : j <= LastOf(S)
BY PositionsAreFinite, LastOfIsLast

\* Any non-empty set of positions has a first one.
LEMMA FirstPosition ==
  ASSUME NEW S \in SUBSET (1 .. MaxEntries), S # {}
  PROVE  \E i \in S : \A j \in S : i <= j
<1>1. MaxEntries \in Nat
  BY PatchAssumption
<1> DEFINE Mirror == {k \in 1 .. MaxEntries : MaxEntries + 1 - k \in S}
<1>2. \A i \in S : MaxEntries + 1 - i \in Mirror
  BY <1>1
<1>3. LastOf(Mirror) \in Mirror /\ \A j \in Mirror : j <= LastOf(Mirror)
  <2>1. Mirror \in SUBSET (1 .. MaxEntries) /\ Mirror # {}
    BY <1>2
  <2>. QED BY <2>1, LastPosition
<1>4. \A j \in S : MaxEntries + 1 - LastOf(Mirror) <= j
  BY <1>1, <1>2, <1>3
<1>. QED BY <1>3, <1>4

-----------------------------------------------------------------------------
(* Typing, stage by stage. *)

\* An entry that is there is of the list's type.
LEMMA EntryTyped ==
  ASSUME NEW S, NEW list \in List(S)
  PROVE  /\ Entries(list) \in SUBSET (1 .. MaxEntries)
         /\ \A i \in Entries(list) : list[i] \in S
BY DEF List, Entries, Maybe

\* So are those of the three lists of a patch.
LEMMA PatchEntriesTyped ==
  ASSUME NEW p \in StatePatch
  PROVE  /\ \A i \in Entries(p.add) : p.add[i] \in AddItem
         /\ \A i \in Entries(p.update) : p.update[i] \in UpdateItem
         /\ \A i \in Entries(p.supersede) : p.supersede[i] \in Supersede
<1>1. p.add \in List(AddItem) /\ p.update \in List(UpdateItem) /\ p.supersede \in List(Supersede)
  BY DEF StatePatch
<1>. QED BY <1>1, EntryTyped

\* Capping the confidence of what is inferred leaves a patch.
LEMMA NormalizeTyped ==
  ASSUME NEW p \in StatePatch
  PROVE  NormalizePatch(p) \in StatePatch
<1>1. p.add \in List(AddItem)
  BY DEF StatePatch
<1>2. \A a \in AddItem : [a EXCEPT !.confidence = LowerOf(a.confidence, MaxInferred)] \in AddItem
  BY PatchAssumption DEF AddItem, LowerOf, Confidence
<1> DEFINE capped == NormalizePatch(p).add
<1>3. capped \in List(AddItem)
  BY <1>1, <1>2 DEF NormalizePatch, List, Maybe, Entries, StatePatch
<1>. QED BY <1>3 DEF NormalizePatch, StatePatch

\* A dropped add repeats something: an earlier add that is kept or an active item.
LEMMA RedundantRepeats ==
  ASSUME NEW p \in StatePatch, NEW mem, IsMemory(mem), NEW i \in RedundantAdds(p, mem)
  PROVE  \/ ActiveCopies(mem, p.add[i]) # {}
         \/ \E j \in Entries(p.add) \ RedundantAdds(p, mem) : j < i /\ SameText(p.add[j], p.add[i])
<1>1. Entries(p.add) \in SUBSET (1 .. MaxEntries) /\ MaxEntries \in Nat
  BY EntryTyped, PatchAssumption DEF StatePatch
<1> DEFINE Same == {j \in RedundantAdds(p, mem) : j <= i /\ SameText(p.add[j], p.add[i])}
<1>2. i \in Same /\ Same \in SUBSET (1 .. MaxEntries)
  BY <1>1 DEF RedundantAdds, SameText
<1>3. PICK j \in Same : \A k \in Same : j <= k
  BY <1>2, FirstPosition
<1>4. CASE ActiveCopies(mem, p.add[j]) # {}
  BY <1>3, <1>4 DEF ActiveCopies, SameText
<1>5. CASE \E k \in Entries(p.add) : k < j /\ SameText(p.add[k], p.add[j])
  <2>1. PICK k \in Entries(p.add) : k < j /\ SameText(p.add[k], p.add[j])
    BY <1>5
  <2>2. k < i /\ SameText(p.add[k], p.add[i])
    BY <1>1, <1>2, <1>3, <2>1 DEF SameText
  <2>3. k \notin Same
    BY <1>1, <1>2, <1>3, <2>1
  <2>. QED BY <1>1, <1>2, <2>1, <2>2, <2>3
<1>. QED BY <1>3, <1>4, <1>5 DEF RedundantAdds

\* What a redundant add repeats is an item that exists or an add that is kept.
LEMMA OriginalTyped ==
  ASSUME NEW p \in StatePatch, NEW mem, IsMemory(mem), NEW i \in RedundantAdds(p, mem)
  PROVE  OriginalOf(p, mem, i) \in Id
<1> DEFINE earlier == {j \in Entries(p.add) \ RedundantAdds(p, mem) :
                         j < i /\ SameText(p.add[j], p.add[i])}
<1>1. CASE earlier # {}
  <2>1. earlier \in SUBSET (1 .. MaxEntries)
    BY EntryTyped DEF StatePatch
  <2>2. LastOf(earlier) \in earlier
    BY <1>1, <2>1, LastPosition
  <2>3. p.add[LastOf(earlier)] \in AddItem
    BY <2>2, EntryTyped DEF StatePatch
  <2>. QED BY <1>1, <2>3 DEF OriginalOf, AddItem
<1>2. CASE earlier = {}
  <2>1. ActiveCopies(mem, p.add[i]) # {}
    BY <1>2, RedundantRepeats
  <2>2. ActiveCopies(mem, p.add[i]) \in SUBSET Id /\ IsFiniteSet(ActiveCopies(mem, p.add[i]))
    <3>1. ActiveCopies(mem, p.add[i]) \in SUBSET (DOMAIN mem)
      BY DEF ActiveCopies
    <3>2. IsFiniteSet(ActiveCopies(mem, p.add[i]))
      BY <3>1, FS_Subset DEF IsMemory
    <3>. QED BY <3>1, <3>2 DEF IsMemory
  <2>3. LastOf(ActiveCopies(mem, p.add[i])) \in ActiveCopies(mem, p.add[i])
    BY <2>1, <2>2, LastOfIsLast, PatchAssumption
  <2>. QED BY <1>2, <2>2, <2>3 DEF OriginalOf
<1>. QED BY <1>1, <1>2

\* A reference resolves to an id.
LEMMA ResolveTyped ==
  ASSUME NEW p \in StatePatch, NEW mem, IsMemory(mem), NEW x \in Id
  PROVE  Resolve(p, mem, x) \in Id
<1> DEFINE dropped == {i \in RedundantAdds(p, mem) : p.add[i].id = x}
<1>1. dropped \in SUBSET (1 .. MaxEntries)
  BY EntryTyped DEF StatePatch, RedundantAdds
<1>2. CASE dropped = {}
  BY <1>2 DEF Resolve
<1>3. CASE dropped # {}
  <2>1. LastOf(dropped) \in RedundantAdds(p, mem)
    BY <1>1, <1>3, LastPosition
  <2>. QED BY <1>3, <2>1, OriginalTyped DEF Resolve
<1>. QED BY <1>2, <1>3

\* A patch whose lists are replaced by typed ones is a patch.
LEMMA Reassembled ==
  ASSUME NEW p \in StatePatch,
         NEW add \in List(AddItem), NEW update \in List(UpdateItem),
         NEW supersede \in List(Supersede), NEW touch \in SUBSET Id,
         NEW link \in SUBSET MemoryEdge, NEW unlink \in SUBSET Unlink,
         NEW remove \in SUBSET Id, NEW close \in SUBSET Close
  PROVE  [p EXCEPT !.add = add, !.update = update, !.supersede = supersede, !.touch = touch,
            !.link = link, !.unlink = unlink, !.remove = remove, !.close = close] \in StatePatch
BY DEF StatePatch

\* Dropping the no-ops of a patch leaves a patch.
LEMMA PruneTyped ==
  ASSUME NEW p \in StatePatch, NEW mem, IsMemory(mem)
  PROVE  PruneInertOperations(p, mem) \in StatePatch
<1> DEFINE q == PruneInertOperations(p, mem)
           kept == Entries(p.add) \ RedundantAdds(p, mem)
           land(x) == Resolve(p, mem, x)
<1>1. \A x \in Id : land(x) \in Id
  BY ResolveTyped
<1>2. [i \in DOMAIN p.add |-> IF i \in kept THEN p.add[i] ELSE None] \in List(AddItem)
  BY EntryTyped DEF StatePatch, List, Maybe
<1>3. [i \in DOMAIN p.update |->
         IF i \in Entries(p.update) THEN [p.update[i] EXCEPT !.id = land(p.update[i].id)] ELSE None]
        \in List(UpdateItem)
  <2>1. \A i \in Entries(p.update) : p.update[i] \in UpdateItem
    BY EntryTyped DEF StatePatch
  <2>2. \A u \in UpdateItem : [u EXCEPT !.id = land(u.id)] \in UpdateItem
    BY <1>1 DEF UpdateItem
  <2>. QED BY <2>1, <2>2 DEF StatePatch, List, Maybe
<1>4. [i \in DOMAIN p.supersede |->
         IF i \in Entries(p.supersede)
         THEN [id |-> land(p.supersede[i].id), by |-> land(p.supersede[i].by)] ELSE None]
        \in List(Supersede)
  <2>1. \A i \in Entries(p.supersede) : p.supersede[i] \in Supersede
    BY EntryTyped DEF StatePatch
  <2>. QED BY <1>1, <2>1 DEF StatePatch, List, Maybe, Supersede
<1>5. \A e \in MemoryEdge : ResolveEnds(p, mem, e) \in MemoryEdge
  BY <1>1 DEF ResolveEnds, MemoryEdge
<1>6. \A e \in Unlink : ResolveEnds(p, mem, e) \in Unlink
  BY <1>1 DEF ResolveEnds, Unlink
<1>7. q = [p EXCEPT !.add = q.add, !.update = q.update, !.supersede = q.supersede,
             !.touch = q.touch, !.link = q.link, !.unlink = q.unlink, !.remove = q.remove,
             !.close = q.close]
  BY DEF PruneInertOperations, StatePatch
<1>8. q.touch \subseteq Id /\ q.remove \subseteq Id /\ q.close \subseteq Close
  BY <1>1 DEF PruneInertOperations, StatePatch
<1>9. q.link \subseteq MemoryEdge /\ q.unlink \subseteq Unlink
  BY <1>5, <1>6 DEF PruneInertOperations, StatePatch
<1>10. q.add \in List(AddItem) /\ q.update \in List(UpdateItem) /\ q.supersede \in List(Supersede)
  BY <1>2, <1>3, <1>4 DEF PruneInertOperations, StatePatch
<1>11. [p EXCEPT !.add = q.add, !.update = q.update, !.supersede = q.supersede,
             !.touch = q.touch, !.link = q.link, !.unlink = q.unlink, !.remove = q.remove,
             !.close = q.close] \in StatePatch
  <2>. HIDE DEF q
  <2>. QED BY <1>8, <1>9, <1>10, Reassembled
<1>. QED
  <2>1. q \in StatePatch
    <3>. HIDE DEF q
    <3>. QED BY <1>7, <1>11
  <2>. QED BY <2>1

\* The entries of one item in the list of updates, and the value they leave.
LEMMA WrittenIsOldOrUpdated ==
  ASSUME NEW p \in StatePatch, NEW x, NEW field, NEW old
  PROVE  \/ Written(p, x, field, old) = old
         \/ \E i \in Entries(p.update) :
              /\ p.update[i].id = x /\ p.update[i][field] # None
              /\ Written(p, x, field, old) = p.update[i][field]
<1> DEFINE writers == {i \in Entries(p.update) : p.update[i].id = x /\ p.update[i][field] # None}
<1>1. CASE writers = {}
  BY <1>1 DEF Written
<1>2. CASE writers # {}
  <2>1. writers \in SUBSET (1 .. MaxEntries)
    BY EntryTyped DEF StatePatch
  <2>2. LastOf(writers) \in writers
    BY <1>2, <2>1, LastPosition
  <2>. QED BY <1>2, <2>2 DEF Written
<1>. QED BY <1>1, <1>2

\* An updated item is an item.
LEMMA AfterUpdateTyped ==
  ASSUME NEW p \in StatePatch, NEW x, NEW item \in MemoryItem
  PROVE  AfterUpdate(p, x, item) \in MemoryItem
<1>1. \A i \in Entries(p.update) : p.update[i] \in UpdateItem
  BY EntryTyped DEF StatePatch
<1>2. Written(p, x, "text", item.text) \in Text
  BY <1>1, WrittenIsOldOrUpdated DEF UpdateItem, Maybe, MemoryItem
<1>3. Written(p, x, "importance", item.importance) \in Importance
  BY <1>1, WrittenIsOldOrUpdated DEF UpdateItem, Maybe, MemoryItem
<1>4. Written(p, x, "confidence", item.confidence) \in Confidence
  BY <1>1, WrittenIsOldOrUpdated DEF UpdateItem, Maybe, MemoryItem
<1>5. Written(p, x, "status", item.status) \in Status
  BY <1>1, WrittenIsOldOrUpdated DEF UpdateItem, Maybe, MemoryItem
<1>6. Written(p, x, "ttl", item.ttl) \in BOOLEAN
  BY <1>1, WrittenIsOldOrUpdated DEF UpdateItem, Maybe, MemoryItem
<1>7. Written(p, x, "closed", item.closed) \in BOOLEAN
  BY <1>1, WrittenIsOldOrUpdated DEF UpdateItem, Maybe, MemoryItem
<1>8. item.evidence \cup UNION {p.update[i].evidence : i \in {j \in Entries(p.update) : p.update[j].id = x}}
        \in SUBSET EventId
  BY <1>1 DEF UpdateItem, MemoryItem
<1>. QED BY <1>2, <1>3, <1>4, <1>5, <1>6, <1>7, <1>8 DEF AfterUpdate, MemoryItem

\* The add that introduces an id is one of the patch's.
LEMMA AddOfTyped ==
  ASSUME NEW p \in StatePatch, NEW x \in AddedIds(p)
  PROVE  AddOf(p, x) \in Entries(p.add) /\ p.add[AddOf(p, x)] \in AddItem
BY EntryTyped DEF AddedIds, AddOf, StatePatch

\* What an add makes is an item.
LEMMA NewItemTyped ==
  ASSUME NEW a \in AddItem
  PROVE  NewItem(a) \in MemoryItem
BY DEF AddItem, NewItem, MemoryItem, Status, Maybe

\* An item added, or retired by an add, is an item.
LEMMA AfterAddTyped ==
  ASSUME NEW p \in StatePatch, NEW mem, IsMemory(mem), NEW x \in DOMAIN mem \cup AddedIds(p)
  PROVE  AfterAdd(p, mem, x) \in MemoryItem
<1> DEFINE item == IF x \in DOMAIN mem THEN mem[x] ELSE NewItem(p.add[AddOf(p, x)])
           retiring == RetiringAdds(p, mem, x)
<1>1. item \in MemoryItem
  BY AddOfTyped, NewItemTyped DEF IsMemory
<1>2. retiring # {} => p.add[LastOf(retiring)].id \in Id
  <2>1. retiring \in SUBSET (1 .. MaxEntries) /\ retiring \subseteq Entries(p.add)
    BY EntryTyped DEF RetiringAdds, StatePatch
  <2>2. retiring # {} => LastOf(retiring) \in Entries(p.add)
    BY <2>1, LastPosition
  <2>. QED BY <2>2, PatchEntriesTyped DEF AddItem
<1>3. \A i \in MemoryItem, by \in Id :
        [i EXCEPT !.status = "superseded", !.supersededBy = by] \in MemoryItem
  BY DEF MemoryItem, Status, Maybe
<1>. QED
  <2>1. AfterAdd(p, mem, x) = IF retiring = {} \/ IsProtected(item) THEN item
          ELSE [item EXCEPT !.status = "superseded", !.supersededBy = p.add[LastOf(retiring)].id]
    BY DEF AfterAdd
  <2>. HIDE DEF item, retiring
  <2>. QED BY <1>1, <1>2, <1>3, <2>1

\* An item retired by a supersede, or named as its replacement, is an item.
LEMMA AfterSupersedeTyped ==
  ASSUME NEW p \in StatePatch, NEW x, NEW item \in MemoryItem
  PROVE  AfterSupersede(p, x, item) \in MemoryItem
<1> DEFINE retiring == {i \in Entries(p.supersede) : p.supersede[i].id = x}
           replaced == {p.supersede[i].id : i \in {j \in Entries(p.supersede) : p.supersede[j].by = x}}
<1>1. \A i \in Entries(p.supersede) : p.supersede[i] \in Supersede
  BY EntryTyped DEF StatePatch
<1>2. replaced \subseteq Id
  BY <1>1 DEF Supersede
<1>3. retiring # {} => p.supersede[LastOf(retiring)].by \in Id
  <2>1. retiring \in SUBSET (1 .. MaxEntries)
    BY EntryTyped DEF StatePatch
  <2>. QED BY <1>1, <2>1, LastPosition DEF Supersede
<1>4. AfterSupersede(p, x, item) =
        [item EXCEPT
           !.status = IF retiring = {} THEN item.status ELSE "superseded",
           !.supersededBy = IF retiring = {} THEN item.supersededBy ELSE p.supersede[LastOf(retiring)].by,
           !.supersedes = item.supersedes \cup replaced]
  BY DEF AfterSupersede
<1>. HIDE DEF retiring, replaced
<1>. QED BY <1>2, <1>3, <1>4 DEF MemoryItem, Status, Maybe

\* A closed item is an item.
LEMMA AfterCloseTyped ==
  ASSUME NEW p \in StatePatch, NEW x, NEW item \in MemoryItem
  PROVE  AfterClose(p, x, item) \in MemoryItem
<1>1. item.evidence \cup UNION {c.evidence : c \in {d \in p.close : d.id = x}} \in SUBSET EventId
  BY DEF StatePatch, Close, MemoryItem
<1>. QED BY <1>1 DEF AfterClose, MemoryItem

\* All stages together leave an item.
LEMMA ApplyToTyped ==
  ASSUME NEW p \in StatePatch, NEW mem, IsMemory(mem), NEW x \in DOMAIN mem \cup AddedIds(p)
  PROVE  ApplyTo(p, mem, x) \in MemoryItem
<1>1. \A item \in MemoryItem : AfterRemove(p, x, item) \in MemoryItem
  BY DEF AfterRemove, MemoryItem, Status
<1>2. \A item \in MemoryItem : AfterClose(p, x, item) \in MemoryItem
  BY AfterCloseTyped
<1>3. \A item \in MemoryItem : AfterReopen(p, x, item) \in MemoryItem
  BY DEF AfterReopen, MemoryItem
<1>. QED BY <1>1, <1>2, <1>3, AfterAddTyped, AfterUpdateTyped, AfterSupersedeTyped DEF ApplyTo

\* A patch leaves a memory a memory.
LEMMA ApplyPatchTyped ==
  ASSUME NEW p \in StatePatch, NEW mem, IsMemory(mem)
  PROVE  IsMemory(ApplyPatch(p, mem)) /\ DOMAIN ApplyPatch(p, mem) = DOMAIN mem \cup AddedIds(p)
<1>1. AddedIds(p) \subseteq Id
  BY PatchEntriesTyped DEF AddedIds, AddItem
<1>2. IsFiniteSet(AddedIds(p))
  <2> DEFINE idAt == [i \in Entries(p.add) |-> p.add[i].id]
  <2>1. idAt \in Surjection(Entries(p.add), AddedIds(p))
    BY DEF Surjection, AddedIds
  <2>2. IsFiniteSet(Entries(p.add))
    BY EntryTyped, PositionsAreFinite DEF StatePatch
  <2>. HIDE DEF idAt
  <2>. QED BY <2>1, <2>2, FS_Surjection
<1>3. IsFiniteSet(DOMAIN mem \cup AddedIds(p))
  BY <1>2, FS_Union DEF IsMemory
<1>4. \A x \in DOMAIN mem \cup AddedIds(p) : ApplyTo(p, mem, x) \in MemoryItem
  BY ApplyToTyped
<1>. QED BY <1>1, <1>3, <1>4 DEF ApplyPatch, IsMemory

\* Linking and unlinking leave edges.
LEMMA ApplyEdgesTyped ==
  ASSUME NEW p \in StatePatch, NEW graph \in SUBSET MemoryEdge
  PROVE  ApplyEdges(p, graph) \in SUBSET MemoryEdge
<1>1. \A l \in MemoryEdge : CanonicalEdge(l) \in MemoryEdge
  BY DEF CanonicalEdge, MemoryEdge
<1>. QED BY <1>1 DEF ApplyEdges, StatePatch

-----------------------------------------------------------------------------
(* What validation buys. *)

\* A patch that passes validation leaves an active protected item in force,
\* unless it removes it with its id released.
LEMMA ProtectedItemKept ==
  ASSUME NEW p \in StatePatch, NEW mem, IsMemory(mem), NEW x \in DOMAIN mem,
         mem[x].status = "active", IsProtected(mem[x]), x \notin p.release \cap p.remove,
         UpdatesAllowed(p, mem), RemovesAllowed(p, mem), SupersedesAllowed(p, mem)
  PROVE  /\ ApplyTo(p, mem, x).status = "active"
         /\ IsProtected(ApplyTo(p, mem, x))
         /\ ApplyTo(p, mem, x).confidence >= mem[x].confidence
<1> DEFINE InForce(item) ==
             /\ item.status = "active" /\ item.source = "user" /\ item.importance = "critical"
             /\ item.confidence >= mem[x].confidence
<1>1. mem[x] \in MemoryItem /\ mem[x].confidence \in Int
  BY PatchAssumption DEF IsMemory, MemoryItem, Confidence
<1>2. AfterAdd(p, mem, x) = mem[x]
  BY DEF AfterAdd
<1>3. \A i \in Entries(p.update) : p.update[i].id = x => ~Weakens(p.update[i], mem[x])
  BY DEF UpdatesAllowed
<1>4. InForce(AfterUpdate(p, x, mem[x]))
  <2> DEFINE status == Written(p, x, "status", mem[x].status)
             importance == Written(p, x, "importance", mem[x].importance)
             confidence == Written(p, x, "confidence", mem[x].confidence)
  <2>1. status = "active"
    BY <1>3, WrittenIsOldOrUpdated DEF Weakens
  <2>2. importance = "critical"
    BY <1>3, WrittenIsOldOrUpdated DEF Weakens, IsProtected
  <2>3. confidence >= mem[x].confidence
    <3>1. \A i \in Entries(p.update) : p.update[i].confidence # None => p.update[i].confidence \in Int
      BY PatchEntriesTyped, PatchAssumption DEF UpdateItem, Maybe, Confidence
    <3>2. CASE confidence = mem[x].confidence
      BY <1>1, <3>2
    <3>3. CASE \E i \in Entries(p.update) :
                 p.update[i].id = x /\ p.update[i].confidence # None /\ confidence = p.update[i].confidence
      BY <1>1, <1>3, <3>1, <3>3 DEF Weakens
    <3>4. \/ confidence = mem[x].confidence
          \/ \E i \in Entries(p.update) :
               p.update[i].id = x /\ p.update[i].confidence # None /\ confidence = p.update[i].confidence
      BY WrittenIsOldOrUpdated
    <3>. QED BY <3>2, <3>3, <3>4
  <2>4. /\ AfterUpdate(p, x, mem[x]).status = status
        /\ AfterUpdate(p, x, mem[x]).importance = importance
        /\ AfterUpdate(p, x, mem[x]).confidence = confidence
        /\ AfterUpdate(p, x, mem[x]).source = mem[x].source
    BY <1>1 DEF AfterUpdate, MemoryItem
  <2>. HIDE DEF status, importance, confidence
  <2>. QED BY <2>1, <2>2, <2>3, <2>4 DEF IsProtected
<1>5. \A item : AfterRemove(p, x, item) = item
  BY DEF AfterRemove, RemovesAllowed
<1>6. \A item \in MemoryItem : InForce(item) => InForce(AfterSupersede(p, x, item))
  <2>1. {i \in Entries(p.supersede) : p.supersede[i].id = x} = {}
    BY DEF SupersedesAllowed
  <2>. QED BY <2>1 DEF AfterSupersede, MemoryItem
<1>7. \A item \in MemoryItem : InForce(item) => InForce(AfterClose(p, x, item))
  BY DEF AfterClose, MemoryItem
<1>8. \A item \in MemoryItem : InForce(item) => InForce(AfterReopen(p, x, item))
  BY DEF AfterReopen, MemoryItem
<1>9. \A item \in MemoryItem : AfterClose(p, x, item) \in MemoryItem
  BY AfterCloseTyped
<1>10. InForce(ApplyTo(p, mem, x))
  <2>. HIDE DEF InForce
  <2>. QED BY <1>1, <1>2, <1>4, <1>5, <1>6, <1>7, <1>8, <1>9, AfterUpdateTyped, AfterSupersedeTyped DEF ApplyTo
<1>. QED BY <1>10 DEF IsProtected

\* Both ends of the edges a valid patch leaves are items it leaves.
LEMMA EdgesStaySound ==
  ASSUME NEW p \in StatePatch, NEW mem, IsMemory(mem), LinksAllowed(p, mem),
         NEW graph \in SUBSET MemoryEdge,
         \A e \in graph : /\ e.from # e.to /\ BothEndsIn(DOMAIN mem, e)
                          /\ IsSymmetric(e.kind) => e.from < e.to,
         NEW e \in ApplyEdges(p, graph)
  PROVE  /\ e.from # e.to /\ BothEndsIn(DOMAIN mem \cup AddedIds(p), e)
         /\ IsSymmetric(e.kind) => e.from < e.to
<1>1. CASE e \in graph
  BY <1>1 DEF BothEndsIn
<1>2. ASSUME NEW l \in p.link, e = CanonicalEdge(l)
      PROVE  /\ e.from # e.to /\ BothEndsIn(DOMAIN mem \cup AddedIds(p), e)
             /\ IsSymmetric(e.kind) => e.from < e.to
  <2>1. l \in MemoryEdge /\ l.from \in Nat /\ l.to \in Nat
    BY PatchAssumption DEF StatePatch, MemoryEdge
  <2>2. l.from # l.to /\ BothEndsIn(DOMAIN mem \cup AddedIds(p), l)
    BY DEF LinksAllowed
  <2>. QED BY <1>2, <2>1, <2>2 DEF CanonicalEdge, BothEndsIn, MemoryEdge
<1>. QED BY <1>1, <1>2 DEF ApplyEdges

\* What an item replaced and what replaced it are items the patch leaves.
LEMMA LineageStaysSound ==
  ASSUME NEW p \in StatePatch, NEW mem, IsMemory(mem),
         AddSupersedesAllowed(p, mem), SupersedesAllowed(p, mem),
         \A x \in DOMAIN mem : mem[x].supersedes \cup ({mem[x].supersededBy} \ {None}) \subseteq DOMAIN mem,
         NEW x \in DOMAIN mem \cup AddedIds(p)
  PROVE  ApplyTo(p, mem, x).supersedes \cup ({ApplyTo(p, mem, x).supersededBy} \ {None})
           \subseteq DOMAIN mem \cup AddedIds(p)
<1> DEFINE D == DOMAIN mem \cup AddedIds(p)
           Sound(item) == item.supersedes \cup ({item.supersededBy} \ {None}) \subseteq D
<1>1. Sound(AfterAdd(p, mem, x))
  <2> DEFINE item == IF x \in DOMAIN mem THEN mem[x] ELSE NewItem(p.add[AddOf(p, x)])
             retiring == RetiringAdds(p, mem, x)
  <2>1. item \in MemoryItem
    BY AddOfTyped, NewItemTyped DEF IsMemory
  <2>2. Sound(item)
    <3>1. CASE x \in DOMAIN mem
      BY <3>1
    <3>2. CASE x \notin DOMAIN mem
      <4>1. AddOf(p, x) \in Entries(p.add)
        BY <3>2, AddOfTyped
      <4>2. p.add[AddOf(p, x)].supersedes \subseteq D
        BY <4>1 DEF AddSupersedesAllowed, AddSupersededIds
      <4>. QED BY <3>2, <4>2 DEF NewItem
    <3>. QED BY <3>1, <3>2
  <2>3. retiring # {} => p.add[LastOf(retiring)].id \in D
    <3>1. retiring \in SUBSET (1 .. MaxEntries) /\ retiring \subseteq Entries(p.add)
      BY EntryTyped DEF RetiringAdds, StatePatch
    <3>2. retiring # {} => LastOf(retiring) \in Entries(p.add)
      BY <3>1, LastPosition
    <3>. QED BY <3>2 DEF AddedIds
  <2>4. AfterAdd(p, mem, x) = IF retiring = {} \/ IsProtected(item) THEN item
          ELSE [item EXCEPT !.status = "superseded", !.supersededBy = p.add[LastOf(retiring)].id]
    BY DEF AfterAdd
  <2>. HIDE DEF item, retiring, D
  <2>. QED BY <2>1, <2>2, <2>3, <2>4 DEF MemoryItem
<1>2. \A item \in MemoryItem : Sound(item) => Sound(AfterSupersede(p, x, item))
  <2>1. TAKE item \in MemoryItem
  <2> DEFINE retiring == {i \in Entries(p.supersede) : p.supersede[i].id = x}
             replaced == {p.supersede[i].id : i \in {j \in Entries(p.supersede) : p.supersede[j].by = x}}
  <2>2. \A i \in Entries(p.supersede) : p.supersede[i].id \in D /\ p.supersede[i].by \in D
    BY DEF SupersedesAllowed
  <2>3. replaced \subseteq D
    BY <2>2
  <2>4. retiring # {} => p.supersede[LastOf(retiring)].by \in D
    <3>1. retiring \in SUBSET (1 .. MaxEntries)
      BY EntryTyped DEF StatePatch
    <3>. QED BY <2>2, <3>1, LastPosition
  <2>5. AfterSupersede(p, x, item) =
          [item EXCEPT
             !.status = IF retiring = {} THEN item.status ELSE "superseded",
             !.supersededBy = IF retiring = {} THEN item.supersededBy ELSE p.supersede[LastOf(retiring)].by,
             !.supersedes = item.supersedes \cup replaced]
    BY DEF AfterSupersede
  <2>. HIDE DEF retiring, replaced, D
  <2>. QED BY <2>3, <2>4, <2>5 DEF MemoryItem
<1>3. \A item \in MemoryItem : Sound(item) => Sound(AfterUpdate(p, x, item))
  BY DEF AfterUpdate, MemoryItem
<1>4. \A item \in MemoryItem : Sound(item) => Sound(AfterRemove(p, x, item)) /\ AfterRemove(p, x, item) \in MemoryItem
  BY DEF AfterRemove, MemoryItem, Status
<1>5. \A item \in MemoryItem : Sound(item) => Sound(AfterClose(p, x, item))
  BY DEF AfterClose, MemoryItem
<1>6. \A item \in MemoryItem : AfterClose(p, x, item) \in MemoryItem
  BY AfterCloseTyped
<1>7. \A item \in MemoryItem : Sound(item) => Sound(AfterReopen(p, x, item))
  BY DEF AfterReopen, MemoryItem
<1>8. Sound(ApplyTo(p, mem, x))
  <2>. HIDE DEF Sound
  <2>. QED BY <1>1, <1>2, <1>3, <1>4, <1>5, <1>6, <1>7, AfterAddTyped, AfterUpdateTyped, AfterSupersedeTyped
       DEF ApplyTo
<1>. QED BY <1>8

\* An item a patch adds says what its add says: no later stage changes its category
\* or its source, and its evidence and what it replaces only grow.
LEMMA AddedItemKeeps ==
  ASSUME NEW p \in StatePatch, NEW mem, IsMemory(mem), NEW x \in AddedIds(p), x \notin DOMAIN mem,
         NEW a, a = p.add[AddOf(p, x)]
  PROVE  /\ ApplyTo(p, mem, x).category = a.category
         /\ ApplyTo(p, mem, x).source = a.source
         /\ a.evidence \subseteq ApplyTo(p, mem, x).evidence
         /\ a.supersedes \subseteq ApplyTo(p, mem, x).supersedes
<1> DEFINE Keeps(item) ==
             /\ item.category = a.category /\ item.source = a.source
             /\ a.evidence \subseteq item.evidence /\ a.supersedes \subseteq item.supersedes
<1>1. a \in AddItem
  BY AddOfTyped
<1>2. Keeps(AfterAdd(p, mem, x))
  <2> DEFINE retiring == RetiringAdds(p, mem, x)
  <2>1. NewItem(a) \in MemoryItem /\ Keeps(NewItem(a))
    BY <1>1, NewItemTyped DEF NewItem
  <2>2. AfterAdd(p, mem, x) = IF retiring = {} \/ IsProtected(NewItem(a)) THEN NewItem(a)
          ELSE [NewItem(a) EXCEPT !.status = "superseded", !.supersededBy = p.add[LastOf(retiring)].id]
    BY DEF AfterAdd
  <2>3. CASE retiring = {} \/ IsProtected(NewItem(a))
    BY <2>1, <2>2, <2>3
  <2>4. CASE ~(retiring = {} \/ IsProtected(NewItem(a)))
    <3>1. Keeps([NewItem(a) EXCEPT !.status = "superseded", !.supersededBy = p.add[LastOf(retiring)].id])
      BY <2>1 DEF MemoryItem
    <3>2. AfterAdd(p, mem, x) = [NewItem(a) EXCEPT !.status = "superseded", !.supersededBy = p.add[LastOf(retiring)].id]
      BY <2>2, <2>4
    <3>. HIDE DEF Keeps
    <3>. QED BY <3>1, <3>2
  <2>. QED BY <2>3, <2>4
<1>3. \A item \in MemoryItem : Keeps(item) => Keeps(AfterUpdate(p, x, item))
  BY DEF AfterUpdate, MemoryItem
<1>4. \A item \in MemoryItem : Keeps(item) => Keeps(AfterRemove(p, x, item)) /\ AfterRemove(p, x, item) \in MemoryItem
  BY DEF AfterRemove, MemoryItem, Status
<1>5. \A item \in MemoryItem : Keeps(item) => Keeps(AfterSupersede(p, x, item))
  BY DEF AfterSupersede, MemoryItem
<1>6. \A item \in MemoryItem : Keeps(item) => Keeps(AfterClose(p, x, item)) /\ AfterClose(p, x, item) \in MemoryItem
  BY AfterCloseTyped DEF AfterClose, MemoryItem
<1>7. \A item \in MemoryItem : Keeps(item) => Keeps(AfterReopen(p, x, item))
  BY DEF AfterReopen, MemoryItem
<1>8. Keeps(ApplyTo(p, mem, x))
  <2>. HIDE DEF Keeps
  <2>. QED BY <1>2, <1>3, <1>4, <1>5, <1>6, <1>7, AfterAddTyped, AfterUpdateTyped, AfterSupersedeTyped DEF ApplyTo
<1>. QED BY <1>8

-----------------------------------------------------------------------------
(* Type correctness. *)

\* Items and events are finite: the latest of some of them is one of them.
FiniteStore == IsFiniteSet(DOMAIN items) /\ IsFiniteSet(DOMAIN events)
TypeInv == TypeOK /\ FiniteStore

\* What the store makes of a patch before it validates it is a patch.
LEMMA CheckedTyped ==
  ASSUME NEW raw \in StatePatch, NEW origin, NEW observed, TypeInv
  PROVE  Checked(raw, origin, observed) \in StatePatch
<1>1. IsMemory(items)
  BY DEF TypeInv, TypeOK, FiniteStore, IsMemory
<1>2. \A q \in StatePatch : VerifyUserProvenance(q) \in StatePatch
  <2>1. TAKE q \in StatePatch
  <2>2. \A a \in AddItem :
          [a EXCEPT !.source = "agent", !.confidence = LowerOf(a.confidence, MaxInferred)] \in AddItem
    <3>1. \A a \in AddItem : LowerOf(a.confidence, MaxInferred) \in Confidence
      BY PatchAssumption DEF AddItem, LowerOf, Confidence
    <3>2. \A a \in AddItem, c \in Confidence :
            [a EXCEPT !.source = "agent", !.confidence = c] \in AddItem
      BY DEF AddItem, Source
    <3>. QED BY <3>1, <3>2
  <2>3. q.add \in List(AddItem)
    BY DEF StatePatch
  <2> DEFINE verified == VerifyUserProvenance(q).add
  <2>4. verified = [i \in DOMAIN q.add |->
                      IF i \notin Entries(q.add) \/ q.add[i].source # "user" \/ CitesUserMessage(q.add[i])
                      THEN q.add[i]
                      ELSE [q.add[i] EXCEPT !.source = "agent", !.confidence = LowerOf(q.add[i].confidence, MaxInferred)]]
    BY DEF VerifyUserProvenance, StatePatch
  <2>5. verified \in List(AddItem)
    <3>. HIDE DEF verified
    <3>. QED BY <2>2, <2>3, <2>4 DEF List, Maybe, Entries
  <2>. QED BY <2>5 DEF VerifyUserProvenance, StatePatch
<1>3. \A q \in StatePatch : VerifyClosures(q) \in StatePatch
  BY DEF VerifyClosures, StatePatch
<1>4. \A q \in StatePatch : [q EXCEPT !.working = None] \in StatePatch
  BY DEF StatePatch, Maybe
<1>5. NormalizePatch(raw) \in StatePatch
  BY NormalizeTyped
<1>6. PruneInertOperations(NormalizePatch(raw), items) \in StatePatch
  BY <1>1, <1>5, PruneTyped
<1>. QED BY <1>2, <1>3, <1>4, <1>5, <1>6 DEF Checked

\* Every id a patch adds is among the rows written, so no row is left unwritten.
LEMMA AddsAreDirty ==
  ASSUME NEW p
  PROVE  AddedIds(p) \subseteq Dirty(p, items)
BY DEF Dirty

\* A commit leaves the memory, the edges, the task and the log well typed.
LEMMA CommitTyped ==
  ASSUME TypeInv, NEW raw \in StatePatch, NEW origin \in Origin, NEW observed,
         CommitPatch(raw, origin, observed)
  PROVE  /\ DOMAIN items' \subseteq Id /\ items' \in [DOMAIN items' -> MemoryItem]
         /\ IsFiniteSet(DOMAIN items')
         /\ edges' \subseteq MemoryEdge
         /\ working' \in Maybe(Task)
         /\ handAt' \in Maybe(Nat)
         /\ log' \in Seq(LogEntry)
         /\ version' \in Nat
<1> DEFINE p == Checked(raw, origin, observed)
<1>1. p \in StatePatch
  BY CheckedTyped
<1>. HIDE DEF p
<1>2. IsMemory(items)
  BY DEF TypeInv, TypeOK, FiniteStore, IsMemory
<1>3. /\ items' = Materialize(p)
      /\ edges' = ApplyEdges(p, edges)
      /\ working' = IF p.working = None THEN working ELSE p.working
      /\ handAt' = IF origin = "user" /\ p.working # None THEN clock ELSE handAt
      /\ log' = Append(log, [patch |-> p, origin |-> origin, base |-> version, new |-> version + 1])
      /\ version' = version + 1
  BY DEF CommitPatch, p
<1>4. DOMAIN items' = DOMAIN items \cup AddedIds(p)
  BY <1>1, <1>2, <1>3, ApplyPatchTyped DEF Materialize
<1>5. \A x \in DOMAIN items' : items'[x] \in MemoryItem
  BY <1>1, <1>2, <1>3, <1>4, ApplyPatchTyped, AddsAreDirty DEF Materialize, IsMemory
<1>6. DOMAIN items' \subseteq Id /\ items' \in [DOMAIN items' -> MemoryItem] /\ IsFiniteSet(DOMAIN items')
  <2>1. items' = [x \in DOMAIN items' |-> items'[x]]
    BY <1>3 DEF Materialize
  <2>. QED BY <1>1, <1>2, <1>4, <1>5, <2>1, ApplyPatchTyped DEF IsMemory
<1>7. edges' \subseteq MemoryEdge
  BY <1>1, <1>3, ApplyEdgesTyped DEF TypeInv, TypeOK
<1>8. working' \in Maybe(Task)
  BY <1>1, <1>3 DEF TypeInv, TypeOK, StatePatch, Maybe
<1>9. handAt' \in Maybe(Nat) /\ version' \in Nat
  BY <1>3 DEF TypeInv, TypeOK, Maybe
<1>10. log' \in Seq(LogEntry)
  <2>1. [patch |-> p, origin |-> origin, base |-> version, new |-> version + 1] \in LogEntry
    BY <1>1 DEF LogEntry, TypeInv, TypeOK
  <2>. QED BY <1>3, <2>1 DEF TypeInv, TypeOK
<1>. QED BY <1>6, <1>7, <1>8, <1>9, <1>10

\* The patches the callers commit are patches.
LEMMA CallerPatchesTyped ==
  /\ UserPatches \cup FoldPatches \cup ImportPatches \cup WorkerPatches \subseteq StatePatch
  /\ \A p \in StatePatch : [p EXCEPT !.base = None] \in StatePatch
  /\ \A p \in StatePatch, n \in Nat : [p EXCEPT !.base = n] \in StatePatch
BY StoreAssumption DEF StatePatch, Maybe

\* What a worker answers is a patch, with or without the version it states.
LEMMA AnswerTyped ==
  ASSUME TypeInv, NEW w \in Worker, worker[w] # Idle, NEW p \in StatePatch, NEW stated \in BOOLEAN
  PROVE  Answer(w, p, stated) \in StatePatch
<1>1. worker[w].version \in Nat
  BY DEF TypeInv, TypeOK, Asking
<1>. QED BY <1>1, CallerPatchesTyped DEF Answer

\* The newest event of a batch is one of them, at an instant that is a number.
LEMMA NewestIsRead ==
  ASSUME TypeInv, NEW batch \in SUBSET DOMAIN events, batch # {}
  PROVE  Newest(batch) \in {events[e].at : e \in batch} /\ Newest(batch) \in Nat
<1> DEFINE times == {events[e].at : e \in batch}
           timeOf == [e \in batch |-> events[e].at]
<1>1. IsFiniteSet(batch)
  BY FS_Subset DEF TypeInv, FiniteStore
<1>2. timeOf \in Surjection(batch, times)
  BY DEF Surjection
<1>3. IsFiniteSet(times)
  <2>. HIDE DEF times, timeOf
  <2>. QED BY <1>1, <1>2, FS_Surjection
<1>4. times \in SUBSET Nat /\ times # {}
  BY DEF TypeInv, TypeOK, Event
<1>. QED BY <1>3, <1>4, LastOfIsLast DEF Newest

\* An empty store is well typed.
LEMMA TypeInvInit == Init => TypeInv
BY FS_EmptySet DEF Init, TypeInv, TypeOK, FiniteStore, Maybe

\* No step leaves the store, the log or a worker run malformed.
LEMMA TypeInvStep == TypeInv /\ [Next]_vars => TypeInv'
<1> SUFFICES ASSUME TypeInv, [Next]_vars
             PROVE  TypeInv'
  OBVIOUS
<1>. USE DEF TypeInv, FiniteStore
<1>1. ASSUME NEW p \in UserPatches, UserCommits(p)
      PROVE  TypeInv'
  <2>1. p \in StatePatch /\ "user" \in Origin
    BY CallerPatchesTyped DEF Origin
  <2>. QED BY <1>1, <2>1, CommitTyped DEF UserCommits, TypeOK
<1>2. ASSUME NEW p \in FoldPatches, FoldCommits(p)
      PROVE  TypeInv'
  <2>1. p \in StatePatch /\ "deterministic" \in Origin
    BY CallerPatchesTyped DEF Origin
  <2>. QED BY <1>2, <2>1, CommitTyped DEF FoldCommits, TypeOK
<1>3. ASSUME NEW p \in ImportPatches, NEW origin \in {"user", "import"}, NEW force \in BOOLEAN, ImportCommits(p, origin, force)
      PROVE  TypeInv'
  <2>1. [p EXCEPT !.base = None] \in StatePatch /\ origin \in Origin
    BY CallerPatchesTyped DEF Origin
  <2>. QED BY <1>3, <2>1, CommitTyped DEF ImportCommits, TypeOK
<1>4. ASSUME NEW w \in Worker, NEW task \in WorkerTasks, NEW batch \in SUBSET EventId,
             WorkerReads(w, task, batch)
      PROVE  TypeInv'
  <2> DEFINE observed == IF batch = {} THEN None ELSE Newest(batch)
  <2>1. observed \in Maybe(Nat)
    <3>1. CASE batch = {}
      BY <3>1 DEF Maybe
    <3>2. CASE batch # {}
      BY <1>4, <3>2, NewestIsRead DEF WorkerReads, Maybe
    <3>. QED BY <3>1, <3>2
  <2>2. [phase |-> "asking", pass |-> 1, version |-> version, observed |-> observed, readAt |-> clock] \in Asking
    BY <2>1 DEF Asking, TypeOK
  <2>. HIDE DEF observed
  <2>3. worker' = [worker EXCEPT ![w] =
           [phase |-> "asking", pass |-> 1, version |-> version, observed |-> observed, readAt |-> clock]]
    BY <1>4 DEF WorkerReads, observed
  <2>. QED BY <1>4, <2>2, <2>3 DEF WorkerReads, TypeOK, store
<1>5. ASSUME NEW w \in Worker, NEW p \in WorkerPatches, NEW stated \in BOOLEAN, WorkerCommits(w, p, stated)
      PROVE  TypeInv'
  <2>1. Answer(w, p, stated) \in StatePatch /\ "worker" \in Origin
    BY <1>5, AnswerTyped, CallerPatchesTyped DEF Origin, WorkerCommits
  <2>. QED BY <1>5, <2>1, CommitTyped DEF WorkerCommits, TypeOK
<1>6. ASSUME NEW w \in Worker, NEW p \in WorkerPatches, NEW stated \in BOOLEAN, WorkerRejected(w, p, stated)
      PROVE  TypeInv'
  <2>1. worker[w] \in Asking
    BY <1>6 DEF WorkerRejected, TypeOK
  <2>2. [worker[w] EXCEPT !.pass = 2] \in Asking
    BY <2>1 DEF Asking
  <2>. QED BY <1>6, <2>2 DEF WorkerRejected, TypeOK, store
<1>7. ASSUME NEW w \in Worker, WorkerFails(w)
      PROVE  TypeInv'
  BY <1>7 DEF WorkerFails, TypeOK, store
<1>8. ASSUME NEW e \in EventId, NEW user \in BOOLEAN, NEW at \in 0 .. MaxClock, InsertEvent(e, user, at)
      PROVE  TypeInv'
  <2>1. IsFiniteSet(DOMAIN events \cup {e})
    BY FS_AddElement
  <2>2. at \in Nat
    BY StoreAssumption
  <2>. QED BY <1>8, <2>1, <2>2 DEF InsertEvent, TypeOK, Event, store
<1>9. ASSUME NEW cutoff \in 0 .. MaxClock, PruneRawEvents(cutoff)
      PROVE  TypeInv'
  <2>1. IsFiniteSet({e \in DOMAIN events : events[e].at > cutoff})
    BY FS_Subset
  <2>. QED BY <1>9, <2>1 DEF PruneRawEvents, TypeOK, Restrict, store
<1>10. ASSUME Tick
       PROVE  TypeInv'
  BY <1>10 DEF Tick, TypeOK, store
<1>11. CASE UNCHANGED vars
  BY <1>11 DEF vars, TypeOK
<1>. QED BY <1>1, <1>2, <1>3, <1>4, <1>5, <1>6, <1>7, <1>8, <1>9, <1>10, <1>11 DEF Next

\* Every reachable state of the store is well typed: no stage of a commit, on any
\* patch from any caller, leaves a row, a log entry or a worker run malformed.
THEOREM TypeCorrect == Spec => []TypeOK
<1>1. Spec => []TypeInv
  BY TypeInvInit, TypeInvStep, PTL DEF Spec
<1>. QED BY <1>1, PTL DEF TypeInv

-----------------------------------------------------------------------------
(* Safety.  Only a commit changes the store, so each theorem is proved of  *)
(* one commit, whoever makes it.                                           *)

\* A step commits one patch, of one origin, or leaves the store alone.
LEMMA CommitsOrKeeps ==
  ASSUME TypeInv, [Next]_vars
  PROVE  \/ \E raw \in StatePatch, origin \in Origin : \E observed : CommitPatch(raw, origin, observed)
         \/ UNCHANGED store
<1>1. ASSUME NEW p \in UserPatches, UserCommits(p)
      PROVE  \E raw \in StatePatch, origin \in Origin : \E observed : CommitPatch(raw, origin, observed)
  BY <1>1, CallerPatchesTyped DEF UserCommits, Origin
<1>2. ASSUME NEW p \in FoldPatches, FoldCommits(p)
      PROVE  \E raw \in StatePatch, origin \in Origin : \E observed : CommitPatch(raw, origin, observed)
  BY <1>2, CallerPatchesTyped DEF FoldCommits, Origin
<1>3. ASSUME NEW p \in ImportPatches, NEW origin \in {"user", "import"}, NEW force \in BOOLEAN, ImportCommits(p, origin, force)
      PROVE  \E raw \in StatePatch, o \in Origin : \E observed : CommitPatch(raw, o, observed)
  <2>1. [p EXCEPT !.base = None] \in StatePatch /\ origin \in Origin
    BY CallerPatchesTyped DEF Origin
  <2>. QED BY <1>3, <2>1 DEF ImportCommits
<1>4. ASSUME NEW w \in Worker, NEW p \in WorkerPatches, NEW stated \in BOOLEAN, WorkerCommits(w, p, stated)
      PROVE  \E raw \in StatePatch, origin \in Origin : \E observed : CommitPatch(raw, origin, observed)
  <2>1. Answer(w, p, stated) \in StatePatch /\ "worker" \in Origin
    BY <1>4, AnswerTyped, CallerPatchesTyped DEF WorkerCommits, Origin
  <2>. QED BY <1>4, <2>1 DEF WorkerCommits
<1>. QED
  BY <1>1, <1>2, <1>3, <1>4
  DEF Next, WorkerReads, WorkerRejected, WorkerFails, InsertEvent, PruneRawEvents, Tick, vars, store

\* What a commit writes: each row is what the patch makes of it, or as it was.
LEMMA RowsWritten ==
  ASSUME TypeInv, NEW raw \in StatePatch, NEW origin \in Origin, NEW observed,
         CommitPatch(raw, origin, observed), NEW p, p = Checked(raw, origin, observed)
  PROVE  /\ p \in StatePatch /\ IsMemory(items)
         /\ ValidatePatch(p, origin, version, items)
         /\ DOMAIN items' = DOMAIN items \cup AddedIds(p)
         /\ \A x \in DOMAIN items' : items'[x] = ApplyTo(p, items, x) \/ (x \in DOMAIN items /\ items'[x] = items[x])
         /\ edges' = ApplyEdges(p, edges)
         /\ log' = Append(log, [patch |-> p, origin |-> origin, base |-> version, new |-> version + 1])
         /\ log' # log /\ LastEntry = [patch |-> p, origin |-> origin, base |-> version, new |-> version + 1]
         /\ version' = version + 1
<1>1. p \in StatePatch
  BY CheckedTyped
<1>2. IsMemory(items)
  BY DEF TypeInv, TypeOK, FiniteStore, IsMemory
<1>3. /\ ValidatePatch(p, origin, version, items)
      /\ items' = Materialize(p)
      /\ edges' = ApplyEdges(p, edges)
      /\ log' = Append(log, [patch |-> p, origin |-> origin, base |-> version, new |-> version + 1])
      /\ version' = version + 1
  BY DEF CommitPatch
<1>4. DOMAIN items' = DOMAIN items \cup AddedIds(p)
  BY <1>1, <1>2, <1>3, ApplyPatchTyped DEF Materialize
<1>5. \A x \in DOMAIN items' :
        items'[x] = ApplyTo(p, items, x) \/ (x \in DOMAIN items /\ items'[x] = items[x])
  BY <1>3, <1>4, AddsAreDirty DEF Materialize, ApplyPatch
<1>6. log' # log /\ LastEntry = [patch |-> p, origin |-> origin, base |-> version, new |-> version + 1]
  <2>1. log \in Seq(LogEntry) /\ version \in Nat
    BY DEF TypeInv, TypeOK
  <2>2. [patch |-> p, origin |-> origin, base |-> version, new |-> version + 1] \in LogEntry
    BY <1>1, <2>1 DEF LogEntry
  <2>3. Len(log') = Len(log) + 1
    BY <1>3, <2>1, <2>2
  <2>. QED BY <1>3, <2>1, <2>2, <2>3 DEF LastEntry
<1>. QED BY <1>1, <1>2, <1>3, <1>4, <1>5, <1>6

\* One step keeps what is protected in force, or a person releases it.
LEMMA ProtectedKeptStep ==
  ASSUME TypeInv, [Next]_vars, NEW x \in DOMAIN items, items[x].status = "active", IsProtected(items[x])
  PROVE  ReleasedByAPerson(x) \/ (x \in DOMAIN items' /\ Kept(items[x], items'[x]))
<1>1. items[x].confidence >= items[x].confidence
  BY PatchAssumption DEF TypeInv, TypeOK, MemoryItem, Confidence
<1>2. CASE UNCHANGED store
  BY <1>1, <1>2 DEF store, Kept
<1>3. ASSUME NEW raw \in StatePatch, NEW origin \in Origin, NEW observed, CommitPatch(raw, origin, observed)
      PROVE  ReleasedByAPerson(x) \/ (x \in DOMAIN items' /\ Kept(items[x], items'[x]))
  <2>1. PICK p : p = Checked(raw, origin, observed)
    OBVIOUS
  <2>2. p \in StatePatch /\ IsMemory(items) /\ ValidatePatch(p, origin, version, items)
    BY <1>3, <2>1, RowsWritten
  <2>3. x \in DOMAIN items' /\ (items'[x] = ApplyTo(p, items, x) \/ items'[x] = items[x])
    BY <1>3, <2>1, RowsWritten
  <2>4. CASE x \in p.release \cap p.remove
    <3>1. origin \in {"user", "import"}
      BY <2>2, <2>4 DEF ValidatePatch, ReleaseAllowed
    <3>2. log' # log /\ LastEntry = [patch |-> p, origin |-> origin, base |-> version, new |-> version + 1]
      BY <1>3, <2>1, RowsWritten
    <3>. QED BY <2>4, <3>1, <3>2 DEF ReleasedByAPerson, Committed
  <2>5. CASE x \notin p.release \cap p.remove
    BY <1>1, <2>2, <2>3, <2>5, ProtectedItemKept DEF ValidatePatch, Kept
  <2>. QED BY <2>4, <2>5
<1>. QED BY <1>2, <1>3, CommitsOrKeeps

\* What the user marked critical stays in force: whatever the patches and however
\* late the answer, no commit weakens it, but a person's that releases it by name.
THEOREM ProtectionHolds == Spec => ProtectedKept
<1>1. TypeInv /\ [Next]_vars =>
        [\A x \in DOMAIN items :
           items[x].status = "active" /\ IsProtected(items[x])
             => ReleasedByAPerson(x) \/ (x \in DOMAIN items' /\ Kept(items[x], items'[x]))]_vars
  BY ProtectedKeptStep
<1>. QED BY <1>1, TypeInvInit, TypeInvStep, PTL DEF Spec, ProtectedKept

\* An empty store refers to nothing.
LEMMA ReferencesInit == Init => ReferencesResolve
BY DEF Init, ReferencesResolve

\* A commit refers to nothing but rows it leaves, and no step deletes a row.
LEMMA ReferencesStep == TypeInv /\ ReferencesResolve /\ [Next]_vars => ReferencesResolve'
<1> SUFFICES ASSUME TypeInv, ReferencesResolve, [Next]_vars
             PROVE  ReferencesResolve'
  OBVIOUS
<1>1. CASE UNCHANGED store
  BY <1>1 DEF store, ReferencesResolve, EdgeIsSound, LineageIsSound
<1>2. ASSUME NEW raw \in StatePatch, NEW origin \in Origin, NEW observed, CommitPatch(raw, origin, observed)
      PROVE  ReferencesResolve'
  <2>1. PICK p : p = Checked(raw, origin, observed)
    OBVIOUS
  <2>2. p \in StatePatch /\ IsMemory(items) /\ ValidatePatch(p, origin, version, items)
    BY <1>2, <2>1, RowsWritten
  <2>3. DOMAIN items' = DOMAIN items \cup AddedIds(p) /\ edges' = ApplyEdges(p, edges)
    BY <1>2, <2>1, RowsWritten
  <2>4. \A e \in edges' : EdgeIsSound(e)'
    <3>1. edges \in SUBSET MemoryEdge
      BY DEF TypeInv, TypeOK
    <3>2. \A e \in edges : /\ e.from # e.to /\ BothEndsIn(DOMAIN items, e)
                           /\ IsSymmetric(e.kind) => e.from < e.to
      BY DEF ReferencesResolve, EdgeIsSound, BothEndsIn
    <3>3. \A e \in ApplyEdges(p, edges) :
            /\ e.from # e.to /\ BothEndsIn(DOMAIN items \cup AddedIds(p), e)
            /\ IsSymmetric(e.kind) => e.from < e.to
      BY <2>2, <3>1, <3>2, EdgesStaySound DEF ValidatePatch
    <3>. QED BY <2>3, <3>3 DEF EdgeIsSound, BothEndsIn
  <2>5. \A x \in DOMAIN items' : LineageIsSound(x)'
    <3>1. TAKE x \in DOMAIN items'
    <3>2. \A y \in DOMAIN items :
            items[y].supersedes \cup ({items[y].supersededBy} \ {None}) \subseteq DOMAIN items
      BY DEF ReferencesResolve, LineageIsSound
    <3> DEFINE Ends(item) == item.supersedes \cup ({item.supersededBy} \ {None})
    <3>3. items'[x] = ApplyTo(p, items, x) \/ (x \in DOMAIN items /\ items'[x] = items[x])
      BY <1>2, <2>1, RowsWritten
    <3>4. Ends(ApplyTo(p, items, x)) \subseteq DOMAIN items'
      BY <2>2, <2>3, <3>2, LineageStaysSound DEF ValidatePatch
    <3>5. x \in DOMAIN items => Ends(items[x]) \subseteq DOMAIN items'
      BY <2>3, <3>2
    <3>6. Ends(items'[x]) \subseteq DOMAIN items'
      <4>. HIDE DEF Ends
      <4>. QED BY <3>3, <3>4, <3>5
    <3>. QED BY <3>6 DEF LineageIsSound
  <2>. QED BY <2>4, <2>5 DEF ReferencesResolve
<1>. QED BY <1>1, <1>2, CommitsOrKeeps

\* No edge and no lineage of any reachable store points at a row never written.
THEOREM NothingDangles == Spec => []ReferencesResolve
BY TypeInvInit, TypeInvStep, ReferencesInit, ReferencesStep, PTL DEF Spec

\* An empty log is linear.
LEMMA LinearInit == Init => LogIsLinear
BY DEF Init, LogIsLinear

\* A commit appends one entry, at the version the log had reached.
LEMMA LinearStep == TypeInv /\ LogIsLinear /\ [Next]_vars => LogIsLinear'
<1> SUFFICES ASSUME TypeInv, LogIsLinear, [Next]_vars
             PROVE  LogIsLinear'
  OBVIOUS
<1>1. CASE UNCHANGED store
  BY <1>1 DEF store, LogIsLinear
<1>2. ASSUME NEW raw \in StatePatch, NEW origin \in Origin, NEW observed, CommitPatch(raw, origin, observed)
      PROVE  LogIsLinear'
  <2>1. PICK p : p = Checked(raw, origin, observed)
    OBVIOUS
  <2> DEFINE entry == [patch |-> p, origin |-> origin, base |-> version, new |-> version + 1]
  <2>2. /\ p \in StatePatch /\ ValidatePatch(p, origin, version, items)
        /\ log' = Append(log, entry) /\ version' = version + 1
    BY <1>2, <2>1, RowsWritten
  <2>3. log \in Seq(LogEntry) /\ version \in Nat /\ version = Len(log) /\ entry \in LogEntry
    BY <2>2 DEF TypeInv, TypeOK, LogIsLinear, LogEntry
  <2>4. entry.base = version /\ entry.new = version + 1 /\ entry.patch.base \in {None, entry.base}
    BY <2>2 DEF ValidatePatch, VersionMatches
  <2>. HIDE DEF entry
  <2>5. Len(log') = Len(log) + 1 /\ \A i \in DOMAIN log' : log'[i] = IF i \in DOMAIN log THEN log[i] ELSE entry
    BY <2>2, <2>3
  <2>6. \A i \in DOMAIN log' : i \in DOMAIN log \/ i = version + 1
    BY <2>2, <2>3
  <2>7. version + 1 \notin DOMAIN log
    BY <2>3
  <2>8. \A i \in DOMAIN log' :
          /\ log'[i].base = i - 1 /\ log'[i].new = i
          /\ log'[i].patch.base \in {None, log'[i].base}
    BY <2>3, <2>4, <2>5, <2>6, <2>7 DEF LogIsLinear
  <2>. QED BY <2>2, <2>3, <2>5, <2>8 DEF LogIsLinear
<1>. QED BY <1>1, <1>2, CommitsOrKeeps

\* The versions of the log run without gap or fork, and a patch that names the
\* version it was built on was applied to that version.
THEOREM LogLinear == Spec => []LogIsLinear
BY TypeInvInit, TypeInvStep, LinearInit, LinearStep, PTL DEF Spec

-----------------------------------------------------------------------------
(* What a commit takes over from the patch it was given. *)

\* An add that gets past the checks of a commit nobody typed repeats nothing in
\* force unless it replaces something, and a worker's that claims to be the user's
\* cites a message of the user.
LEMMA CheckedAdds ==
  ASSUME TypeInv, NEW raw \in StatePatch, NEW origin \in Origin \ {"user"}, NEW observed,
         NEW p, p = Checked(raw, origin, observed), NEW i \in Entries(p.add)
  PROVE  /\ p.add[i].supersedes # {} \/ ActiveCopies(items, p.add[i]) = {}
         /\ origin = "worker" /\ p.add[i].source = "user" => CitesUserMessage(p.add[i])
<1>1. IsMemory(items)
  BY DEF TypeInv, TypeOK, FiniteStore, IsMemory
<1>2. PICK pruned : pruned = PruneInertOperations(NormalizePatch(raw), items)
  OBVIOUS
<1>3. pruned \in StatePatch
  BY <1>1, <1>2, NormalizeTyped, PruneTyped
<1>4. \A j \in Entries(pruned.add) : pruned.add[j].supersedes # {} \/ ActiveCopies(items, pruned.add[j]) = {}
  <2>1. PICK q \in StatePatch : q = NormalizePatch(raw)
    BY NormalizeTyped
  <2>2. pruned.add = [j \in DOMAIN q.add |->
                        IF j \in Entries(q.add) \ RedundantAdds(q, items) THEN q.add[j] ELSE None]
    BY <1>2, <2>1 DEF PruneInertOperations, StatePatch
  <2>3. \A j \in Entries(pruned.add) :
          j \in Entries(q.add) \ RedundantAdds(q, items) /\ pruned.add[j] = q.add[j]
    BY <2>2 DEF Entries
  <2>. QED BY <2>3 DEF RedundantAdds
<1>5. CASE origin # "worker"
  BY <1>2, <1>4, <1>5 DEF Checked
<1>6. CASE origin = "worker"
  <2>1. PICK verified : verified = VerifyUserProvenance(pruned).add
    OBVIOUS
  <2>2. p.add = verified
    BY <1>2, <1>3, <1>6, <2>1 DEF Checked, VerifyClosures, VerifyUserProvenance, StatePatch
  <2>3. verified = [j \in DOMAIN pruned.add |->
                      IF j \notin Entries(pruned.add) \/ pruned.add[j].source # "user" \/ CitesUserMessage(pruned.add[j])
                      THEN pruned.add[j]
                      ELSE [pruned.add[j] EXCEPT !.source = "agent", !.confidence = LowerOf(pruned.add[j].confidence, MaxInferred)]]
    BY <1>3, <2>1 DEF VerifyUserProvenance, StatePatch
  <2>4. i \in Entries(pruned.add)
    BY <2>2, <2>3 DEF Entries
  <2>5. pruned.add[i] \in AddItem
    BY <1>3, <2>4, PatchEntriesTyped
  <2>6. CASE pruned.add[i].source # "user" \/ CitesUserMessage(pruned.add[i])
    <3>1. p.add[i] = pruned.add[i]
      BY <2>2, <2>3, <2>4, <2>6 DEF Entries
    <3>. QED BY <1>4, <2>4, <2>6, <3>1
  <2>7. CASE ~(pruned.add[i].source # "user" \/ CitesUserMessage(pruned.add[i]))
    <3>1. p.add[i] = [pruned.add[i] EXCEPT !.source = "agent", !.confidence = LowerOf(pruned.add[i].confidence, MaxInferred)]
      BY <2>2, <2>3, <2>4, <2>7 DEF Entries
    <3>2. /\ p.add[i].source = "agent" /\ p.add[i].supersedes = pruned.add[i].supersedes
          /\ p.add[i].category = pruned.add[i].category /\ p.add[i].text = pruned.add[i].text
      BY <2>5, <3>1 DEF AddItem
    <3>3. ActiveCopies(items, p.add[i]) = ActiveCopies(items, pruned.add[i])
      BY <3>2 DEF ActiveCopies, SameText
    <3>. QED BY <1>4, <2>4, <3>2, <3>3
  <2>. QED BY <2>6, <2>7
<1>. QED BY <1>5, <1>6

\* A row that appears is the one an add of the committed patch makes.
LEMMA NewRows ==
  ASSUME TypeInv, NEW raw \in StatePatch, NEW origin \in Origin, NEW observed,
         CommitPatch(raw, origin, observed), NEW p, p = Checked(raw, origin, observed),
         NEW x \in DOMAIN items' \ DOMAIN items
  PROVE  \E i \in Entries(p.add) :
           /\ p.add[i].id = x /\ \A j \in Entries(p.add) : p.add[j].id = x => j = i
           /\ items'[x].category = p.add[i].category
           /\ items'[x].source = p.add[i].source
           /\ p.add[i].evidence \subseteq items'[x].evidence
           /\ p.add[i].supersedes \subseteq items'[x].supersedes
<1>1. /\ p \in StatePatch /\ IsMemory(items) /\ AddsAreNew(p, items)
      /\ x \in AddedIds(p) /\ items'[x] = ApplyTo(p, items, x)
  BY RowsWritten DEF ValidatePatch
<1>2. AddOf(p, x) \in Entries(p.add) /\ p.add[AddOf(p, x)].id = x
  BY <1>1 DEF AddedIds, AddOf
<1>3. \A j \in Entries(p.add) : p.add[j].id = x => j = AddOf(p, x)
  BY <1>1, <1>2 DEF AddsAreNew
<1>. QED BY <1>1, <1>2, <1>3, AddedItemKeeps

\* A step that commits appends the patch it checked, under the origin it came from.
LEMMA CommittedPatch ==
  ASSUME TypeInv, [Next]_vars, Committed
  PROVE  \E raw \in StatePatch, origin \in Origin : \E observed, p :
           /\ CommitPatch(raw, origin, observed) /\ p = Checked(raw, origin, observed)
           /\ LastEntry.patch = p /\ LastEntry.origin = origin
<1>1. PICK raw \in StatePatch, origin \in Origin : \E observed : CommitPatch(raw, origin, observed)
  BY CommitsOrKeeps DEF Committed, store
<1>2. PICK observed : CommitPatch(raw, origin, observed)
  BY <1>1
<1>3. PICK p : p = Checked(raw, origin, observed)
  OBVIOUS
<1>4. LastEntry = [patch |-> p, origin |-> origin, base |-> version, new |-> version + 1]
  BY <1>2, <1>3, RowsWritten
<1>. QED BY <1>2, <1>3, <1>4

\* A commit no person made repeats nothing that is in force.
LEMMA NoEchoStep ==
  ASSUME TypeInv, [Next]_vars, Committed, LastEntry.origin # "user",
         NEW x \in DOMAIN items' \ DOMAIN items, NEW y \in DOMAIN items,
         items[y].status = "active", items'[x].category = items[y].category,
         NEW i \in Entries(LastEntry.patch.add),
         LastEntry.patch.add[i].id = x, LastEntry.patch.add[i].text = items[y].text
  PROVE  items'[x].supersedes # {}
<1>1. PICK raw \in StatePatch, origin \in Origin : \E observed, p :
        /\ CommitPatch(raw, origin, observed) /\ p = Checked(raw, origin, observed)
        /\ LastEntry.patch = p /\ LastEntry.origin = origin
  BY CommittedPatch
<1>2. PICK observed, p :
        /\ CommitPatch(raw, origin, observed) /\ p = Checked(raw, origin, observed)
        /\ LastEntry.patch = p /\ LastEntry.origin = origin
  BY <1>1
<1>3. origin \in Origin \ {"user"}
  BY <1>2
<1>4. PICK j \in Entries(p.add) :
        /\ p.add[j].id = x /\ \A k \in Entries(p.add) : p.add[k].id = x => k = j
        /\ items'[x].category = p.add[j].category
        /\ p.add[j].supersedes \subseteq items'[x].supersedes
  BY <1>2, NewRows
<1>5. i = j
  BY <1>2, <1>4
<1>6. y \in ActiveCopies(items, p.add[j])
  BY <1>2, <1>4, <1>5 DEF ActiveCopies, SameText
<1>7. p.add[j].supersedes # {}
  <2>1. p.add[j].supersedes # {} \/ ActiveCopies(items, p.add[j]) = {}
    BY <1>2, <1>3, CheckedAdds
  <2>. QED BY <1>6, <2>1
<1>. QED BY <1>4, <1>7

\* Whatever the workers read and however their runs interleave, what a worker, a fold
\* or an import adds never repeats an item in force unless it replaces one.
THEOREM NothingEchoes == Spec => NoEcho
<1>1. TypeInv /\ [Next]_vars =>
        [Committed /\ LastEntry.origin # "user" =>
           \A x \in DOMAIN items' \ DOMAIN items, y \in DOMAIN items :
             /\ items'[x].status = "active" /\ items[y].status = "active"
             /\ items'[x].category = items[y].category
             /\ \E i \in Entries(LastEntry.patch.add) :
                  LastEntry.patch.add[i].id = x /\ LastEntry.patch.add[i].text = items[y].text
             => items'[x].supersedes # {}]_vars
  BY NoEchoStep
<1>. QED BY <1>1, TypeInvInit, TypeInvStep, PTL DEF Spec, NoEcho

\* A worker's commit adds as the user's only what a message of the user says.
LEMMA UserClaimsStep ==
  ASSUME TypeInv, [Next]_vars, WorkerCommitted,
         NEW x \in DOMAIN items' \ DOMAIN items, items'[x].source = "user"
  PROVE  \E e \in items'[x].evidence \cap DOMAIN events : events[e].user
<1>1. PICK raw \in StatePatch, origin \in Origin : \E observed, p :
        /\ CommitPatch(raw, origin, observed) /\ p = Checked(raw, origin, observed)
        /\ LastEntry.patch = p /\ LastEntry.origin = origin
  BY CommittedPatch DEF WorkerCommitted
<1>2. PICK observed, p :
        /\ CommitPatch(raw, origin, observed) /\ p = Checked(raw, origin, observed)
        /\ LastEntry.patch = p /\ LastEntry.origin = origin
  BY <1>1
<1>3. origin = "worker" /\ origin \in Origin \ {"user"}
  BY <1>2 DEF WorkerCommitted, Origin
<1>4. PICK j \in Entries(p.add) :
        items'[x].source = p.add[j].source /\ p.add[j].evidence \subseteq items'[x].evidence
  BY <1>2, NewRows
<1>5. CitesUserMessage(p.add[j])
  BY <1>2, <1>3, <1>4, CheckedAdds
<1>. QED BY <1>4, <1>5 DEF CitesUserMessage

\* A worker cannot make its own words the user's, whatever it answers and whenever.
THEOREM UserClaimsHold == Spec => UserClaimsAreCited
<1>1. TypeInv /\ [Next]_vars =>
        [WorkerCommitted =>
           \A x \in DOMAIN items' \ DOMAIN items :
             items'[x].source = "user" =>
               \E e \in items'[x].evidence \cap DOMAIN events : events[e].user]_vars
  BY UserClaimsStep
<1>. QED BY <1>1, TypeInvInit, TypeInvStep, PTL DEF Spec, UserClaimsAreCited

-----------------------------------------------------------------------------
(* A task set by hand.  The events a run read were stored with timestamps   *)
(* no later than the clock, so the newest of them is no later than the      *)
(* instant the run read it.                                                 *)

ReadsArePast ==
  /\ \A e \in DOMAIN events : events[e].at <= clock
  /\ \A w \in Worker : worker[w] # Idle /\ worker[w].observed # None => worker[w].observed <= worker[w].readAt

\* Nothing is stored or read at first.
LEMMA ReadsInit == Init => ReadsArePast
BY DEF Init, ReadsArePast

\* Events are stored with past timestamps and the clock never goes back.
LEMMA ReadsStep == TypeInv /\ ReadsArePast /\ [Next]_vars => ReadsArePast'
<1> SUFFICES ASSUME TypeInv, ReadsArePast, [Next]_vars
             PROVE  ReadsArePast'
  OBVIOUS
<1> USE DEF ReadsArePast
<1>1. /\ clock \in Nat /\ \A e \in DOMAIN events : events[e].at \in Nat
      /\ \A w \in Worker : worker[w] \in {Idle} \cup Asking
  BY DEF TypeInv, TypeOK, Event
<1>2. ASSUME NEW p \in UserPatches, UserCommits(p)
      PROVE  ReadsArePast'
  BY <1>2 DEF UserCommits
<1>3. ASSUME NEW p \in FoldPatches, FoldCommits(p)
      PROVE  ReadsArePast'
  BY <1>3 DEF FoldCommits
<1>4. ASSUME NEW p \in ImportPatches, NEW origin \in {"user", "import"}, NEW force \in BOOLEAN, ImportCommits(p, origin, force)
      PROVE  ReadsArePast'
  BY <1>4 DEF ImportCommits
<1>5. ASSUME NEW w \in Worker, NEW task \in WorkerTasks, NEW batch \in SUBSET EventId, WorkerReads(w, task, batch)
      PROVE  ReadsArePast'
  <2>1. PICK observed : observed = IF batch = {} THEN None ELSE Newest(batch)
    OBVIOUS
  <2>2. observed # None => observed <= clock
    <3>1. batch # {} => Newest(batch) \in {events[e].at : e \in batch}
      BY <1>5, NewestIsRead DEF WorkerReads
    <3>. QED BY <1>5, <2>1, <3>1 DEF WorkerReads
  <2>3. worker' = [worker EXCEPT ![w] =
           [phase |-> "asking", pass |-> 1, version |-> version, observed |-> observed, readAt |-> clock]]
    BY <1>5, <2>1 DEF WorkerReads
  <2>4. worker'[w].observed = observed /\ worker'[w].readAt = clock /\ \A v \in Worker \ {w} : worker'[v] = worker[v]
    BY <2>3 DEF TypeInv, TypeOK
  <2>. QED BY <1>5, <2>2, <2>4 DEF WorkerReads
<1>6. ASSUME NEW w \in Worker, NEW p \in WorkerPatches, NEW stated \in BOOLEAN, WorkerCommits(w, p, stated)
      PROVE  ReadsArePast'
  BY <1>6 DEF WorkerCommits, TypeInv, TypeOK
<1>7. ASSUME NEW w \in Worker, NEW p \in WorkerPatches, NEW stated \in BOOLEAN, WorkerRejected(w, p, stated)
      PROVE  ReadsArePast'
  <2>1. worker[w] \in Asking
    BY <1>1, <1>7 DEF WorkerRejected
  <2>2. \/ worker' = [worker EXCEPT ![w] = Idle]
        \/ worker' = [worker EXCEPT ![w] = [worker[w] EXCEPT !.pass = 2]]
    BY <1>7 DEF WorkerRejected
  <2>3. [worker[w] EXCEPT !.pass = 2].observed = worker[w].observed /\ [worker[w] EXCEPT !.pass = 2].readAt = worker[w].readAt
    BY <2>1 DEF Asking
  <2>4. \A v \in Worker \ {w} : worker'[v] = worker[v]
    BY <2>2 DEF TypeInv, TypeOK
  <2>5. worker'[w] # Idle => worker[w] # Idle /\ worker'[w].observed = worker[w].observed /\ worker'[w].readAt = worker[w].readAt
    BY <1>7, <2>2, <2>3 DEF TypeInv, TypeOK, WorkerRejected
  <2>. QED BY <1>7, <2>4, <2>5 DEF WorkerRejected
<1>8. ASSUME NEW w \in Worker, WorkerFails(w)
      PROVE  ReadsArePast'
  BY <1>8 DEF WorkerFails, TypeInv, TypeOK
<1>9. ASSUME NEW e \in EventId, NEW user \in BOOLEAN, NEW at \in 0 .. MaxClock, InsertEvent(e, user, at)
      PROVE  ReadsArePast'
  BY <1>9 DEF InsertEvent, store
<1>10. ASSUME NEW cutoff \in 0 .. MaxClock, PruneRawEvents(cutoff)
       PROVE  ReadsArePast'
  BY <1>10 DEF PruneRawEvents, Restrict, store
<1>11. ASSUME Tick
       PROVE  ReadsArePast'
  BY <1>1, <1>11 DEF Tick, store
<1>12. CASE UNCHANGED vars
  BY <1>12 DEF vars
<1>. QED BY <1>2, <1>3, <1>4, <1>5, <1>6, <1>7, <1>8, <1>9, <1>10, <1>11, <1>12 DEF Next

\* A run that read events writes the task only if none was set by hand after it read.
LEMMA HandSetStep ==
  ASSUME TypeInv, ReadsArePast, [Next]_vars, NEW w \in Worker, worker[w] # Idle, worker[w].observed # None,
         WorkerCommitted, worker'[w] # worker[w], working' # working
  PROVE  handAt = None \/ handAt <= worker[w].readAt
<1>1. PICK v \in Worker, p \in WorkerPatches, stated \in BOOLEAN : WorkerCommits(v, p, stated)
  BY DEF Next, UserCommits, FoldCommits, ImportCommits, WorkerReads, WorkerRejected, WorkerFails,
         InsertEvent, PruneRawEvents, Tick, vars, store, WorkerCommitted, Committed
<1>2. v = w
  BY <1>1 DEF WorkerCommits, TypeInv, TypeOK
<1>3. CommitPatch(Answer(w, p, stated), "worker", worker[w].observed)
  BY <1>1, <1>2 DEF WorkerCommits
<1>4. Checked(Answer(w, p, stated), "worker", worker[w].observed).working # None
  BY <1>3 DEF CommitPatch
<1>5. Checked(Answer(w, p, stated), "worker", worker[w].observed) \in StatePatch
  BY CheckedTyped, AnswerTyped, StoreAssumption
<1>6. ~StaleWorking(worker[w].observed)
  <2>1. PICK pruned \in StatePatch : pruned = PruneInertOperations(NormalizePatch(Answer(w, p, stated)), items)
    <3>1. Answer(w, p, stated) \in StatePatch
      BY AnswerTyped, StoreAssumption
    <3>. QED BY <3>1, NormalizeTyped, PruneTyped DEF TypeInv, TypeOK, FiniteStore, IsMemory
  <2>2. StaleWorking(worker[w].observed) =>
          Checked(Answer(w, p, stated), "worker", worker[w].observed).working = None
    BY <2>1 DEF Checked, VerifyClosures, VerifyUserProvenance, StatePatch
  <2>. QED BY <1>4, <2>2
<1>7. worker[w].observed <= worker[w].readAt
  BY DEF ReadsArePast
<1>8. worker[w].observed \in Nat /\ worker[w].readAt \in Nat /\ (handAt # None => handAt \in Nat)
  BY DEF TypeInv, TypeOK, Asking, Maybe
<1>. QED BY <1>6, <1>7, <1>8 DEF StaleWorking

\* A task set by hand while a run over events was asking survives that run's answer.
THEOREM HandSetTaskHolds == Spec => HandSetTaskSurvives
<1>1. TypeInv /\ ReadsArePast /\ [Next]_vars =>
        [\A w \in Worker :
           worker[w] # Idle /\ worker[w].observed # None /\ WorkerCommitted /\ worker'[w] # worker[w] /\ working' # working
             => handAt = None \/ handAt <= worker[w].readAt]_vars
  BY HandSetStep
<1>. QED BY <1>1, TypeInvInit, TypeInvStep, ReadsInit, ReadsStep, PTL DEF Spec, HandSetTaskSurvives

-----------------------------------------------------------------------------
(* Replay.  No stage of applyPatch reads what an item replaced, and a row   *)
(* the commit leaves unwritten differs from what the patch makes of it in   *)
(* that list only, so the tables and the fold of the log never part         *)
(* further than that.                                                       *)

\* Two items that differ at most in what they replaced.
SameButLineage(a, b) == [a EXCEPT !.supersedes = {}] = [b EXCEPT !.supersedes = {}]
Alike(a, b) ==
  /\ a.category = b.category /\ a.text = b.text /\ a.importance = b.importance
  /\ a.confidence = b.confidence /\ a.status = b.status /\ a.source = b.source
  /\ a.evidence = b.evidence /\ a.ttl = b.ttl /\ a.closed = b.closed
  /\ a.supersededBy = b.supersededBy

\* Field by field, that is to agree on all the others.
LEMMA AlikeIsSame ==
  ASSUME NEW a \in MemoryItem, NEW b \in MemoryItem
  PROVE  SameButLineage(a, b) <=> Alike(a, b)
<1>1. ASSUME SameButLineage(a, b)
      PROVE  Alike(a, b)
  <2>1. \A i \in MemoryItem : Alike([i EXCEPT !.supersedes = {}], i)
    BY DEF MemoryItem, Alike
  <2>. QED BY <1>1, <2>1 DEF SameButLineage, Alike
<1>2. ASSUME Alike(a, b)
      PROVE  SameButLineage(a, b)
  BY <1>2 DEF SameButLineage, Alike, MemoryItem
<1>. QED BY <1>1, <1>2

\* Two memories are the same up to lineage when their items are, id by id.
LEMMA SameMemories ==
  ASSUME NEW a, IsMemory(a), NEW b, IsMemory(b)
  PROVE  WithoutLineage(a) = WithoutLineage(b)
           <=> DOMAIN a = DOMAIN b /\ \A x \in DOMAIN a : Alike(a[x], b[x])
<1>1. ASSUME WithoutLineage(a) = WithoutLineage(b)
      PROVE  DOMAIN a = DOMAIN b /\ \A x \in DOMAIN a : SameButLineage(a[x], b[x])
  <2>1. DOMAIN WithoutLineage(a) = DOMAIN a /\ DOMAIN WithoutLineage(b) = DOMAIN b
    BY DEF WithoutLineage
  <2>2. \A x \in DOMAIN a : WithoutLineage(a)[x] = [a[x] EXCEPT !.supersedes = {}]
    BY DEF WithoutLineage
  <2>3. \A x \in DOMAIN b : WithoutLineage(b)[x] = [b[x] EXCEPT !.supersedes = {}]
    BY DEF WithoutLineage
  <2>. QED BY <1>1, <2>1, <2>2, <2>3 DEF SameButLineage
<1>2. ASSUME DOMAIN a = DOMAIN b, \A x \in DOMAIN a : SameButLineage(a[x], b[x])
      PROVE  WithoutLineage(a) = WithoutLineage(b)
  BY <1>2 DEF WithoutLineage, SameButLineage
<1>3. DOMAIN a = DOMAIN b => \A x \in DOMAIN a : SameButLineage(a[x], b[x]) <=> Alike(a[x], b[x])
  BY AlikeIsSame DEF IsMemory
<1>. QED BY <1>1, <1>2, <1>3

\* An item the adds make or retire is the same up to lineage in both.
LEMMA AddAlike ==
  ASSUME NEW p \in StatePatch, NEW a, IsMemory(a), NEW b, IsMemory(b), DOMAIN a = DOMAIN b,
         \A y \in DOMAIN a : Alike(a[y], b[y]), NEW x \in DOMAIN a \cup AddedIds(p)
  PROVE  Alike(AfterAdd(p, a, x), AfterAdd(p, b, x))
<1> DEFINE old(mem) == IF x \in DOMAIN mem THEN mem[x] ELSE NewItem(p.add[AddOf(p, x)])
           retiring == RetiringAdds(p, a, x)
           retired(item) == [item EXCEPT !.status = "superseded", !.supersededBy = p.add[LastOf(retiring)].id]
<1>1. retiring = RetiringAdds(p, b, x)
  BY DEF RetiringAdds
<1>2. old(a) \in MemoryItem /\ old(b) \in MemoryItem
  BY AddOfTyped, NewItemTyped DEF IsMemory
<1>3. Alike(old(a), old(b))
  BY DEF Alike
<1>4. IsProtected(old(a)) <=> IsProtected(old(b))
  BY <1>3 DEF Alike, IsProtected
<1>5. Alike(retired(old(a)), retired(old(b)))
  <2>. HIDE DEF old, retiring
  <2>. QED BY <1>2, <1>3 DEF Alike, MemoryItem
<1>6. /\ AfterAdd(p, a, x) = IF retiring = {} \/ IsProtected(old(a)) THEN old(a) ELSE retired(old(a))
      /\ AfterAdd(p, b, x) = IF retiring = {} \/ IsProtected(old(b)) THEN old(b) ELSE retired(old(b))
  BY <1>1 DEF AfterAdd
<1>. HIDE DEF old, retiring, retired
<1>. QED BY <1>3, <1>4, <1>5, <1>6

\* Nor do the later stages tell such items apart.
LEMMA StagesAlike ==
  ASSUME NEW p \in StatePatch, NEW x, NEW a \in MemoryItem, NEW b \in MemoryItem, Alike(a, b)
  PROVE  /\ Alike(AfterUpdate(p, x, a), AfterUpdate(p, x, b))
         /\ Alike(AfterRemove(p, x, a), AfterRemove(p, x, b))
         /\ Alike(AfterSupersede(p, x, a), AfterSupersede(p, x, b))
         /\ Alike(AfterClose(p, x, a), AfterClose(p, x, b))
         /\ Alike(AfterReopen(p, x, a), AfterReopen(p, x, b))
<1>1. Alike(AfterUpdate(p, x, a), AfterUpdate(p, x, b))
  BY DEF AfterUpdate, Alike, MemoryItem
<1>2. Alike(AfterRemove(p, x, a), AfterRemove(p, x, b))
  BY DEF AfterRemove, Alike, MemoryItem
<1>3. Alike(AfterSupersede(p, x, a), AfterSupersede(p, x, b))
  BY DEF AfterSupersede, Alike, MemoryItem
<1>4. Alike(AfterClose(p, x, a), AfterClose(p, x, b))
  BY DEF AfterClose, Alike, MemoryItem
<1>5. Alike(AfterReopen(p, x, a), AfterReopen(p, x, b))
  BY DEF AfterReopen, Alike, MemoryItem
<1>. QED BY <1>1, <1>2, <1>3, <1>4, <1>5

\* applyPatch on two memories alike leaves them alike.
LEMMA ApplyAlike ==
  ASSUME NEW p \in StatePatch, NEW a, IsMemory(a), NEW b, IsMemory(b), DOMAIN a = DOMAIN b,
         \A y \in DOMAIN a : Alike(a[y], b[y]), NEW x \in DOMAIN a \cup AddedIds(p)
  PROVE  Alike(ApplyTo(p, a, x), ApplyTo(p, b, x))
<1> DEFINE Pair(i, j) == i \in MemoryItem /\ j \in MemoryItem /\ Alike(i, j)
<1>1. Pair(AfterAdd(p, a, x), AfterAdd(p, b, x))
  BY AddAlike, AfterAddTyped
<1>2. \A i, j : Pair(i, j) => Pair(AfterUpdate(p, x, i), AfterUpdate(p, x, j))
  BY StagesAlike, AfterUpdateTyped
<1>3. \A i, j : Pair(i, j) => Pair(AfterRemove(p, x, i), AfterRemove(p, x, j))
  <2>1. \A item \in MemoryItem : AfterRemove(p, x, item) \in MemoryItem
    BY DEF AfterRemove, MemoryItem, Status
  <2>. QED BY <2>1, StagesAlike
<1>4. \A i, j : Pair(i, j) => Pair(AfterSupersede(p, x, i), AfterSupersede(p, x, j))
  BY StagesAlike, AfterSupersedeTyped
<1>5. \A i, j : Pair(i, j) => Pair(AfterClose(p, x, i), AfterClose(p, x, j))
  BY StagesAlike, AfterCloseTyped
<1>6. \A i, j : Pair(i, j) => Alike(AfterReopen(p, x, i), AfterReopen(p, x, j))
  BY StagesAlike
<1>7. Alike(ApplyTo(p, a, x), ApplyTo(p, b, x))
  <2>. HIDE DEF Pair
  <2>. QED BY <1>1, <1>2, <1>3, <1>4, <1>5, <1>6 DEF ApplyTo
<1>. QED BY <1>7

\* A row a patch does not report is as it was, but for what it replaced.
LEMMA CleanAlike ==
  ASSUME NEW p \in StatePatch, NEW mem, IsMemory(mem), NEW x \in DOMAIN mem, x \notin Dirty(p, mem)
  PROVE  Alike(ApplyTo(p, mem, x), mem[x])
<1>1. mem[x] \in MemoryItem
  BY DEF IsMemory
<1>2. AfterAdd(p, mem, x) = mem[x]
  <2>1. RetiringAdds(p, mem, x) = {} \/ IsProtected(mem[x])
    BY DEF Dirty, RetiringAdds, AddSupersededIds
  <2>. QED BY <2>1 DEF AfterAdd
<1>3. Alike(AfterUpdate(p, x, mem[x]), mem[x])
  <2>1. \A i \in Entries(p.update) : p.update[i].id # x
    BY DEF Dirty, UpdatedIds
  <2>2. \A field, old : Written(p, x, field, old) = old
    BY <2>1 DEF Written
  <2>3. UNION {p.update[i].evidence : i \in {j \in Entries(p.update) : p.update[j].id = x}} = {}
    BY <2>1
  <2>. QED BY <1>1, <2>2, <2>3 DEF AfterUpdate, Alike, MemoryItem
<1>4. \A item : AfterRemove(p, x, item) = item
  BY DEF AfterRemove, Dirty
<1>5. \A item \in MemoryItem : Alike(AfterSupersede(p, x, item), item)
  <2>1. {i \in Entries(p.supersede) : p.supersede[i].id = x} = {}
    BY DEF Dirty, RetiredIds
  <2>. QED BY <2>1 DEF AfterSupersede, Alike, MemoryItem
<1>6. \A item : AfterClose(p, x, item) = item /\ AfterReopen(p, x, item) = item
  BY DEF AfterClose, AfterReopen, Dirty
<1>7. ApplyTo(p, mem, x) = AfterSupersede(p, x, AfterUpdate(p, x, mem[x]))
  BY <1>2, <1>4, <1>6 DEF ApplyTo
<1>8. AfterUpdate(p, x, mem[x]) \in MemoryItem
  BY <1>1, AfterUpdateTyped
<1>9. Alike(AfterSupersede(p, x, AfterUpdate(p, x, mem[x])), AfterUpdate(p, x, mem[x]))
  BY <1>5, <1>8
<1>. QED BY <1>3, <1>7, <1>9 DEF Alike

\* What the patch makes of the folded memory is what the commit leaves in the
\* tables, up to lineage, if the two were so before.
LEMMA MaterializeAlike ==
  ASSUME TypeInv, NEW p \in StatePatch, NEW mem, IsMemory(mem),
         WithoutLineage(mem) = WithoutLineage(items), items' = Materialize(p), IsMemory(items')
  PROVE  /\ IsMemory(ApplyPatch(p, mem))
         /\ WithoutLineage(ApplyPatch(p, mem)) = WithoutLineage(items')
<1>1. IsMemory(items)
  BY DEF TypeInv, TypeOK, FiniteStore, IsMemory
<1>2. DOMAIN mem = DOMAIN items /\ \A x \in DOMAIN mem : Alike(mem[x], items[x])
  BY <1>1, SameMemories
<1>3. /\ IsMemory(ApplyPatch(p, mem))
      /\ DOMAIN ApplyPatch(p, mem) = DOMAIN mem \cup AddedIds(p)
      /\ DOMAIN items' = DOMAIN mem \cup AddedIds(p)
  BY <1>1, <1>2, ApplyPatchTyped DEF Materialize
<1>4. ASSUME NEW x \in DOMAIN mem \cup AddedIds(p)
      PROVE  Alike(ApplyTo(p, mem, x), items'[x])
  <2>1. Alike(ApplyTo(p, mem, x), ApplyTo(p, items, x))
    BY <1>1, <1>2, ApplyAlike
  <2>2. CASE x \in Dirty(p, items)
    BY <1>2, <2>1, <2>2 DEF Materialize, ApplyPatch
  <2>3. CASE x \notin Dirty(p, items)
    <3>1. x \in DOMAIN items
      BY <1>2, <2>3, AddsAreDirty
    <3>2. Alike(ApplyTo(p, items, x), items[x])
      BY <1>1, <2>3, <3>1, CleanAlike
    <3>3. items'[x] = items[x]
      BY <1>2, <2>3 DEF Materialize, ApplyPatch
    <3>. QED BY <2>1, <3>2, <3>3 DEF Alike
  <2>. QED BY <2>2, <2>3
<1>5. \A x \in DOMAIN ApplyPatch(p, mem) : Alike(ApplyPatch(p, mem)[x], items'[x])
  BY <1>3, <1>4 DEF ApplyPatch
<1>. QED BY <1>3, <1>5, SameMemories

\* One entry of the log, on the memory and the task before it.
Fold(entry, state) ==
  [items |-> ApplyPatch(entry.patch, state.items),
   working |-> IF entry.patch.working = None THEN state.working ELSE entry.patch.working]

\* f is the sequence of states the entries fold to.
IsFold(entries, f) ==
  f = [n \in 0 .. Len(entries) |->
         IF n = 0 THEN [items |-> <<>>, working |-> None] ELSE Fold(entries[n], f[n - 1])]

\* The fold is defined as the one there is.
LEMMA ReplayedIsChosen ==
  ASSUME NEW entries
  PROVE  Replayed(entries) = CHOOSE f : IsFold(entries, f)
BY DEF Replayed, IsFold, Fold

\* A log folds to one sequence of states only: two that differ would differ at a
\* first entry, with the same state before it.
LEMMA FoldIsUnique ==
  ASSUME NEW entries \in Seq(LogEntry), NEW f, NEW g, IsFold(entries, f), IsFold(entries, g)
  PROVE  f = g
<1> DEFINE Differ == {n \in 0 .. Len(entries) : f[n] # g[n]}
<1>1. /\ f = [n \in 0 .. Len(entries) |-> f[n]] /\ g = [n \in 0 .. Len(entries) |-> g[n]]
  BY DEF IsFold
<1>2. ASSUME Differ # {}
      PROVE  FALSE
  <2>1. Len(entries) \in Nat
    OBVIOUS
  <2>2. PICK m \in Differ : \A n \in Differ : m <= n
    <3>1. Differ \in SUBSET Nat
      BY <2>1
    <3>. HIDE DEF Differ
    <3>. QED BY <1>2, <3>1, Least
  <2>3. m # 0
    BY <2>2 DEF IsFold
  <2>4. m - 1 \in 0 .. Len(entries) /\ f[m - 1] = g[m - 1]
    BY <2>1, <2>2, <2>3
  <2>5. f[m] = Fold(entries[m], f[m - 1]) /\ g[m] = Fold(entries[m], g[m - 1])
    BY <2>2, <2>3 DEF IsFold
  <2>. QED BY <2>2, <2>4, <2>5
<1>. QED BY <1>1, <1>2

\* An entry appended adds one state and changes none of those before.
LEMMA FoldGrows ==
  ASSUME NEW entries \in Seq(LogEntry), NEW entry \in LogEntry, IsFold(entries, Replayed(entries))
  PROVE  /\ IsFold(Append(entries, entry), Replayed(Append(entries, entry)))
         /\ \A n \in 0 .. Len(entries) : Replayed(Append(entries, entry))[n] = Replayed(entries)[n]
         /\ Replayed(Append(entries, entry))[Len(entries) + 1] = Fold(entry, Replayed(entries)[Len(entries)])
<1> DEFINE f == Replayed(entries)
           grown == Append(entries, entry)
           g == [n \in 0 .. Len(entries) + 1 |-> IF n <= Len(entries) THEN f[n] ELSE Fold(entry, f[Len(entries)])]
<1>1. /\ grown \in Seq(LogEntry) /\ Len(grown) = Len(entries) + 1 /\ Len(entries) \in Nat
      /\ grown[Len(entries) + 1] = entry
      /\ \A n \in 1 .. Len(entries) : grown[n] = entries[n]
  OBVIOUS
<1>2. IsFold(grown, g)
  <2>. HIDE DEF f, grown
  <2>1. f[0] = [items |-> <<>>, working |-> None]
    BY <1>1 DEF IsFold, f
  <2>2. \A n \in 1 .. Len(entries) : f[n] = Fold(entries[n], f[n - 1])
    BY <1>1 DEF IsFold, f
  <2>3. g[0] = [items |-> <<>>, working |-> None]
    BY <1>1, <2>1
  <2>4. ASSUME NEW n \in 1 .. Len(entries)
        PROVE  g[n] = Fold(grown[n], g[n - 1])
    BY <1>1, <2>2
  <2>5. g[Len(entries) + 1] = Fold(grown[Len(entries) + 1], g[Len(entries)])
    BY <1>1
  <2>6. ASSUME NEW n \in 0 .. Len(grown)
        PROVE  g[n] = IF n = 0 THEN [items |-> <<>>, working |-> None] ELSE Fold(grown[n], g[n - 1])
    <3>1. n = 0 \/ n \in 1 .. Len(entries) \/ n = Len(entries) + 1
      BY <1>1
    <3>2. Len(entries) + 1 - 1 = Len(entries)
      BY <1>1
    <3>. HIDE DEF g
    <3>3. CASE n = 0
      BY <2>3, <3>3
    <3>4. CASE n \in 1 .. Len(entries)
      BY <1>1, <2>4, <3>4
    <3>5. CASE n = Len(entries) + 1
      BY <1>1, <2>5, <3>2, <3>5
    <3>. QED BY <3>1, <3>3, <3>4, <3>5
  <2>7. g = [n \in 0 .. Len(grown) |-> g[n]]
    BY <1>1
  <2>. HIDE DEF g
  <2>. QED BY <2>6, <2>7 DEF IsFold
<1>3. IsFold(grown, Replayed(grown))
  <2>. HIDE DEF g, grown
  <2>. QED BY <1>2, ReplayedIsChosen
<1>4. Replayed(grown) = g
  <2>. HIDE DEF g, grown
  <2>. QED BY <1>1, <1>2, <1>3, FoldIsUnique
<1>5. \A n \in 0 .. Len(entries) : g[n] = f[n]
  BY <1>1
<1>6. g[Len(entries) + 1] = Fold(entry, f[Len(entries)])
  BY <1>1
<1>. QED
  <2>. HIDE DEF g
  <2>. QED BY <1>3, <1>4, <1>5, <1>6

\* The inductive invariant: the fold of the log is defined, a memory, and what the
\* tables hold.
ReplayInv ==
  /\ IsFold(log, Replayed(log))
  /\ IsMemory(Replay.items)
  /\ ReplayMatches

\* An empty log folds to an empty memory.
LEMMA ReplayInit == Init => ReplayInv
<1> SUFFICES ASSUME Init
             PROVE  ReplayInv
  OBVIOUS
<1> DEFINE f == [n \in 0 .. 0 |-> [items |-> <<>>, working |-> None]]
<1>1. log = <<>> /\ Len(log) = 0
  BY DEF Init
<1>2. IsFold(log, f)
  BY <1>1 DEF IsFold
<1>3. IsFold(log, Replayed(log))
  <2>. HIDE DEF f
  <2>. QED BY <1>2, ReplayedIsChosen
<1>4. Replay = [items |-> <<>>, working |-> None]
  BY <1>1, <1>3 DEF IsFold, Replay
<1>5. IsMemory(Replay.items)
  BY <1>4, FS_EmptySet DEF IsMemory
<1>6. ReplayMatches
  BY <1>1, <1>4 DEF Init, ReplayMatches
<1>. QED BY <1>3, <1>5, <1>6 DEF ReplayInv

\* A commit keeps the tables and the fold of the log together.
LEMMA ReplayStep == TypeInv /\ TypeInv' /\ ReplayInv /\ [Next]_vars => ReplayInv'
<1> SUFFICES ASSUME TypeInv, TypeInv', ReplayInv, [Next]_vars
             PROVE  ReplayInv'
  OBVIOUS
<1>1. CASE UNCHANGED store
  <2>1. log' = log /\ items' = items /\ working' = working /\ version' = version
    BY <1>1 DEF store
  <2>2. Replayed(log)' = Replayed(log)
    BY <2>1 DEF Replayed
  <2>3. Replay' = Replay
    BY <2>1, <2>2 DEF Replay
  <2>4. IsFold(log, Replayed(log))'
    BY <2>1, <2>2 DEF IsFold, ReplayInv
  <2>. QED BY <2>1, <2>3, <2>4 DEF ReplayInv, ReplayMatches, WithoutLineage, IsMemory
<1>2. ASSUME NEW raw \in StatePatch, NEW origin \in Origin, NEW observed, CommitPatch(raw, origin, observed)
      PROVE  ReplayInv'
  <2>1. PICK p : p = Checked(raw, origin, observed)
    OBVIOUS
  <2>2. p \in StatePatch
    BY <2>1, CheckedTyped
  <2>3. /\ items' = Materialize(p)
        /\ working' = IF p.working = None THEN working ELSE p.working
        /\ log' = Append(log, [patch |-> p, origin |-> origin, base |-> version, new |-> version + 1])
        /\ version' = version + 1
    BY <1>2, <2>1 DEF CommitPatch
  <2>4. PICK entry \in LogEntry : entry.patch = p /\ log' = Append(log, entry)
    BY <2>2, <2>3 DEF LogEntry, TypeInv, TypeOK
  <2>5. log \in Seq(LogEntry) /\ Len(log') = Len(log) + 1
    BY <2>4 DEF TypeInv, TypeOK
  <2>6. /\ IsFold(log', Replayed(log'))
        /\ Replayed(log')[Len(log')] = Fold(entry, Replay)
    BY <2>4, <2>5, FoldGrows DEF ReplayInv, Replay
  <2>7. Replay' = Fold(entry, Replay)
    BY <2>6 DEF Replay, Replayed
  <2>8. IsMemory(items')
    BY DEF TypeInv, TypeOK, FiniteStore, IsMemory
  <2>9. IsMemory(Replay'.items) /\ WithoutLineage(Replay'.items) = WithoutLineage(items')
    BY <2>2, <2>3, <2>4, <2>7, <2>8, MaterializeAlike DEF Fold, ReplayInv, ReplayMatches
  <2>10. Replay'.working = working'
    BY <2>3, <2>4, <2>7 DEF Fold, ReplayInv, ReplayMatches
  <2>11. version' = Len(log')
    BY <2>3, <2>5 DEF ReplayInv, ReplayMatches
  <2>. QED BY <2>6, <2>9, <2>10, <2>11 DEF ReplayInv, ReplayMatches, IsFold, Replayed, WithoutLineage, IsMemory
<1>. QED BY <1>1, <1>2, CommitsOrKeeps

\* The log is the source of truth: whatever is committed, by whom, and however the
\* workers interleave, folding it from nothing gives what the tables hold, up to the
\* list of what an item replaced, and the task.
THEOREM ReplayAgrees == Spec => []ReplayMatches
<1>1. Spec => []TypeInv
  BY TypeInvInit, TypeInvStep, PTL DEF Spec
<1>2. Spec => []ReplayInv
  BY <1>1, ReplayInit, ReplayStep, PTL DEF Spec
<1>. QED BY <1>2, PTL DEF ReplayInv

=============================================================================
