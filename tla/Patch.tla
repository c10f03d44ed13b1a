-------------------------------- MODULE Patch --------------------------------
(***************************************************************************)
(* The patch vocabulary and its pure semantics: core/patch.ts and          *)
(* core/graph.ts.  A patch is a record of operation lists; this module     *)
(* says which of its operations are provable no-ops, when it is            *)
(* acceptable, and what it turns a state into.  There are no variables     *)
(* here: ContextStore composes these operators into commitPatch.           *)
(*                                                                         *)
(* Abstractions.  A text is a member of Text, two texts being the same     *)
(* member exactly when sameText equates them (case, blanks and closing     *)
(* punctuation).  Confidence is a number of 0..Certain, MaxInferred        *)
(* standing for MAX_INFERRED_CONFIDENCE and Certain for 1.0.  Tags,        *)
(* reasons, notes and timestamps are left out; a time-to-live is only      *)
(* present or absent, and of `fields` only closed_at is kept.  Ids are     *)
(* numbers in the order of their creation.                                 *)
(***************************************************************************)
EXTENDS Integers, FiniteSets

CONSTANTS
  Id,           \* ids of memory items
  Text,         \* what an item may say, up to sameText
  EventId,      \* ids of events, the evidence a patch may cite
  Task,         \* contents of the working memory
  MaxInferred,  \* MAX_INFERRED_CONFIDENCE
  Certain,      \* confidence 1.0
  MaxEntries,   \* bound: entries in one list of a patch
  None          \* null, or a key the patch leaves out

ASSUME PatchAssumption ==
  /\ Id \subseteq Nat
  /\ MaxInferred \in Nat /\ Certain \in Nat /\ MaxInferred < Certain
  /\ MaxEntries \in Nat \ {0}
  /\ None \notin Nat \cup Text \cup Task \cup BOOLEAN \cup STRING

-----------------------------------------------------------------------------
(* The vocabulary. *)

Importance == {"ephemeral", "low", "medium", "high", "critical"}
Status == {"active", "stale", "superseded", "archived", "deleted"}
Source == {"user", "agent", "worker", "deterministic", "import"}
Category ==
  {"goals", "requirements", "constraints", "decisions", "architecture",
   "conventions", "discoveries", "completed_work", "known_issues",
   "open_questions", "important_files"}
ClosableCategories == {"goals", "requirements", "open_questions", "known_issues"}
EdgeKind ==
  {"governs", "contradicts", "motivates", "implemented_by", "blocked_by",
   "refines", "relates_to"}
IsSymmetric(kind) == kind \in {"contradicts", "relates_to"}
Confidence == 0 .. Certain

Maybe(S) == S \cup {None}

\* A list of operations: entries at some of the positions 1..MaxEntries.  An
\* entry that is dropped leaves its position empty and the others in order.
List(S) == [1 .. MaxEntries -> Maybe(S)]
Entries(list) == {i \in DOMAIN list : list[i] # None}
EmptyList == [i \in 1 .. MaxEntries |-> None]

MemoryItem ==
  [category : Category, text : Text, importance : Importance,
   confidence : Confidence, status : Status, source : Source,
   evidence : SUBSET EventId, ttl : BOOLEAN, closed : BOOLEAN,
   supersedes : SUBSET Id, supersededBy : Maybe(Id)]

AddItem ==
  [id : Id, category : Category, text : Text, importance : Importance,
   confidence : Confidence, source : Source, evidence : SUBSET EventId,
   ttl : BOOLEAN, closed : BOOLEAN, supersedes : SUBSET Id]

UpdateItem ==
  [id : Id, text : Maybe(Text), importance : Maybe(Importance),
   confidence : Maybe(Confidence), status : Maybe(Status), ttl : Maybe(BOOLEAN),
   closed : Maybe(BOOLEAN), evidence : SUBSET EventId]

Supersede == [id : Id, by : Id]
MemoryEdge == [from : Id, to : Id, kind : EdgeKind]
Unlink == [from : Id, to : Id, kind : Maybe(EdgeKind)]
Close == [id : Id, evidence : SUBSET EventId]

StatePatch ==
  [base : Maybe(Nat), working : Maybe(Task), add : List(AddItem),
   update : List(UpdateItem), remove : SUBSET Id, supersede : List(Supersede),
   touch : SUBSET Id, link : SUBSET MemoryEdge, unlink : SUBSET Unlink,
   close : SUBSET Close, reopen : SUBSET Id, release : SUBSET Id]

\* The patch {}, from which others are written with EXCEPT.
EmptyPatch ==
  [base |-> None, working |-> None, add |-> EmptyList, update |-> EmptyList, remove |-> {},
   supersede |-> EmptyList, touch |-> {}, link |-> {}, unlink |-> {}, close |-> {},
   reopen |-> {}, release |-> {}]

IsEmptyPatch(p) ==
  /\ p.working = None
  /\ Entries(p.add) = {} /\ Entries(p.update) = {} /\ Entries(p.supersede) = {}
  /\ p.remove = {} /\ p.touch = {} /\ p.link = {} /\ p.unlink = {}
  /\ p.close = {} /\ p.reopen = {}

IsProtected(item) == item.source = "user" /\ item.importance = "critical"

AddedIds(p) == {p.add[i].id : i \in Entries(p.add)}
UpdatedIds(p) == {p.update[i].id : i \in Entries(p.update)}
ClosedIds(p) == {c.id : c \in p.close}
RetiredIds(p) == {p.supersede[i].id : i \in Entries(p.supersede)}
AddSupersededIds(p) == UNION {p.add[i].supersedes : i \in Entries(p.add)}

LastOf(positions) == CHOOSE i \in positions : \A j \in positions : j <= i
LowerOf(a, b) == IF a <= b THEN a ELSE b

-----------------------------------------------------------------------------
(* Operations that cannot change anything: normalizePatch and             *)
(* pruneInertOperations.                                                   *)

\* What is inferred is capped below certainty; what the user said is not.
NormalizePatch(p) ==
  [p EXCEPT !.add =
     [i \in DOMAIN p.add |->
        IF i \notin Entries(p.add) \/ p.add[i].source = "user" THEN p.add[i]
        ELSE [p.add[i] EXCEPT !.confidence = LowerOf(@, MaxInferred)]]]

SameText(a, b) == a.category = b.category /\ a.text = b.text

ActiveCopies(items, add) ==
  {x \in DOMAIN items : items[x].status = "active" /\ SameText(items[x], add)}

\* Positions of the adds that repeat an active item, or an earlier add of the
\* same patch, word for word and retire nothing.
\* mutant of it: the adds are compared with each other, not with what is stored
RedundantAmongAdds(p, items) ==
  {i \in Entries(p.add) :
     p.add[i].supersedes = {} /\ \E j \in Entries(p.add) : j < i /\ SameText(p.add[j], p.add[i])}
RedundantAdds(p, items) ==
  {i \in Entries(p.add) :
     /\ p.add[i].supersedes = {}
     /\ \/ ActiveCopies(items, p.add[i]) # {}
        \/ \E j \in Entries(p.add) : j < i /\ SameText(p.add[j], p.add[i])}

\* The item a redundant add repeats: the latest kept add, else the latest item.
OriginalOf(p, items, i) ==
  LET earlier == {j \in Entries(p.add) \ RedundantAdds(p, items) :
                    j < i /\ SameText(p.add[j], p.add[i])}
  IN  IF earlier # {} THEN p.add[LastOf(earlier)].id
      ELSE LastOf(ActiveCopies(items, p.add[i]))

\* Where a reference to a dropped add lands.
Resolve(p, items, x) ==
  LET dropped == {i \in RedundantAdds(p, items) : p.add[i].id = x}
  IN  IF dropped = {} THEN x ELSE OriginalOf(p, items, LastOf(dropped))

ResolveEnds(p, items, e) ==
  [e EXCEPT !.from = Resolve(p, items, @), !.to = Resolve(p, items, @)]

BothEndsIn(S, e) == e.from \in S /\ e.to \in S

PruneInertOperations(p, items) ==
  LET kept == Entries(p.add) \ RedundantAdds(p, items)
      known == DOMAIN items \cup {p.add[i].id : i \in kept}
      land(x) == Resolve(p, items, x)
  IN  [p EXCEPT
         !.add = [i \in DOMAIN p.add |-> IF i \in kept THEN p.add[i] ELSE None],
         !.update = [i \in DOMAIN p.update |->
                       IF i \in Entries(p.update) THEN [p.update[i] EXCEPT !.id = land(@)] ELSE None],
         !.supersede = [i \in DOMAIN p.supersede |->
                          IF i \in Entries(p.supersede)
                          THEN [id |-> land(p.supersede[i].id), by |-> land(p.supersede[i].by)]
                          ELSE None],
         !.touch = {land(x) : x \in p.touch} \cap known,
         !.link = {e \in {ResolveEnds(p, items, l) : l \in p.link} : BothEndsIn(known, e)},
         !.unlink = {e \in {ResolveEnds(p, items, l) : l \in p.unlink} : BothEndsIn(known, e)},
         !.remove = p.remove \cap known,
         !.close = {c \in p.close : c.id \in known}]

-----------------------------------------------------------------------------
(* Validation: validatePatch, one conjunct per operation, and the consent  *)
(* check commitPatch adds to it.                                           *)

\* mutant: the optimistic concurrency check is gone
AnyVersion(p, version) == TRUE
VersionMatches(p, version) == p.base = None \/ p.base = version

AddsAreNew(p, items) ==
  \A i \in Entries(p.add) :
    /\ p.add[i].id \notin DOMAIN items
    /\ \A j \in Entries(p.add) : p.add[j].id = p.add[i].id => j = i

Weakens(u, item) ==
  \/ u.importance # None /\ u.importance # "critical"
  \/ u.status # None /\ u.status # "active"
  \/ u.confidence # None /\ u.confidence < item.confidence

UpdatesAllowed(p, items) ==
  \A i \in Entries(p.update) :
    LET u == p.update[i]
    IN  /\ u.id \in DOMAIN items \cup AddedIds(p)
        /\ u.id \in DOMAIN items /\ IsProtected(items[u.id]) => ~Weakens(u, items[u.id])

RemovesAllowed(p, items) ==
  \A x \in p.remove :
    /\ x \in DOMAIN items \cup AddedIds(p)
    /\ x \in DOMAIN items /\ IsProtected(items[x]) => x \in p.release

\* mutant: the guard the first version lacked, `supersede` retires anything
SupersedesUnguarded(p, items) ==
  \A i \in Entries(p.supersede) :
    LET s == p.supersede[i]
    IN  s.id # s.by /\ {s.id, s.by} \subseteq DOMAIN items \cup AddedIds(p)
SupersedesAllowed(p, items) ==
  \A i \in Entries(p.supersede) :
    LET s == p.supersede[i]
    IN  /\ s.id # s.by
        /\ {s.id, s.by} \subseteq DOMAIN items \cup AddedIds(p)
        /\ s.id \in DOMAIN items => ~IsProtected(items[s.id])

AddSupersedesAllowed(p, items) ==
  \A x \in AddSupersededIds(p) :
    /\ x \in DOMAIN items \cup AddedIds(p)
    /\ x \in DOMAIN items => ~IsProtected(items[x])

TouchesAllowed(p, items) == p.touch \subseteq DOMAIN items \cup AddedIds(p)

\* mutant: only the target of a link is looked up
LinksHalfChecked(p, items) ==
  \A l \in p.link : l.from # l.to /\ l.to \in DOMAIN items \cup AddedIds(p)
LinksAllowed(p, items) ==
  \A l \in p.link : l.from # l.to /\ BothEndsIn(DOMAIN items \cup AddedIds(p), l)

ClosesAllowed(p, items) ==
  \A x \in ClosedIds(p) : x \in DOMAIN items /\ items[x].category \in ClosableCategories

ReopensAllowed(p, items) == p.reopen \subseteq DOMAIN items

ReleaseAllowed(p, origin) == p.release = {} \/ origin \in {"user", "import"}

ValidatePatch(p, origin, version, items) ==
  /\ VersionMatches(p, version)
  /\ ~IsEmptyPatch(p)
  /\ AddsAreNew(p, items)
  /\ UpdatesAllowed(p, items)
  /\ RemovesAllowed(p, items)
  /\ SupersedesAllowed(p, items)
  /\ AddSupersedesAllowed(p, items)
  /\ TouchesAllowed(p, items)
  /\ LinksAllowed(p, items)
  /\ ClosesAllowed(p, items)
  /\ ReopensAllowed(p, items)
  /\ ReleaseAllowed(p, origin)

-----------------------------------------------------------------------------
(* Application: applyPatch, one item at a time.  Each list of the patch is *)
(* one stage, and a stage changes an item by the entries that name it.     *)

NewItem(a) ==
  [category |-> a.category, text |-> a.text, importance |-> a.importance,
   confidence |-> a.confidence, status |-> "active", source |-> a.source,
   evidence |-> a.evidence, ttl |-> a.ttl, closed |-> a.closed,
   supersedes |-> a.supersedes, supersededBy |-> None]

AddOf(p, x) == CHOOSE i \in Entries(p.add) : p.add[i].id = x

\* The adds that retire x: those listing it once x is in the index, so not the
\* adds that come before the one that introduces x.
RetiringAdds(p, items, x) ==
  {i \in Entries(p.add) : x \in p.add[i].supersedes /\ (x \in DOMAIN items \/ AddOf(p, x) <= i)}

AfterAdd(p, items, x) ==
  LET item == IF x \in DOMAIN items THEN items[x] ELSE NewItem(p.add[AddOf(p, x)])
      retiring == RetiringAdds(p, items, x)
  IN  IF retiring = {} \/ IsProtected(item) THEN item
      ELSE [item EXCEPT !.status = "superseded",
                        !.supersededBy = p.add[LastOf(retiring)].id]

\* The value the updates of x leave in a field: the last one written, if any.
Written(p, x, field, old) ==
  LET writers == {i \in Entries(p.update) : p.update[i].id = x /\ p.update[i][field] # None}
  IN  IF writers = {} THEN old ELSE p.update[LastOf(writers)][field]

AfterUpdate(p, x, item) ==
  [item EXCEPT
     !.text = Written(p, x, "text", @),
     !.importance = Written(p, x, "importance", @),
     !.confidence = Written(p, x, "confidence", @),
     !.status = Written(p, x, "status", @),
     !.ttl = Written(p, x, "ttl", @),
     !.closed = Written(p, x, "closed", @),
     !.evidence = @ \cup UNION {p.update[i].evidence : i \in {j \in Entries(p.update) : p.update[j].id = x}}]

\* mutant: a status no schema knows
RemovedForGood(p, x, item) ==
  IF x \in p.remove THEN [item EXCEPT !.status = "removed"] ELSE item
AfterRemove(p, x, item) ==
  IF x \in p.remove THEN [item EXCEPT !.status = "deleted"] ELSE item

AfterSupersede(p, x, item) ==
  LET retiring == {i \in Entries(p.supersede) : p.supersede[i].id = x}
      replaced == {p.supersede[i].id : i \in {j \in Entries(p.supersede) : p.supersede[j].by = x}}
  IN  [item EXCEPT
         !.status = IF retiring = {} THEN @ ELSE "superseded",
         !.supersededBy = IF retiring = {} THEN @ ELSE p.supersede[LastOf(retiring)].by,
         !.supersedes = @ \cup replaced]

AfterClose(p, x, item) ==
  IF x \in ClosedIds(p)
  THEN [item EXCEPT !.closed = TRUE,
                    !.evidence = @ \cup UNION {c.evidence : c \in {d \in p.close : d.id = x}}]
  ELSE item

AfterReopen(p, x, item) ==
  IF x \in p.reopen THEN [item EXCEPT !.closed = FALSE] ELSE item

ApplyTo(p, items, x) ==
  AfterReopen(p, x, AfterClose(p, x, AfterSupersede(p, x,
    AfterRemove(p, x, AfterUpdate(p, x, AfterAdd(p, items, x))))))

ApplyPatch(p, items) == [x \in DOMAIN items \cup AddedIds(p) |-> ApplyTo(p, items, x)]

\* The ids applyPatch reports, the rows the store writes back.  The replacement
\* named by a supersede is not among them, although its item changed.
\* mutant: the items an add supersedes are not reported
DirtyWithoutRetired(p, items) ==
  AddedIds(p) \cup UpdatedIds(p) \cup p.remove \cup RetiredIds(p)
    \cup p.touch \cup ClosedIds(p) \cup p.reopen
Dirty(p, items) ==
  AddedIds(p) \cup UpdatedIds(p) \cup p.remove \cup RetiredIds(p)
    \cup {x \in AddSupersededIds(p) \cap DOMAIN items : ~IsProtected(items[x])}
    \cup p.touch \cup ClosedIds(p) \cup p.reopen

\* Edges, stored once per unordered pair when the relation is symmetric.
CanonicalEdge(l) ==
  IF IsSymmetric(l.kind) /\ l.to < l.from THEN [l EXCEPT !.from = l.to, !.to = l.from] ELSE l

Unlinks(u, e) == {u.from, u.to} = {e.from, e.to} /\ u.kind \in {None, e.kind}

ApplyEdges(p, edges) ==
  {e \in edges \cup {CanonicalEdge(l) : l \in p.link} : \A u \in p.unlink : ~Unlinks(u, e)}

=============================================================================
