--------------------------- MODULE MaintenanceProofs ---------------------------
(***************************************************************************)
(* Theorems about Maintenance, for every set of items, paths and           *)
(* processes.                                                              *)
(*                                                                         *)
(* What upkeep promises where one process uses the database rests on       *)
(* Fresh: what a process has decided still agrees with the items, because  *)
(* nobody else wrote since it read them.                                   *)
(***************************************************************************)
EXTENDS Maintenance, TLAPS

OneAtUpkeep == \A p, q \in Process : process[p] # Idle /\ process[q] # Idle => p = q

KeptIsProtected(d) == \A i \in Item : i \in d.kept <=> item[i].protected

FreshStatting(d) ==
  /\ KeptIsProtected(d)
  /\ \A i \in d.eligible : Eligible(i)
  /\ \A i \in d.ours : Ours(i)

FreshPlanning(d) ==
  /\ KeptIsProtected(d)
  /\ \A i \in d.broken \cup d.revived : Eligible(i)
  /\ \A i \in d.broken : d.paths[i] # {}
  /\ \A i \in d.revived : Ours(i) /\ i \notin d.broken

InForce(i) == item[i].status \in {"active", "stale"}
KeepsVerdict(i, c) == item[i].status = "stale" /\ c.verdict = {} => c.status = "active"
Allowed(i, c) == item[i].protected => c.status \in {None, "active"}
IsNews(i, c) ==
  \/ c.verdict # None /\ c.verdict # item[i].verdict
  \/ c.status # None /\ c.status # item[i].status
  \/ c.tagged # None /\ c.tagged # item[i].tagged

FreshWriting(d) ==
  /\ \A i \in DOMAIN d.changes : InForce(i) /\ KeepsVerdict(i, d.changes[i])
  /\ d.by = "check" =>
       /\ \E i \in DOMAIN d.changes : TRUE
       /\ \A i \in DOMAIN d.changes : Allowed(i, d.changes[i]) /\ IsNews(i, d.changes[i])

Fresh(d) ==
  /\ d.at = "statting" => FreshStatting(d)
  /\ d.at = "planning" => FreshPlanning(d)
  /\ d.at = "writing" => FreshWriting(d)

AloneIsFresh == ~shared => OneAtUpkeep /\ \A p \in Process : Fresh(process[p])

Inv == TypeOK /\ AloneIsFresh

-----------------------------------------------------------------------------
(* Types. *)

\* A record that says what a process does is of one kind only.
LEMMA Kinds ==
  ASSUME NEW d \in {Idle} \cup Statting \cup Planning \cup Writing
  PROVE  /\ d.at = "idle" => d = Idle
         /\ d.at = "statting" => d \in Statting
         /\ d.at = "planning" => d \in Planning
         /\ d.at = "writing" => d \in Writing
         /\ Idle.at = "idle"
BY DEF Idle, Statting, Planning, Writing

\* Applying a change to an item gives an item.
LEMMA ChangedTyped ==
  ASSUME NEW old \in MemoryItem, NEW c \in Change
  PROVE  Changed(old, c) \in MemoryItem
<1>1. Keep(c.status, old.status) \in Status
  BY DEF Keep, MemoryItem, Change, Maybe
<1>2. Keep(c.verdict, old.verdict) \in SUBSET Path
  BY DEF Keep, MemoryItem, Change, Maybe
<1>3. Keep(c.tagged, old.tagged) \in BOOLEAN
  BY DEF Keep, MemoryItem, Change, Maybe
<1>4. (old.ttl \/ c.revalidated) \in BOOLEAN /\ (old.overdue /\ ~c.revalidated) \in BOOLEAN
  OBVIOUS
<1>5. IsAside(old, c) \in BOOLEAN
  BY DEF IsAside, MemoryItem
<1> QED BY <1>1, <1>2, <1>3, <1>4, <1>5 DEF Changed, MemoryItem

\* The changes upkeep writes are changes.
LEMMA ChangesTyped ==
  /\ LeaveAlone \in Change
  /\ [LeaveAlone EXCEPT !.status = "stale"] \in Change
  /\ \A paths \in SUBSET Path : SetAside(paths) \in Change /\ Flag(paths) \in Change
  /\ \A i \in Item : Revive(i) \in Change /\ Revalidate(i) \in Change
BY DEF LeaveAlone, SetAside, Flag, Revive, Revalidate, Change, Maybe, Status

\* A function from some of the items to changes is what a commit may carry.
LEMMA InChanges ==
  ASSUME NEW S \in SUBSET Item, NEW g \in [S -> Change]
  PROVE  g \in Changes
BY DEF Changes

\* A process that moves to a well-formed place keeps the table of processes well formed.
LEMMA MovesTyped ==
  ASSUME TypeOK, NEW p \in Process, NEW d \in {Idle} \cup Statting \cup Planning \cup Writing, Moves(p, d)
  PROVE  process' \in [Process -> {Idle} \cup Statting \cup Planning \cup Writing]
BY DEF TypeOK, Moves

\* The plan of a check is a set of changes.
LEMMA PlanTyped ==
  ASSUME TypeOK, NEW p \in Process, PlansCheck(p)
  PROVE  process' \in [Process -> {Idle} \cup Statting \cup Planning \cup Writing]
<1> DEFINE found == process[p]
           aside == {i \in found.broken \ found.kept : Found(i) /\ ~AlreadySetAside(i, found.paths[i])}
           flagged == {i \in found.broken \cap found.kept : Found(i) /\ ~AlreadyFlagged(i, found.paths[i])}
           revived == {i \in found.revived : Found(i)}
           changes == [i \in aside \cup flagged \cup revived |->
                         IF i \in aside THEN SetAside(found.paths[i])
                         ELSE IF i \in flagged THEN Flag(found.paths[i]) ELSE Revive(i)]
<1>1. found \in Planning
  BY Kinds DEF TypeOK, PlansCheck
<1>2. aside \cup flagged \cup revived \in SUBSET Item
  BY <1>1 DEF Planning
<1>3. \A i \in Item : found.paths[i] \in SUBSET Path
  BY <1>1 DEF Planning
<1>4. changes \in [aside \cup flagged \cup revived -> Change]
  BY <1>2, <1>3, ChangesTyped
<1>5. changes \in Changes
  BY <1>2, <1>4, InChanges
<1>6. Moves(p, IF DOMAIN changes = {} THEN Idle ELSE [at |-> "writing", by |-> "check", changes |-> changes])
  BY DEF PlansCheck
<1>7. [at |-> "writing", by |-> "check", changes |-> changes] \in Writing
  BY <1>5 DEF Writing
<1> QED BY <1>6, <1>7, MovesTyped

\* Memory starts well formed.
LEMMA TypeInit == Init => TypeOK
<1> SUFFICES ASSUME Init PROVE TypeOK
  OBVIOUS
<1>1. \A b \in BOOLEAN : New(b) \in MemoryItem
  BY DEF New, MemoryItem, Status
<1>2. item \in [Item -> MemoryItem]
  <2>1. PICK critical \in SUBSET Said : item = [i \in Item |-> New(i \in critical)]
    BY DEF Init
  <2>2. \A i \in Item : (i \in critical) \in BOOLEAN
    OBVIOUS
  <2> QED BY <2>1, <2>2, <1>1
<1>3. process \in [Process -> {Idle} \cup Statting \cup Planning \cup Writing]
  BY DEF Init
<1> QED BY <1>2, <1>3 DEF Init, TypeOK

\* Every step keeps it well formed.
LEMMA TypeStep ==
  ASSUME TypeOK, [Next]_vars
  PROVE  TypeOK'
<1> USE DEF TypeOK
<1>1. ASSUME NEW p \in Process, NEW force \in BOOLEAN, StartsCheck(p, force) PROVE TypeOK'
  <2> DEFINE d == [at |-> "statting",
                   eligible |-> {i \in Item : Eligible(i) /\ Needs[i] \cup Denies[i] # {}},
                   ours |-> {i \in Item : Ours(i)}, kept |-> {i \in Item : item[i].protected}]
  <2>1. d \in Statting
    BY DEF Statting
  <2>2. process' \in [Process -> {Idle} \cup Statting \cup Planning \cup Writing]
    BY <1>1, <2>1, MovesTyped DEF StartsCheck
  <2> QED BY <1>1, <2>2 DEF StartsCheck
<1>2. ASSUME NEW p \in Process, StatsFiles(p) PROVE TypeOK'
  <2> DEFINE broken == {i \in process[p].eligible : Broken(i)}
             d == [at |-> "planning", broken |-> broken,
                   paths |-> [i \in Item |-> IF i \in broken THEN Missing(i) \cup Appeared(i) ELSE {}],
                   revived |-> (process[p].eligible \ broken) \cap process[p].ours,
                   kept |-> process[p].kept]
  <2>1. process[p] \in Statting
    BY <1>2, Kinds DEF StatsFiles
  <2>2. \A i \in Item : Missing(i) \cup Appeared(i) \in SUBSET Path
    BY MaintenanceAssumption DEF Missing, Appeared
  <2>3. d \in Planning
    BY <2>1, <2>2 DEF Statting, Planning
  <2>4. process' \in [Process -> {Idle} \cup Statting \cup Planning \cup Writing]
    BY <1>2, <2>3, MovesTyped DEF StatsFiles
  <2> QED BY <1>2, <2>4 DEF StatsFiles
<1>3. ASSUME NEW p \in Process, PlansCheck(p) PROVE TypeOK'
  BY <1>3, PlanTyped DEF PlansCheck
<1>4. ASSUME NEW p \in Process, DecayReads(p) PROVE TypeOK'
  <2> DEFINE expired == {i \in Item : item[i].status = "active" /\ Overdue(i)}
             g == [i \in expired |-> [LeaveAlone EXCEPT !.status = "stale"]]
  <2>1. g \in Changes
    BY ChangesTyped, InChanges
  <2>2. [at |-> "writing", by |-> "decay", changes |-> g] \in Writing
    BY <2>1 DEF Writing
  <2>3. process' \in [Process -> {Idle} \cup Statting \cup Planning \cup Writing]
    BY <1>4, <2>2, MovesTyped DEF DecayReads
  <2> QED BY <1>4, <2>3 DEF DecayReads
<1>5. ASSUME NEW p \in Process, NEW seen \in SUBSET Rule, FoldReads(p, seen) PROVE TypeOK'
  <2> DEFINE rules == {i \in seen : item[i].status \in {"active", "stale"} /\ ~item[i].protected}
             g == [i \in rules |-> Revalidate(i)]
  <2>1. rules \in SUBSET Item
    BY MaintenanceAssumption
  <2>2. g \in Changes
    BY <2>1, ChangesTyped, InChanges
  <2>3. [at |-> "writing", by |-> "fold", changes |-> g] \in Writing
    BY <2>2 DEF Writing
  <2>4. process' \in [Process -> {Idle} \cup Statting \cup Planning \cup Writing]
    BY <1>5, <2>3, MovesTyped DEF FoldReads
  <2> QED BY <1>5, <2>4 DEF FoldReads
<1>6. ASSUME NEW p \in Process, NEW by \in {"check", "decay", "fold"}, Writes(p, by) PROVE TypeOK'
  <2>1. process[p] \in Writing
    BY <1>6, Kinds DEF Writes
  <2>2. PICK S \in SUBSET Item : process[p].changes \in [S -> Change]
    BY <2>1 DEF Writing, Changes
  <2>3. \A i \in DOMAIN process[p].changes : process[p].changes[i] \in Change
    BY <2>2
  <2>4. item' \in [Item -> MemoryItem]
    BY <1>6, <2>3, ChangedTyped DEF Writes, Apply
  <2>5. process' \in [Process -> {Idle} \cup Statting \cup Planning \cup Writing]
    BY <1>6, MovesTyped DEF Writes
  <2> QED BY <1>6, <2>4, <2>5 DEF Writes
<1>7. ASSUME NEW p \in Process, Crashes(p) PROVE TypeOK'
  BY <1>7, MovesTyped DEF Crashes
<1>8. ASSUME NEW i \in Item, NEW new \in MemoryItem, Commits(i, new) PROVE TypeOK'
  BY <1>8 DEF Commits
<1>9. ASSUME NEW i \in Item, NEW status \in Retired, Retires(i, status) PROVE TypeOK'
  BY <1>9, <1>8 DEF Retires, Retired, Status, MemoryItem
<1>10. ASSUME NEW i \in Item, NEW status \in {"active", "stale"}, WorkerSets(i, status) PROVE TypeOK'
  BY <1>10, <1>8 DEF WorkerSets, Status, MemoryItem
<1>11. ASSUME NEW i \in Item, WorkerMakesCritical(i) PROVE TypeOK'
  BY <1>11, <1>8 DEF WorkerMakesCritical, MemoryItem
<1>12. ASSUME NEW i \in Item, WorkerGivesTtl(i) PROVE TypeOK'
  BY <1>12, <1>8 DEF WorkerGivesTtl, MemoryItem
<1>13. ASSUME NEW f \in Path, FileChanges(f) PROVE TypeOK'
  BY <1>13 DEF FileChanges
<1>14. ASSUME NEW i \in Item, Ages(i) PROVE TypeOK'
  <2>1. [item[i] EXCEPT !.overdue = TRUE] \in MemoryItem
    BY DEF MemoryItem
  <2> QED BY <1>14, <2>1 DEF Ages
<1>15. ASSUME IntervalPasses PROVE TypeOK'
  BY <1>15 DEF IntervalPasses
<1>16. ASSUME UNCHANGED vars PROVE TypeOK'
  BY <1>16 DEF vars
<1> QED BY <1>1, <1>2, <1>3, <1>4, <1>5, <1>6, <1>7, <1>9, <1>10, <1>11, <1>12, <1>13, <1>14, <1>15, <1>16
        DEF Next

\* Items, files and what each process holds are always well formed.
THEOREM TypeCorrect == Spec => []TypeOK
<1>1. TypeOK /\ [Next]_vars => TypeOK'
  BY TypeStep
<1> QED BY TypeInit, <1>1, PTL DEF Spec

-----------------------------------------------------------------------------
(* Protection: the transaction validates against what the item is now, so  *)
(* this one needs no freshness.                                            *)

\* A step that finishes the work of a process is its commit or its death.
LEMMA UpkeepSteps ==
  ASSUME TypeOK, [Next]_vars, Upkeep
  PROVE  \/ item' = item
         \/ \E p \in Process, by \in {"check", "decay", "fold"} : Writes(p, by)
<1>1. PICK p \in Process : process[p].at = "writing" /\ process'[p] = Idle
  BY DEF Upkeep
<1>2. process[p] # Idle
  BY <1>1, Kinds DEF TypeOK
<1>3. process' # process
  BY <1>1, <1>2
<1>4. ~(UNCHANGED vars)
  BY <1>3 DEF vars
<1>5. \A i, new : ~Commits(i, new)
  BY <1>3 DEF Commits
<1> QED BY <1>3, <1>4, <1>5 DEF Next, StartsCheck, StatsFiles, PlansCheck, DecayReads, FoldReads, Crashes,
             Retires, WorkerSets, WorkerMakesCritical, WorkerGivesTtl, FileChanges, Ages, IntervalPasses

\* What a commit of upkeep leaves of an item: itself, or one accepted change.
LEMMA WrittenItem ==
  ASSUME TypeOK, NEW p \in Process, NEW by, Writes(p, by), NEW i \in Item
  PROVE  \/ item'[i] = item[i]
         \/ /\ i \in DOMAIN process[p].changes
            /\ Accepted(process[p].changes)
            /\ item'[i] = Changed(item[i], process[p].changes[i])
BY DEF Writes, Apply

\* The status of an item after a change.
LEMMA ChangedStatus ==
  ASSUME NEW old \in MemoryItem, NEW c
  PROVE  /\ Changed(old, c).status = Keep(c.status, old.status)
         /\ Changed(old, c).verdict = Keep(c.verdict, old.verdict)
         /\ Changed(old, c).tagged = Keep(c.tagged, old.tagged)
         /\ Changed(old, c).protected = old.protected
BY DEF Changed, MemoryItem

\* Upkeep never sets aside what the user said and marked critical, whenever it was
\* marked, with any number of processes at upkeep at once.
THEOREM ProtectionSurvivesUpkeep == Spec => ProtectedKeptByUpkeep
<1>1. ASSUME TypeOK, [Next]_vars, NEW i \in Item, Upkeep, item[i].protected, item[i].status = "active"
      PROVE  item'[i].status = "active"
  <2>1. CASE item' = item
    BY <1>1, <2>1
  <2>2. ASSUME NEW p \in Process, NEW by \in {"check", "decay", "fold"}, Writes(p, by)
        PROVE  item'[i].status = "active"
    <3> DEFINE c == process[p].changes[i]
    <3>1. CASE item'[i] = item[i]
      BY <1>1, <3>1
    <3>2. CASE /\ i \in DOMAIN process[p].changes /\ Accepted(process[p].changes)
               /\ item'[i] = Changed(item[i], c)
      <4>1. c.status \in {None, "active"}
        BY <1>1, <3>2 DEF Accepted
      <4>2. item'[i].status = Keep(c.status, item[i].status)
        BY <1>1, <3>2, ChangedStatus DEF TypeOK
      <4> QED BY <1>1, <4>1, <4>2 DEF Keep
    <3> QED BY <1>1, <2>2, <3>1, <3>2, WrittenItem
  <2> QED BY <1>1, <2>1, <2>2, UpkeepSteps
<1>2. TypeOK /\ [Next]_vars =>
        [\A i \in Item : Upkeep /\ item[i].protected /\ item[i].status = "active" => item'[i].status = "active"]_vars
  BY <1>1
<1> QED BY TypeCorrect, <1>2, PTL DEF Spec, ProtectedKeptByUpkeep

-----------------------------------------------------------------------------
(* One process: what it decided is still so when it commits.               *)

\* Freshness looks at four fields of the items only, so it outlives a step that
\* leaves them alone.
LEMMA FreshStays ==
  ASSUME NEW d,
         d \in {Idle} \cup Statting \cup Planning \cup Writing,
         \A i \in Item : /\ item'[i].status = item[i].status /\ item'[i].verdict = item[i].verdict
                        /\ item'[i].tagged = item[i].tagged /\ item'[i].protected = item[i].protected,
         Fresh(d)
  PROVE  Fresh(d)'
<1>1. ASSUME d.at = "statting" PROVE FreshStatting(d)'
  <2>1. d \in Statting /\ FreshStatting(d)
    BY <1>1, Kinds DEF Fresh
  <2> QED BY <2>1 DEF Statting, FreshStatting, KeptIsProtected, Eligible, Ours
<1>2. ASSUME d.at = "planning" PROVE FreshPlanning(d)'
  <2>1. d \in Planning /\ FreshPlanning(d)
    BY <1>2, Kinds DEF Fresh
  <2> QED BY <2>1 DEF Planning, FreshPlanning, KeptIsProtected, Eligible, Ours
<1>3. ASSUME d.at = "writing" PROVE FreshWriting(d)'
  <2>1. d \in Writing /\ FreshWriting(d)
    BY <1>3, Kinds DEF Fresh
  <2>2. \A i \in DOMAIN d.changes : i \in Item
    BY <2>1 DEF Writing, Changes
  <2>3. ASSUME NEW i \in Item, NEW c
        PROVE  /\ InForce(i)' <=> InForce(i)
               /\ KeepsVerdict(i, c)' <=> KeepsVerdict(i, c)
               /\ Allowed(i, c)' <=> Allowed(i, c)
               /\ IsNews(i, c)' <=> IsNews(i, c)
    BY DEF InForce, KeepsVerdict, Allowed, IsNews
  <2> QED BY <2>1, <2>2, <2>3 DEF FreshWriting
<1> QED BY <1>1, <1>2, <1>3 DEF Fresh

\* Who holds nothing holds nothing old.
LEMMA IdleIsFresh == Fresh(Idle)
BY DEF Fresh, Idle

\* When only p works and p moves to a fresh place, everything stays fresh.
LEMMA MoverIsFresh ==
  ASSUME TypeOK, AloneIsFresh, shared' = shared, item' = item, NEW p \in Process,
         NEW d \in {Idle} \cup Statting \cup Planning \cup Writing, Moves(p, d),
         ~shared => \A q \in Process : q # p => process[q] = Idle,
         ~shared => Fresh(d)
  PROVE  AloneIsFresh'
<1>1. process'[p] = d /\ \A q \in Process : q # p => process'[q] = process[q]
  BY DEF Moves, TypeOK
<1>2. ASSUME ~shared PROVE OneAtUpkeep' /\ \A q \in Process : Fresh(process[q])'
  <2>1. \A q \in Process : q # p => process'[q] = Idle
    BY <1>1, <1>2
  <2>2. OneAtUpkeep'
    BY <2>1 DEF OneAtUpkeep
  <2>3. ASSUME NEW q \in Process PROVE Fresh(process[q])'
    <3>1. CASE q = p
      <4>1. Fresh(d)'
        BY <1>2, FreshStays
      <4> QED BY <3>1, <1>1, <4>1 DEF Fresh, FreshStatting, FreshPlanning, FreshWriting
    <3>2. CASE q # p
      <4>1. process'[q].at = "idle"
        BY <2>1, <3>2 DEF Idle
      <4> QED BY <4>1 DEF Fresh
    <3> QED BY <3>1, <3>2
  <2> QED BY <2>2, <2>3
<1> QED BY <1>2 DEF AloneIsFresh

\* A process that is at work is the only one; one that starts finds nobody at work.
LEMMA OthersIdle ==
  ASSUME TypeOK, AloneIsFresh, NEW p \in Process, process[p] # Idle \/ Uninterrupted
  PROVE  ~shared => \A q \in Process : q # p => process[q] = Idle
BY DEF AloneIsFresh, OneAtUpkeep, Uninterrupted

LEMMA CheckStartsFresh ==
  ASSUME TypeOK, AloneIsFresh, NEW p \in Process, NEW force \in BOOLEAN, StartsCheck(p, force)
  PROVE  AloneIsFresh'
<1> DEFINE d == [at |-> "statting",
                 eligible |-> {i \in Item : Eligible(i) /\ Needs[i] \cup Denies[i] # {}},
                 ours |-> {i \in Item : Ours(i)}, kept |-> {i \in Item : item[i].protected}]
<1>1. d \in Statting
  BY DEF Statting
<1>2. Fresh(d)
  BY DEF StartsCheck, Fresh, FreshStatting, KeptIsProtected, Eligible, Ours
<1> QED BY <1>1, <1>2, OthersIdle, MoverIsFresh DEF StartsCheck

LEMMA StatsAreFresh ==
  ASSUME TypeOK, AloneIsFresh, NEW p \in Process, StatsFiles(p)
  PROVE  AloneIsFresh'
<1> DEFINE broken == {i \in process[p].eligible : Broken(i)}
           d == [at |-> "planning", broken |-> broken,
                 paths |-> [i \in Item |-> IF i \in broken THEN Missing(i) \cup Appeared(i) ELSE {}],
                 revived |-> (process[p].eligible \ broken) \cap process[p].ours,
                 kept |-> process[p].kept]
<1>1. process[p] \in Statting /\ process[p] # Idle
  BY Kinds DEF TypeOK, StatsFiles, Idle
<1>2. d \in Planning
  <2>1. \A i \in Item : Missing(i) \cup Appeared(i) \in SUBSET Path
    BY MaintenanceAssumption DEF Missing, Appeared
  <2> QED BY <1>1, <2>1 DEF Statting, Planning
<1>3. \A i \in broken : Missing(i) \cup Appeared(i) # {}
  BY DEF Broken, Missing
<1>4. ASSUME ~shared PROVE Fresh(d)
  <2>1. FreshStatting(process[p])
    BY <1>4 DEF AloneIsFresh, Fresh, StatsFiles
  <2>3. FreshPlanning(d)
    <3>1. KeptIsProtected(d)
      BY <2>1 DEF FreshStatting, KeptIsProtected
    <3>2. \A i \in d.broken \cup d.revived : Eligible(i)
      BY <2>1 DEF FreshStatting
    <3>3. \A i \in d.broken : d.paths[i] # {}
      BY <1>1, <1>3 DEF Statting
    <3>4. \A i \in d.revived : Ours(i) /\ i \notin d.broken
      BY <2>1 DEF FreshStatting
    <3> QED BY <3>1, <3>2, <3>3, <3>4 DEF FreshPlanning
  <2> QED BY <2>3 DEF Fresh
<1> QED BY <1>1, <1>2, <1>4, OthersIdle, MoverIsFresh DEF StatsFiles

\* What a check plans is news about items in force, and allowed.
LEMMA PlanIsFresh ==
  ASSUME TypeOK, AloneIsFresh, NEW p \in Process, PlansCheck(p)
  PROVE  AloneIsFresh'
<1> DEFINE found == process[p]
           aside == {i \in found.broken \ found.kept : Found(i) /\ ~AlreadySetAside(i, found.paths[i])}
           flagged == {i \in found.broken \cap found.kept : Found(i) /\ ~AlreadyFlagged(i, found.paths[i])}
           revived == {i \in found.revived : Found(i)}
           changes == [i \in aside \cup flagged \cup revived |->
                         IF i \in aside THEN SetAside(found.paths[i])
                         ELSE IF i \in flagged THEN Flag(found.paths[i]) ELSE Revive(i)]
           d == IF DOMAIN changes = {} THEN Idle
                ELSE [at |-> "writing", by |-> "check", changes |-> changes]
<1>1. found \in Planning /\ found # Idle
  BY Kinds DEF TypeOK, PlansCheck, Idle
<1>2. d \in {Idle} \cup Writing
  <2>1. \A i \in Item : found.paths[i] \in SUBSET Path
    BY <1>1 DEF Planning
  <2>2. aside \cup flagged \cup revived \in SUBSET Item
    BY <1>1 DEF Planning
  <2>3. changes \in [aside \cup flagged \cup revived -> Change]
    BY <2>1, <2>2, ChangesTyped
  <2>4. changes \in Changes
    BY <2>2, <2>3, InChanges
  <2> QED BY <2>4 DEF Writing
<1>3. item' = item /\ Moves(p, d) /\ shared' = shared
  BY DEF PlansCheck
<1>4. ASSUME ~shared, DOMAIN changes # {} PROVE FreshWriting(d)
  <2>1. FreshPlanning(found)
    BY <1>4 DEF AloneIsFresh, Fresh, PlansCheck
  <2>2. ASSUME NEW i \in DOMAIN changes
        PROVE  /\ InForce(i) /\ KeepsVerdict(i, changes[i])
               /\ Allowed(i, changes[i]) /\ IsNews(i, changes[i])
    <3>1. i \in Item /\ InForce(i)
      BY <1>1, <2>1, <2>2 DEF FreshPlanning, Planning, Eligible, InForce
    <3>2. CASE i \in aside
      <4>1. changes[i] = SetAside(found.paths[i])
        BY <3>2
      <4>2. changes[i].status = "stale" /\ changes[i].verdict = found.paths[i]
        BY <4>1 DEF SetAside, LeaveAlone
      <4>3. ~item[i].protected /\ found.paths[i] # {}
        BY <3>1, <3>2, <2>1 DEF FreshPlanning, KeptIsProtected
      <4>4. found.paths[i] # None
        BY <1>1, <3>1, MaintenanceAssumption DEF Planning
      <4>5. "stale" # None
        BY MaintenanceAssumption DEF Status
      <4>6. item[i].verdict # found.paths[i] \/ item[i].status # "stale"
        BY <3>2 DEF AlreadySetAside
      <4> QED BY <3>1, <4>2, <4>3, <4>4, <4>5, <4>6 DEF KeepsVerdict, Allowed, IsNews
    <3>3. CASE i \notin aside /\ i \in flagged
      <4>1. changes[i] = Flag(found.paths[i])
        BY <3>3
      <4>2. changes[i].status = None /\ changes[i].verdict = found.paths[i] /\ changes[i].tagged = TRUE
        BY <4>1 DEF Flag, LeaveAlone
      <4>3. found.paths[i] # {}
        BY <3>3, <2>1 DEF FreshPlanning
      <4>4. found.paths[i] # None /\ TRUE # None
        BY <1>1, <3>1, MaintenanceAssumption DEF Planning
      <4>5. item[i].verdict # found.paths[i] \/ ~item[i].tagged
        BY <3>3 DEF AlreadyFlagged
      <4>6. item[i].tagged \in BOOLEAN
        BY <3>1 DEF TypeOK, MemoryItem
      <4> QED BY <3>1, <4>2, <4>3, <4>4, <4>5, <4>6 DEF KeepsVerdict, Allowed, IsNews
    <3>4. CASE i \notin aside /\ i \notin flagged
      <4>1. i \in revived /\ changes[i] = Revive(i)
        BY <2>2, <3>4
      <4>2. /\ changes[i].status = IF item[i].status = "stale" THEN "active" ELSE None
            /\ changes[i].verdict = {}
        BY <4>1 DEF Revive, LeaveAlone
      <4>3. item[i].verdict # {}
        BY <2>1, <4>1 DEF FreshPlanning, Ours
      <4>4. {} # None
        BY MaintenanceAssumption
      <4> QED BY <3>1, <4>2, <4>3, <4>4 DEF KeepsVerdict, Allowed, IsNews
    <3> QED BY <3>1, <3>2, <3>3, <3>4
  <2>3. d = [at |-> "writing", by |-> "check", changes |-> changes]
    BY <1>4
  <2>4. d.changes = changes
    BY <2>3
  <2>5. \E i \in DOMAIN changes : TRUE
    BY <1>4
  <2> HIDE DEF changes, d
  <2> QED BY <2>2, <2>4, <2>5 DEF FreshWriting
<1>5. ASSUME ~shared PROVE Fresh(d)
  <2>1. CASE DOMAIN changes = {}
    BY <2>1, IdleIsFresh
  <2>2. CASE DOMAIN changes # {}
    <3>1. d.at = "writing"
      BY <2>2
    <3>2. FreshWriting(d)
      BY <1>4, <1>5, <2>2
    <3> HIDE DEF d
    <3> QED BY <3>1, <3>2 DEF Fresh
  <2> QED BY <2>1, <2>2
<1> HIDE DEF d
<1> QED BY <1>1, <1>2, <1>3, <1>5, OthersIdle, MoverIsFresh

LEMMA DecayIsFresh ==
  ASSUME TypeOK, AloneIsFresh, NEW p \in Process, DecayReads(p)
  PROVE  AloneIsFresh'
<1> DEFINE expired == {i \in Item : item[i].status = "active" /\ Overdue(i)}
           g == [i \in expired |-> [LeaveAlone EXCEPT !.status = "stale"]]
           d == [at |-> "writing", by |-> "decay", changes |-> g]
<1>1. d \in Writing
  <2>1. g \in Changes
    BY ChangesTyped, InChanges
  <2> QED BY <2>1 DEF Writing
<1>2. Fresh(d)
  BY DEF DecayReads, Fresh, FreshWriting, InForce, KeepsVerdict
<1> QED BY <1>1, <1>2, OthersIdle, MoverIsFresh DEF DecayReads

LEMMA FoldIsFresh ==
  ASSUME TypeOK, AloneIsFresh, NEW p \in Process, NEW seen \in SUBSET Rule, FoldReads(p, seen)
  PROVE  AloneIsFresh'
<1> DEFINE rules == {i \in seen : item[i].status \in {"active", "stale"} /\ ~item[i].protected}
           g == [i \in rules |-> Revalidate(i)]
           d == [at |-> "writing", by |-> "fold", changes |-> g]
<1>1. d \in Writing
  <2>1. rules \in SUBSET Item
    BY MaintenanceAssumption
  <2>2. g \in Changes
    BY <2>1, ChangesTyped, InChanges
  <2> QED BY <2>2 DEF Writing
<1>2. Fresh(d)
  BY DEF FoldReads, Fresh, FreshWriting, InForce, KeepsVerdict, Revalidate
<1> QED BY <1>1, <1>2, OthersIdle, MoverIsFresh DEF FoldReads

LEMMA WriteIsFresh ==
  ASSUME TypeOK, AloneIsFresh, NEW p \in Process, NEW by \in {"check", "decay", "fold"}, Writes(p, by)
  PROVE  AloneIsFresh'
<1>1. process' = [process EXCEPT ![p] = Idle] /\ shared' = shared
  BY DEF Writes, Moves
<1>2. process[p] # Idle
  BY DEF Writes, Idle
<1>3. ASSUME ~shared, NEW q \in Process PROVE process'[q] = Idle
  BY <1>1, <1>2, <1>3, OthersIdle DEF TypeOK
<1> QED BY <1>1, <1>3 DEF AloneIsFresh, OneAtUpkeep, Fresh, Idle

\* A commit of somebody else finds nobody at upkeep.
LEMMA CommitIsFresh ==
  ASSUME TypeOK, AloneIsFresh, NEW i, NEW new, Commits(i, new)
  PROVE  AloneIsFresh'
<1>1. process' = process /\ shared' = shared
  BY DEF Commits
<1>2. ASSUME ~shared, NEW q \in Process PROVE process'[q] = Idle
  BY <1>1, <1>2 DEF Commits, Uninterrupted
<1> QED BY <1>1, <1>2 DEF AloneIsFresh, OneAtUpkeep, Fresh, Idle

LEMMA AgeingIsFresh ==
  ASSUME TypeOK, AloneIsFresh, NEW i \in Item, Ages(i)
  PROVE  AloneIsFresh'
<1>1. process' = process /\ shared' = shared
  BY DEF Ages
<1>2. \A j \in Item : /\ item'[j].status = item[j].status /\ item'[j].verdict = item[j].verdict
                      /\ item'[j].tagged = item[j].tagged /\ item'[j].protected = item[j].protected
  BY DEF Ages, TypeOK, MemoryItem
<1>3. ASSUME NEW q \in Process, NEW d, d = process[q], Fresh(d) PROVE Fresh(d)'
  <2>1. d \in {Idle} \cup Statting \cup Planning \cup Writing
    BY <1>3 DEF TypeOK
  <2> QED BY <1>3, <2>1, <1>2, FreshStays
<1>4. ASSUME NEW q \in Process, Fresh(process[q]) PROVE Fresh(process[q])'
  <2>1. PICK d : d = process[q]
    OBVIOUS
  <2>2. Fresh(d)
    BY <1>4, <2>1
  <2>3. Fresh(d)'
    BY <1>3, <2>1, <2>2
  <2>4. process'[q] = d
    BY <1>1, <2>1
  <2> QED BY <2>3, <2>4 DEF Fresh, FreshStatting, FreshPlanning, FreshWriting
<1> QED BY <1>1, <1>4 DEF AloneIsFresh, OneAtUpkeep

\* The other steps of the world move no process and write no item.
LEMMA AloneIsFreshStep ==
  ASSUME TypeOK, AloneIsFresh, [Next]_vars
  PROVE  AloneIsFresh'
<1>1. ASSUME UNCHANGED <<item, process, shared>> PROVE AloneIsFresh'
  BY <1>1 DEF AloneIsFresh, OneAtUpkeep, Fresh, FreshStatting, FreshPlanning, FreshWriting,
              KeptIsProtected, Eligible, Ours, InForce, KeepsVerdict, Allowed, IsNews
<1>2. ASSUME NEW p \in Process, Crashes(p) PROVE AloneIsFresh'
  BY <1>2, OthersIdle, IdleIsFresh, MoverIsFresh DEF Crashes
<1>3. ASSUME NEW i \in Item,
             \/ \E status \in Retired : Retires(i, status)
             \/ \E status \in {"active", "stale"} : WorkerSets(i, status)
             \/ WorkerMakesCritical(i) \/ WorkerGivesTtl(i)
      PROVE  AloneIsFresh'
  BY <1>3, CommitIsFresh DEF Retires, WorkerSets, WorkerMakesCritical, WorkerGivesTtl
<1>4. CASE (\E f \in Path : FileChanges(f)) \/ IntervalPasses \/ UNCHANGED vars
  BY <1>1, <1>4 DEF FileChanges, IntervalPasses, vars
<1> QED BY <1>2, <1>3, <1>4, CheckStartsFresh, StatsAreFresh, PlanIsFresh, DecayIsFresh, FoldIsFresh,
           WriteIsFresh, AgeingIsFresh DEF Next

\* Where one process uses the database, what it has read of every item and every file,
\* and the patch it has made of it, are still so when it commits.  The theorems about
\* what one process does rest on it.
THEOREM FreshWhenAlone == Spec => []Inv
<1>1. Init => Inv
  BY TypeInit DEF Init, Inv, AloneIsFresh, OneAtUpkeep, Fresh, Idle
<1>2. Inv /\ [Next]_vars => Inv'
  BY TypeStep, AloneIsFreshStep DEF Inv
<1> QED BY <1>1, <1>2, PTL DEF Spec

-----------------------------------------------------------------------------
(* What follows for one process. *)

\* What was retired stays retired where one process uses the database: whatever
\* upkeep writes was in force when it read it, and still is.
THEOREM RetirementIsFinalAlone == Spec => RetiredStaysRetiredAlone
<1>1. ASSUME Inv, [Next]_vars, NEW i \in Item, Upkeep, ~shared, item[i].status \in Retired
      PROVE  item'[i].status = item[i].status
  <2>1. ASSUME NEW p \in Process, NEW by \in {"check", "decay", "fold"}, Writes(p, by)
        PROVE  item'[i] = item[i]
    <3>1. FreshWriting(process[p])
      BY <1>1, <2>1 DEF Inv, AloneIsFresh, Fresh, Writes
    <3>2. i \notin DOMAIN process[p].changes
      BY <1>1, <3>1 DEF FreshWriting, InForce, Retired
    <3> QED BY <1>1, <2>1, <3>2, WrittenItem DEF Inv
  <2> QED BY <1>1, <2>1, UpkeepSteps DEF Inv
<1>2. Inv /\ [Next]_vars =>
        [\A i \in Item : Upkeep /\ ~shared /\ item[i].status \in Retired => item'[i].status = item[i].status]_vars
  BY <1>1
<1> QED BY FreshWhenAlone, <1>2, PTL DEF Spec, RetiredStaysRetiredAlone

\* What the check set aside keeps its verdict where one process uses the database,
\* so the next check can bring it back.
THEOREM VerdictKeptAlone == Spec => VerdictIsKeptAlone
<1>1. ASSUME Inv, [Next]_vars, NEW i \in Item, ~shared, item[i].status = "stale", item[i].verdict # {},
             item'[i].status = "stale"
      PROVE  item'[i].verdict # {}
  <2> USE DEF Inv
  <2>1. item[i] \in MemoryItem
    BY <1>1 DEF TypeOK
  <2>2. ASSUME NEW p \in Process, NEW by \in {"check", "decay", "fold"}, Writes(p, by)
        PROVE  item'[i].verdict # {}
    <3> DEFINE c == process[p].changes[i]
    <3>1. FreshWriting(process[p])
      BY <1>1, <2>2 DEF AloneIsFresh, Fresh, Writes
    <3>2. CASE item'[i] = item[i]
      BY <1>1, <3>2
    <3>3. CASE i \in DOMAIN process[p].changes /\ item'[i] = Changed(item[i], c)
      <4>1. /\ item'[i].status = Keep(c.status, item[i].status)
            /\ item'[i].verdict = Keep(c.verdict, item[i].verdict)
        BY <2>1, <3>3, ChangedStatus
      <4>2. c.status # "active"
        BY <1>1, <4>1, MaintenanceAssumption DEF Keep, Status
      <4>3. c.verdict # {}
        BY <1>1, <3>1, <3>3, <4>2 DEF FreshWriting, KeepsVerdict
      <4> QED BY <1>1, <4>1, <4>3 DEF Keep
    <3> QED BY <1>1, <2>2, <3>2, <3>3, WrittenItem
  <2>3. ASSUME NEW j \in Item, NEW new \in MemoryItem, Commits(j, new), new.verdict = item[j].verdict
        PROVE  item'[i].verdict # {}
    BY <1>1, <2>3 DEF Commits, TypeOK
  <2>4. ASSUME NEW j \in Item, NEW status \in Status, NEW aside \in BOOLEAN,
               Commits(j, [item[j] EXCEPT !.status = status, !.aside = aside])
        PROVE  item'[i].verdict # {}
    BY <1>1, <2>4, <2>3 DEF TypeOK, MemoryItem
  <2>5. ASSUME NEW j \in Item, WorkerMakesCritical(j) \/ WorkerGivesTtl(j) PROVE item'[i].verdict # {}
    BY <1>1, <2>5, <2>3 DEF WorkerMakesCritical, WorkerGivesTtl, TypeOK, MemoryItem
  <2>6. ASSUME NEW j \in Item, Ages(j) PROVE item'[i].verdict # {}
    BY <1>1, <2>6, <2>1 DEF Ages, TypeOK, MemoryItem
  <2>7. CASE item' = item
    BY <1>1, <2>7
  <2>8. ASSUME NEW j \in Item, NEW status \in Retired, Retires(j, status) PROVE item'[i].verdict # {}
    BY <2>4, <2>8 DEF Retires, Retired, Status
  <2>9. ASSUME NEW j \in Item, NEW status \in {"active", "stale"}, WorkerSets(j, status)
        PROVE  item'[i].verdict # {}
    <3>1. (item[j].aside /\ status = "stale") \in BOOLEAN /\ status \in Status
      BY <2>9 DEF Status
    <3> QED BY <2>4, <2>9, <3>1 DEF WorkerSets
  <2> QED BY <1>1, <2>2, <2>5, <2>6, <2>7, <2>8, <2>9
          DEF Next, vars, StartsCheck, StatsFiles, PlansCheck, DecayReads, FoldReads, Crashes,
              FileChanges, IntervalPasses
<1>2. Inv /\ [Next]_vars =>
        [\A i \in Item :
           ~shared /\ item[i].status = "stale" /\ item[i].verdict # {} /\ item'[i].status = "stale"
             => item'[i].verdict # {}]_vars
  BY <1>1
<1> QED BY FreshWhenAlone, <1>2, PTL DEF Spec, VerdictIsKeptAlone

\* Where one process uses the database, every commit of a check is accepted and
\* changes memory: a check that finds nothing new writes nothing.
THEOREM ChecksWriteNewsAlone == Spec => NothingNewWritesNothing
<1>1. ASSUME Inv, NEW p \in Process, ~shared, Writes(p, "check") PROVE item' # item
  <2> USE DEF Inv
  <2> DEFINE changes == process[p].changes
  <2>1. FreshWriting(process[p]) /\ process[p].by = "check" /\ process[p] \in Writing
    BY <1>1, Kinds DEF AloneIsFresh, Fresh, Writes, TypeOK
  <2>2. Accepted(changes)
    BY <2>1 DEF FreshWriting, Allowed, Accepted
  <2>3. PICK i \in DOMAIN changes : IsNews(i, changes[i])
    BY <2>1 DEF FreshWriting
  <2>4. i \in Item
    BY <2>1 DEF Writing, Changes
  <2>5. item'[i] = Changed(item[i], changes[i])
    BY <1>1, <2>2, <2>4 DEF Writes, Apply
  <2>6. item[i] \in MemoryItem
    BY <1>1, <2>4 DEF TypeOK
  <2>7. /\ item'[i].status = Keep(changes[i].status, item[i].status)
        /\ item'[i].verdict = Keep(changes[i].verdict, item[i].verdict)
        /\ item'[i].tagged = Keep(changes[i].tagged, item[i].tagged)
    BY <2>5, <2>6, ChangedStatus
  <2>8. item'[i] # item[i]
    BY <2>3, <2>7 DEF IsNews, Keep
  <2> QED BY <2>8
<1>2. Inv /\ [Next]_vars => [\A p \in Process : ~shared /\ Writes(p, "check") => item' # item]_vars
  BY <1>1
<1> QED BY FreshWhenAlone, <1>2, PTL DEF Spec, NothingNewWritesNothing

=============================================================================
