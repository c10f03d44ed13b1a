----------------------------- MODULE Maintenance -----------------------------
(***************************************************************************)
(* What keeps memory current without a model: TTL decay                    *)
(* (daemon/manager.ts), the check of the files an item names               *)
(* (daemon/stale.ts) and the revalidation of recovery rules                *)
(* (core/fold.ts), beside the people and workers that retire, rewrite and  *)
(* protect the same items.                                                 *)
(*                                                                         *)
(* Each of the three reads items, decides, and commits its decision in a   *)
(* transaction of its own that validates against what memory has become    *)
(* but names no version.  A process of Upkeep is one of them at work (a    *)
(* hook, a CLI run, the MCP server): it runs without awaiting, so within   *)
(* one process nothing falls between its read and its commit, and between  *)
(* processes anything does.                                                *)
(*                                                                         *)
(* Abstractions.  "superseded" stands for archived too.  Time is whether   *)
(* an item has gone longer than its time-to-live without validation.  The  *)
(* paths an item names do not change, and ignored paths and the limits on  *)
(* items and paths per check are left out.                                 *)
(***************************************************************************)
EXTENDS Integers, FiniteSets

CONSTANTS
  Item,     \* ids of memory items
  Path,     \* files of the project
  Needs,    \* item -> the files it needs to exist (itemReferences.present)
  Denies,   \* item -> the files it says do not exist (itemReferences.absent)
  Rule,     \* items the fold learned from a recovery
  Said,     \* items whose source is the user
  Process,  \* processes that may be at upkeep at once
  None      \* what a change leaves alone

Status == {"active", "stale", "superseded", "deleted"}
Retired == {"superseded", "deleted"}

ASSUME MaintenanceAssumption ==
  /\ Needs \in [Item -> SUBSET Path] /\ Denies \in [Item -> SUBSET Path]
  /\ Rule \subseteq Item /\ Said \subseteq Item
  /\ None \notin Status /\ None \notin BOOLEAN
  /\ \A paths \in SUBSET Path : paths # None

VARIABLES
  item,     \* memory_items
  files,    \* the files that exist, as seen from the project's root
  recent,   \* meta refs_verified_at is less than an interval ago
  process,  \* each process at upkeep
  shared    \* whether several processes use this database; never changes

vars == <<item, files, recent, process, shared>>

Maybe(S) == {None} \cup S

\* verdict is fields.stale_paths, tagged the tag stale_reference, overdue that the
\* last validation is longer ago than a time-to-live lasts.  aside is history, which no
\* action reads: a check's commit set the item stale, and it has stayed so.
MemoryItem ==
  [status : Status, protected : BOOLEAN, ttl : BOOLEAN, overdue : BOOLEAN,
   verdict : SUBSET Path, tagged : BOOLEAN, aside : BOOLEAN]

\* What one commit does to one item.
Change ==
  [status : Maybe(Status), verdict : Maybe(SUBSET Path), tagged : Maybe(BOOLEAN),
   revalidated : BOOLEAN]
Changes == UNION {[S -> Change] : S \in SUBSET Item}

Idle == [at |-> "idle"]
Statting == [at : {"statting"}, eligible : SUBSET Item, ours : SUBSET Item, kept : SUBSET Item]
Planning ==
  [at : {"planning"}, broken : SUBSET Item, paths : [Item -> SUBSET Path],
   revived : SUBSET Item, kept : SUBSET Item]
Writing == [at : {"writing"}, by : {"check", "decay", "fold"}, changes : Changes]

TypeOK ==
  /\ item \in [Item -> MemoryItem]
  /\ files \subseteq Path
  /\ recent \in BOOLEAN
  /\ process \in [Process -> {Idle} \cup Statting \cup Planning \cup Writing]
  /\ shared \in BOOLEAN

New(protected) ==
  [status |-> "active", protected |-> protected, ttl |-> FALSE, overdue |-> FALSE,
   verdict |-> {}, tagged |-> FALSE, aside |-> FALSE]

Init ==
  /\ \E critical \in SUBSET Said : item = [i \in Item |-> New(i \in critical)]
  /\ files \in SUBSET Path
  /\ recent = FALSE
  /\ process = [p \in Process |-> Idle]
  /\ shared \in BOOLEAN

-----------------------------------------------------------------------------
(* Commits: what commitPatch accepts of an update, and what it writes.     *)

\* mutant: a protected item may be set aside like any other
AcceptsAll(changes) == TRUE
Accepted(changes) ==
  \A i \in DOMAIN changes : item[i].protected => changes[i].status \in {None, "active"}

\* mutant: a field the update leaves out is cleared
ClearIfLeftOut(new, old) == new
Keep(new, old) == IF new = None THEN old ELSE new

\* Of the changes, the check's alone set an item stale and give it a verdict.
IsAside(old, c) ==
  CASE c.status = None -> old.aside
    [] c.status = "stale" -> old.aside \/ c.verdict # None
    [] OTHER -> FALSE

Changed(old, c) ==
  [old EXCEPT !.status = Keep(c.status, @), !.verdict = Keep(c.verdict, @),
              !.tagged = Keep(c.tagged, @), !.ttl = @ \/ c.revalidated,
              !.overdue = @ /\ ~c.revalidated, !.aside = IsAside(old, c)]

Apply(changes) ==
  item' = [i \in Item |-> IF i \in DOMAIN changes THEN Changed(item[i], changes[i]) ELSE item[i]]

LeaveAlone == [status |-> None, verdict |-> None, tagged |-> None, revalidated |-> FALSE]

\* JavaScript does not yield between two statements: alone, a process at upkeep is
\* not interrupted by another writer.
Uninterrupted == shared \/ \A p \in Process : process[p] = Idle

Moves(p, next) == process' = [process EXCEPT ![p] = next]

-----------------------------------------------------------------------------
(* The check of file references, run at most once an interval unless       *)
(* forced: it reads the items, stats their files, reads the items again    *)
(* and commits one patch of what it found new.                             *)

Ours(i) == item[i].verdict # {}

\* Only the check's own verdicts are revisited.
\* mutant: a verdict of its own is enough, whatever the status has become
EligibleByVerdict(i) == item[i].status # "deleted" /\ (item[i].status = "active" \/ Ours(i))
\* mutant: what was set aside is not looked at again
EligibleIfActive(i) == item[i].status = "active"
Eligible(i) == item[i].status = "active" \/ (item[i].status = "stale" /\ Ours(i))

StartsCheck(p, force) ==
  /\ process[p] = Idle /\ Uninterrupted
  /\ force \/ ~recent
  /\ recent' = TRUE
  /\ Moves(p, [at |-> "statting",
               eligible |-> {i \in Item : Eligible(i) /\ Needs[i] \cup Denies[i] # {}},
               ours |-> {i \in Item : Ours(i)},
               kept |-> {i \in Item : item[i].protected}])
  /\ UNCHANGED <<item, files, shared>>

Missing(i) == Needs[i] \ files
Appeared(i) == Denies[i] \cap files

\* One survivor means the item may still be true.
Broken(i) == (Needs[i] # {} /\ Missing(i) = Needs[i]) \/ Appeared(i) # {}

StatsFiles(p) ==
  /\ process[p].at = "statting"
  /\ LET broken == {i \in process[p].eligible : Broken(i)}
     IN  Moves(p, [at |-> "planning", broken |-> broken,
                   paths |-> [i \in Item |-> IF i \in broken THEN Missing(i) \cup Appeared(i) ELSE {}],
                   revived |-> (process[p].eligible \ broken) \cap process[p].ours,
                   kept |-> process[p].kept])
  /\ UNCHANGED <<item, files, recent, shared>>

\* The second read finds every item that is not deleted.
Found(i) == item[i].status # "deleted"

\* The same verdict is not written twice.
\* mutant: the paths alone are compared, not whether the item is still set aside
SetAsideByPaths(i, paths) == item[i].verdict = paths
\* mutant: nothing is recognised as recorded
NeverSetAside(i, paths) == FALSE
AlreadySetAside(i, paths) == item[i].verdict = paths /\ item[i].status = "stale"
AlreadyFlagged(i, paths) == item[i].verdict = paths /\ item[i].tagged

SetAside(paths) == [LeaveAlone EXCEPT !.status = "stale", !.verdict = paths]
Flag(paths) == [LeaveAlone EXCEPT !.verdict = paths, !.tagged = TRUE]
\* mutant: the verdict is cleared and the item left where it is
OnlyCleared(i) == [LeaveAlone EXCEPT !.verdict = {}, !.tagged = FALSE]
Revive(i) ==
  [LeaveAlone EXCEPT !.status = IF item[i].status = "stale" THEN "active" ELSE None,
                     !.verdict = {}, !.tagged = FALSE]

PlansCheck(p) ==
  /\ process[p].at = "planning"
  /\ LET found == process[p]
         aside == {i \in found.broken \ found.kept : Found(i) /\ ~AlreadySetAside(i, found.paths[i])}
         flagged == {i \in found.broken \cap found.kept : Found(i) /\ ~AlreadyFlagged(i, found.paths[i])}
         revived == {i \in found.revived : Found(i)}
         changes == [i \in aside \cup flagged \cup revived |->
                       IF i \in aside THEN SetAside(found.paths[i])
                       ELSE IF i \in flagged THEN Flag(found.paths[i]) ELSE Revive(i)]
     IN  Moves(p, IF DOMAIN changes = {} THEN Idle
                  ELSE [at |-> "writing", by |-> "check", changes |-> changes])
  /\ UNCHANGED <<item, files, recent, shared>>

-----------------------------------------------------------------------------
(* Decay and revalidation.                                                 *)

Overdue(i) == item[i].ttl /\ item[i].overdue

DecayReads(p) ==
  /\ process[p] = Idle /\ Uninterrupted
  /\ LET expired == {i \in Item : item[i].status = "active" /\ Overdue(i)}
     IN  /\ expired # {}
         /\ Moves(p, [at |-> "writing", by |-> "decay",
                      changes |-> [i \in expired |-> [LeaveAlone EXCEPT !.status = "stale"]]])
  /\ UNCHANGED <<item, files, recent, shared>>

\* The mistake was made again: the rule is touched, revived if it had faded, and
\* freed of the check's verdict.
Revalidate(i) ==
  [status |-> IF item[i].status = "stale" THEN "active" ELSE None,
   verdict |-> IF Ours(i) THEN {} ELSE None, tagged |-> None, revalidated |-> TRUE]

FoldReads(p, seen) ==
  /\ process[p] = Idle /\ Uninterrupted
  /\ LET rules == {i \in seen : item[i].status \in {"active", "stale"} /\ ~item[i].protected}
     IN  /\ rules # {}
         /\ Moves(p, [at |-> "writing", by |-> "fold", changes |-> [i \in rules |-> Revalidate(i)]])
  /\ UNCHANGED <<item, files, recent, shared>>

\* One violation rejects the whole patch.
Writes(p, by) ==
  /\ process[p].at = "writing" /\ process[p].by = by
  /\ IF Accepted(process[p].changes) THEN Apply(process[p].changes) ELSE UNCHANGED item
  /\ Moves(p, Idle)
  /\ UNCHANGED <<files, recent, shared>>

Crashes(p) ==
  /\ process[p] # Idle
  /\ Moves(p, Idle)
  /\ UNCHANGED <<item, files, recent, shared>>

-----------------------------------------------------------------------------
(* Other writers: each commit of a person or of a worker is one step.      *)

Commits(i, new) ==
  /\ Uninterrupted
  /\ item' = [item EXCEPT ![i] = new]
  /\ UNCHANGED <<files, recent, process, shared>>

\* A person deletes, releasing what is protected; anyone else supersedes what is not.
Retires(i, status) ==
  /\ status = "deleted" \/ ~item[i].protected
  /\ Commits(i, [item[i] EXCEPT !.status = status, !.aside = FALSE])

\* A worker's update may write any status, but weaken nothing that is protected.
WorkerSets(i, status) ==
  /\ item[i].protected => status = "active"
  /\ Commits(i, [item[i] EXCEPT !.status = status, !.aside = @ /\ status = "stale"])

WorkerMakesCritical(i) == i \in Said /\ Commits(i, [item[i] EXCEPT !.protected = TRUE])

WorkerGivesTtl(i) == Commits(i, [item[i] EXCEPT !.ttl = TRUE])

-----------------------------------------------------------------------------
(* The world. *)

FileChanges(f) ==
  /\ files' = IF f \in files THEN files \ {f} ELSE files \cup {f}
  /\ UNCHANGED <<item, recent, process, shared>>

Ages(i) ==
  /\ ~item[i].overdue
  /\ item' = [item EXCEPT ![i].overdue = TRUE]
  /\ UNCHANGED <<files, recent, process, shared>>

IntervalPasses ==
  /\ recent
  /\ recent' = FALSE
  /\ UNCHANGED <<item, files, process, shared>>

Next ==
  \/ \E p \in Process, force \in BOOLEAN : StartsCheck(p, force)
  \/ \E p \in Process : StatsFiles(p)
  \/ \E p \in Process : PlansCheck(p)
  \/ \E p \in Process : DecayReads(p)
  \/ \E p \in Process, seen \in SUBSET Rule : FoldReads(p, seen)
  \/ \E p \in Process, by \in {"check", "decay", "fold"} : Writes(p, by)
  \/ \E p \in Process : Crashes(p)
  \/ \E i \in Item, status \in Retired : Retires(i, status)
  \/ \E i \in Item, status \in {"active", "stale"} : WorkerSets(i, status)
  \/ \E i \in Item : WorkerMakesCritical(i)
  \/ \E i \in Item : WorkerGivesTtl(i)
  \/ \E f \in Path : FileChanges(f)
  \/ \E i \in Item : Ages(i)
  \/ IntervalPasses

Spec == Init /\ [][Next]_vars

\* Maintenance keeps coming while the agent works, and a check is not killed every
\* time before its commit.
Fairness ==
  /\ WF_vars(IntervalPasses)
  /\ SF_vars(\E p \in Process : StartsCheck(p, FALSE))
  /\ \A p \in Process :
       /\ SF_vars(StatsFiles(p)) /\ SF_vars(PlansCheck(p)) /\ SF_vars(Writes(p, "check"))
       /\ WF_vars(Writes(p, "decay")) /\ WF_vars(Writes(p, "fold"))
FairSpec == Spec /\ Fairness

-----------------------------------------------------------------------------
(* Properties. *)

Upkeep == \E p \in Process : process[p].at = "writing" /\ process'[p] = Idle

\* Upkeep never sets aside what the user said and marked critical, also when it was
\* marked after the check or the decay read it.
ProtectedKeptByUpkeep ==
  [][\A i \in Item :
       Upkeep /\ item[i].protected /\ item[i].status = "active" => item'[i].status = "active"]_vars

\* What was retired stays retired: decay and the check only move items between
\* active and stale, and the fold does not revive a rule that was superseded or
\* removed for a reason.
RetiredStaysRetired ==
  [][\A i \in Item :
       Upkeep /\ item[i].status \in Retired => item'[i].status = item[i].status]_vars

\* The same where one process uses the database, as the code assumes.
RetiredStaysRetiredAlone ==
  [][\A i \in Item :
       Upkeep /\ ~shared /\ item[i].status \in Retired => item'[i].status = item[i].status]_vars

\* A branch switch must not cost memory: an item the check set aside carries its
\* verdict, without which no check would look at it again, until it is brought
\* back (one process).
VerdictIsKeptAlone ==
  [][\A i \in Item :
       ~shared /\ item[i].status = "stale" /\ item[i].verdict # {} /\ item'[i].status = "stale"
         => item'[i].verdict # {}]_vars

\* A check that finds nothing new writes nothing, and what it writes is accepted
\* (one process): every commit of a check changes memory.
NothingNewWritesNothing ==
  [][\A p \in Process : ~shared /\ Writes(p, "check") => item' # item]_vars

\* An item whose files are gone for good stops being served, whoever else writes to
\* it, unless it is protected.
MissingIsMarked ==
  \A i \in Item :
    <>[](Broken(i)) => []<>(item[i].status # "active" \/ item[i].protected)

\* What a check set aside comes back when its files do, however its commits and those
\* of others interleave, with one exception: several processes use the database and the
\* verdict was cleared under an item that stayed stale (one check revives it, having read
\* it active, while another sets it aside).  No check looks at such an item again.
SetAsideByCheck(i) == item[i].status = "stale" /\ (item[i].verdict # {} \/ item[i].aside)
ClearedInARace(i) == shared /\ item[i].aside /\ item[i].verdict = {}
BroughtBack ==
  \A i \in Item : <>[](~Broken(i)) => []<>(~SetAsideByCheck(i) \/ ClearedInARace(i))

\* The same without the exception.
AlwaysBroughtBack == \A i \in Item : <>[](~Broken(i)) => []<>(~SetAsideByCheck(i))

\* Every retirement path is guarded: what the user said and marked critical is
\* served as long as nobody retires it (isLive).
Served(i) == item[i].status = "active" /\ ~Overdue(i)
ProtectedIsServed ==
  \A i \in Item : item[i].protected /\ item[i].status = "active" => Served(i)

=============================================================================
