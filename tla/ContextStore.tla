----------------------------- MODULE ContextStore -----------------------------
(***************************************************************************)
(* The patch log and the tables materialized from it: commitPatch and      *)
(* replay of store/store.ts, with the callers that reach them.  A person   *)
(* (CLI and MCP, daemon/manager.ts), the deterministic passes run at       *)
(* ingest and maintenance, an import, and workers share one database.      *)
(*                                                                         *)
(* commitPatch is one SQLite transaction, so each commit is one step.  A   *)
(* worker is not: it reads a batch and the state, awaits a model, and      *)
(* commits against whatever the state has become (workers/runner.ts), so   *)
(* any number of other steps fall between WorkerReads and WorkerCommits.   *)
(***************************************************************************)
EXTENDS Patch, Sequences, SequencesExt

CONSTANTS
  Worker,            \* worker runs that may be under way at once
  WorkerTasks,       \* subset of {"events", "conflicts"}: what the runs read
  UserPatches,       \* patches a person writes (remember, retire, setTask...)
  FoldPatches,       \* patches of the deterministic passes
  ImportPatches,     \* patches of an imported log
  WorkerPatches,     \* patches a model may answer with
  MaxClock,          \* bound: instants told apart
  MaxVersion         \* bound: commits in a behaviour

ASSUME StoreAssumption ==
  /\ WorkerTasks \subseteq {"events", "conflicts"}
  /\ UserPatches \cup FoldPatches \cup ImportPatches \cup WorkerPatches \subseteq StatePatch
  /\ MaxClock \in Nat /\ MaxVersion \in Nat

VARIABLES
  items,     \* memory_items: id -> item, deleted ones included
  edges,     \* memory_edges
  working,   \* working_memory, None before the first write
  handAt,    \* meta working_set_by_hand_at
  log,       \* patches, in seq order
  version,   \* meta state_version
  events,    \* events: id -> [user, at], user telling USER_MESSAGE from the rest
  worker,    \* each worker run
  clock      \* the wall clock

vars == <<items, edges, working, handAt, log, version, events, worker, clock>>
store == <<items, edges, working, handAt, log, version>>

Origin == {"worker", "deterministic", "user", "import"}
Event == [user : BOOLEAN, at : Nat]
LogEntry == [patch : StatePatch, origin : Origin, base : Nat, new : Nat]

\* A run that is asking holds what it read: the version named in its prompt,
\* the timestamp of the newest event of its batch, and the instant it read them.
Idle == [phase |-> "idle"]
Asking == [phase : {"asking"}, pass : {1, 2}, version : Nat, observed : Maybe(Nat), readAt : Nat]

TypeOK ==
  /\ DOMAIN items \subseteq Id /\ items \in [DOMAIN items -> MemoryItem]
  /\ edges \subseteq MemoryEdge
  /\ working \in Maybe(Task)
  /\ handAt \in Maybe(Nat)
  /\ log \in Seq(LogEntry)
  /\ version \in Nat
  /\ DOMAIN events \subseteq EventId /\ events \in [DOMAIN events -> Event]
  /\ worker \in [Worker -> {Idle} \cup Asking]
  /\ clock \in Nat

Init ==
  /\ items = <<>>
  /\ edges = {}
  /\ working = None
  /\ handAt = None
  /\ log = <<>>
  /\ version = 0
  /\ events = <<>>
  /\ worker = [w \in Worker |-> Idle]
  /\ clock = 0

-----------------------------------------------------------------------------
(* What the store checks before it validates. *)

\* An attribution to the user stands only with a real USER_MESSAGE behind it.
\* mutant: any stored event proves it
CitesAnEvent(a) == a.evidence \cap DOMAIN events # {}
CitesUserMessage(a) == \E e \in a.evidence \cap DOMAIN events : events[e].user

VerifyUserProvenance(p) ==
  [p EXCEPT !.add =
     [i \in DOMAIN p.add |->
        IF i \notin Entries(p.add) \/ p.add[i].source # "user" \/ CitesUserMessage(p.add[i]) THEN p.add[i]
        ELSE [p.add[i] EXCEPT !.source = "agent", !.confidence = LowerOf(@, MaxInferred)]]]

\* A worker closes a protected item only by citing an event that exists.
CloseIsProven(c) ==
  c.id \in DOMAIN items /\ IsProtected(items[c.id]) => c.evidence \cap DOMAIN events # {}

VerifyClosures(p) == [p EXCEPT !.close = {c \in @ : CloseIsProven(c)}]

\* The task was set by hand after the newest event the patch was derived from.
\* mutant: last write wins
NeverStale(observed) == FALSE
StaleWorking(observed) == observed # None /\ handAt # None /\ handAt > observed

Checked(raw, origin, observed) ==
  LET normalized == NormalizePatch(raw)
      pruned == IF origin = "user" THEN normalized ELSE PruneInertOperations(normalized, items)
      verified == IF origin = "worker" THEN VerifyClosures(VerifyUserProvenance(pruned)) ELSE pruned
  IN  IF origin = "worker" /\ StaleWorking(observed)
      THEN [verified EXCEPT !.working = None]
      ELSE verified

\* The rows written back: those the patch reports, the others left as they are.
Materialize(p) ==
  LET next == ApplyPatch(p, items)
  IN  [x \in DOMAIN next |-> IF x \in Dirty(p, items) THEN next[x] ELSE items[x]]

CommitPatch(raw, origin, observed) ==
  LET p == Checked(raw, origin, observed)
  IN  /\ version < MaxVersion
      /\ ValidatePatch(p, origin, version, items)
      /\ items' = Materialize(p)
      /\ edges' = ApplyEdges(p, edges)
      /\ working' = IF p.working = None THEN working ELSE p.working
      /\ handAt' = IF origin = "user" /\ p.working # None THEN clock ELSE handAt
      /\ log' = Append(log, [patch |-> p, origin |-> origin, base |-> version, new |-> version + 1])
      /\ version' = version + 1

-----------------------------------------------------------------------------
(* Callers. A rejected patch of a person, a fold or an import changes      *)
(* nothing, so only the accepted ones are steps.                           *)

\* Ids the store mints (newId) are new: the patches of a person and of the fold
\* are tried with every id that is.
MintsFreshIds(p) == AddedIds(p) \cap DOMAIN items = {}

UserCommits(p) ==
  /\ MintsFreshIds(p)
  /\ CommitPatch(p, "user", None)
  /\ UNCHANGED <<events, worker, clock>>

FoldCommits(p) ==
  /\ MintsFreshIds(p)
  /\ CommitPatch(p, "deterministic", None)
  /\ UNCHANGED <<events, worker, clock>>

\* The import skips an entry whose added items are all here already, unless forced.
AlreadyPresent(p) == AddedIds(p) # {} /\ AddedIds(p) \subseteq DOMAIN items

\* An entry a person wrote is committed as a person's again, stamp included.
ImportCommits(p, origin, force) ==
  /\ force \/ ~AlreadyPresent(p)
  /\ CommitPatch([p EXCEPT !.base = None], origin, None)
  /\ UNCHANGED <<events, worker, clock>>

Newest(batch) == LastOf({events[e].at : e \in batch})

\* The run selects its batch and renders its prompt. A conflicts run reads
\* items only, so there is no newest event.
WorkerReads(w, task, batch) ==
  /\ worker[w] = Idle
  /\ batch \subseteq DOMAIN events
  /\ task = "events" <=> batch # {}
  /\ worker' = [worker EXCEPT ![w] =
       [phase |-> "asking", pass |-> 1, version |-> version,
        observed |-> IF batch = {} THEN None ELSE Newest(batch), readAt |-> clock]]
  /\ UNCHANGED <<store, events, clock>>

\* The model answered with p; it may state the version its prompt named.
Answer(w, p, stated) == [p EXCEPT !.base = IF stated THEN worker[w].version ELSE None]

WorkerCommits(w, p, stated) ==
  /\ worker[w] # Idle
  /\ CommitPatch(Answer(w, p, stated), "worker", worker[w].observed)
  /\ worker' = [worker EXCEPT ![w] = Idle]
  /\ UNCHANGED <<events, clock>>

\* Nothing is wrong with the patch but that pruning left it empty.
OnlyEmpty(p) == IsEmptyPatch(p) /\ VersionMatches(p, version) /\ p.release = {}

\* Such a patch ends the run as a no-op; any other rejected one is repaired
\* once, on the prompt first built.
WorkerRejected(w, p, stated) ==
  /\ worker[w] # Idle
  /\ LET checked == Checked(Answer(w, p, stated), "worker", worker[w].observed)
         ends == worker[w].pass = 2 \/ OnlyEmpty(checked)
     IN  /\ ~ValidatePatch(checked, "worker", version, items)
         /\ worker' = [worker EXCEPT ![w] = IF ends THEN Idle ELSE [@ EXCEPT !.pass = 2]]
  /\ UNCHANGED <<store, events, clock>>

\* No provider, no answer in time, or twice no patch at all.
WorkerFails(w) ==
  /\ worker[w] # Idle
  /\ worker' = [worker EXCEPT ![w] = Idle]
  /\ UNCHANGED <<store, events, clock>>

\* An event is stored with the timestamp its adapter gave it, possibly an old one.
InsertEvent(e, user, at) ==
  /\ e \notin DOMAIN events
  /\ at <= clock
  /\ events' = [x \in DOMAIN events \cup {e} |-> IF x = e THEN [user |-> user, at |-> at] ELSE events[x]]
  /\ UNCHANGED <<store, worker, clock>>

\* Retention deletes the raw events of long ago, cited as evidence or not.
PruneRawEvents(cutoff) ==
  /\ cutoff < clock
  /\ \E e \in DOMAIN events : events[e].at <= cutoff
  /\ events' = Restrict(events, {e \in DOMAIN events : events[e].at > cutoff})
  /\ UNCHANGED <<store, worker, clock>>

Tick ==
  /\ clock < MaxClock
  /\ clock' = clock + 1
  /\ UNCHANGED <<store, events, worker>>

Next ==
  \/ \E p \in UserPatches : UserCommits(p)
  \/ \E p \in FoldPatches : FoldCommits(p)
  \/ \E p \in ImportPatches, origin \in {"user", "import"}, force \in BOOLEAN : ImportCommits(p, origin, force)
  \/ \E w \in Worker, task \in WorkerTasks, batch \in SUBSET EventId : WorkerReads(w, task, batch)
  \/ \E w \in Worker, p \in WorkerPatches, stated \in BOOLEAN : WorkerCommits(w, p, stated)
  \/ \E w \in Worker, p \in WorkerPatches, stated \in BOOLEAN : WorkerRejected(w, p, stated)
  \/ \E w \in Worker : WorkerFails(w)
  \/ \E e \in EventId, user \in BOOLEAN, at \in 0 .. MaxClock : InsertEvent(e, user, at)
  \/ \E cutoff \in 0 .. MaxClock : PruneRawEvents(cutoff)
  \/ Tick

Spec == Init /\ [][Next]_vars

-----------------------------------------------------------------------------
(* Safety. *)

Committed == log' # log
LastEntry == log'[Len(log')]
WorkerCommitted == Committed /\ LastEntry.origin = "worker"

\* What the user said and marked critical stays in force: no commit of any
\* origin retires it, lowers it below critical or makes it less certain, unless a
\* person removes it and names it as released in that same patch (invariant 12;
\* a worker's answer to an old prompt may meet an item protected since).
Kept(old, new) ==
  new.status = "active" /\ IsProtected(new) /\ new.confidence >= old.confidence
ReleasedByAPerson(x) ==
  Committed /\ LastEntry.origin \in {"user", "import"} /\ x \in LastEntry.patch.release \cap LastEntry.patch.remove
ProtectedKept ==
  [][\A x \in DOMAIN items :
       items[x].status = "active" /\ IsProtected(items[x])
         => ReleasedByAPerson(x) \/ (x \in DOMAIN items' /\ Kept(items[x], items'[x]))]_vars

\* No row refers to a row that was never written: both ends of every edge, what
\* an item replaced and what replaced it.  An edge never joins an item to itself,
\* and a symmetric relation is stored in one direction only.
EdgeIsSound(e) ==
  /\ e.from # e.to
  /\ {e.from, e.to} \subseteq DOMAIN items
  /\ IsSymmetric(e.kind) => e.from < e.to
LineageIsSound(x) == items[x].supersedes \cup ({items[x].supersededBy} \ {None}) \subseteq DOMAIN items
ReferencesResolve ==
  /\ \A e \in edges : EdgeIsSound(e)
  /\ \A x \in DOMAIN items : LineageIsSound(x)

\* replay: what each version of the log folds to, from nothing.
Replayed(entries) ==
  LET state[n \in 0 .. Len(entries)] ==
        IF n = 0 THEN [items |-> <<>>, working |-> None]
        ELSE LET p == entries[n].patch
             IN  [items |-> ApplyPatch(p, state[n - 1].items),
                  working |-> IF p.working = None THEN state[n - 1].working ELSE p.working]
  IN  state
Replay == Replayed(log)[Len(log)]

\* The log is the source of truth: folding it from nothing gives every item the
\* store serves, up to the list of what the item replaced, and the task.
WithoutLineage(mem) == [x \in DOMAIN mem |-> [mem[x] EXCEPT !.supersedes = {}]]
ReplayMatches ==
  /\ WithoutLineage(Replay.items) = WithoutLineage(items)
  /\ Replay.working = working
  /\ version = Len(log)

\* The doc's stronger claim, that replaying rebuilds exactly the same items.
ReplayIsExact == Replay.items = items

\* The log is linear: each entry starts at the version the one before it left,
\* and a patch that names the version it was built on was applied to that very one.
LogIsLinear ==
  /\ version = Len(log)
  /\ \A i \in DOMAIN log :
       /\ log[i].base = i - 1 /\ log[i].new = i
       /\ log[i].patch.base \in {None, log[i].base}

\* A worker cannot make its own words the user's: an item it adds as the user's
\* cites an event that is, as it commits, a message of the user (it may have been
\* pruned since the worker read it).
UserClaimsAreCited ==
  [][WorkerCommitted =>
       \A x \in DOMAIN items' \ DOMAIN items :
         items'[x].source = "user" =>
           \E e \in items'[x].evidence \cap DOMAIN events : events[e].user]_vars

\* A worker closes what the user marked critical only by citing, for that very
\* item, an event that exists as it commits.
ProtectedClosedOnEvidence ==
  [][WorkerCommitted =>
       \A x \in DOMAIN items :
         IsProtected(items[x]) /\ ~items[x].closed /\ items'[x].closed
           => \E c \in LastEntry.patch.close : c.id = x /\ c.evidence \cap DOMAIN events # {}]_vars

\* A task set by hand while a worker was asking survives the answer of a worker that
\* read events (invariant 41).  One that read items only has no newest event to compare
\* with, so its answer is written over a task set meanwhile.
HandSetTaskSurvives ==
  [][\A w \in Worker :
       worker[w] # Idle /\ worker[w].observed # None /\ WorkerCommitted /\ worker'[w] # worker[w] /\ working' # working
         => handAt = None \/ handAt <= worker[w].readAt]_vars

\* Two runs over the same events do not remember them twice: what a worker or a
\* deterministic pass adds never repeats an item already in force, unless it is
\* there to replace one.
NoEcho ==
  [][Committed /\ LastEntry.origin # "user" =>
       \A x \in DOMAIN items' \ DOMAIN items, y \in DOMAIN items :
         /\ items'[x].status = "active" /\ items[y].status = "active"
         /\ items'[x].category = items[y].category
         /\ \E i \in Entries(LastEntry.patch.add) :
              LastEntry.patch.add[i].id = x /\ LastEntry.patch.add[i].text = items[y].text
         => items'[x].supersedes # {}]_vars

\* Importing the same log again skips what is already here: an entry just imported
\* is not one the next import would apply.
WouldImport(p, origin) ==
  /\ ~AlreadyPresent(p)
  /\ ValidatePatch(Checked([p EXCEPT !.base = None], origin, None), origin, version, items)
ImportIsIdempotent ==
  [][\A p \in ImportPatches, origin \in {"user", "import"} :
       ImportCommits(p, origin, FALSE) => ~WouldImport(p, origin)']_vars

=============================================================================
