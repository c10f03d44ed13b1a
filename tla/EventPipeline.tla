----------------------------- MODULE EventPipeline -----------------------------
(***************************************************************************)
(* The way of an event from the agent to a resolved row: daemon/ingest.ts, *)
(* daemon/tail.ts and daemon/manager.ts over the events table of           *)
(* store/store.ts, with the worker of workers/runner.ts at the far end.    *)
(*                                                                         *)
(* Hooks, a transcript tailer, the lifecycle's refold and workers are      *)
(* processes sharing one database, each statement of theirs a transaction  *)
(* of its own.  So a process keeps what it read in memory between its      *)
(* steps, and a crash (a killed hook, an exception out of SQLite) loses    *)
(* that memory and nothing else.                                           *)
(*                                                                         *)
(* Abstractions.  A record of the transcript is a number, in the order of  *)
(* its timestamp, and takes two units of the file, so that it can be half  *)
(* written.  What the engine and the fold make of a record is a constant   *)
(* (Action, Verdicts).  One session.  Whether a patch is accepted is free: *)
(* ContextStore says what decides it.                                      *)
(***************************************************************************)
EXTENDS Integers, FiniteSets, Sequences, SequencesExt

CONSTANTS
  Records,    \* how many records the agent writes
  Process,    \* hooks, tailers and refolds that may be under way at once
  Worker,     \* worker runs that may be under way at once
  Action,     \* record -> what DeterministicEngine.process decides
  Verdicts,   \* record -> what deterministicFold may make of it
  Low,        \* stored records of importance low: the ones that may be shed
  Telling,    \* records a model can derive something from
  MaxQueue,   \* retention.max_queue_events
  MaxBatch,   \* maxEventsPerRun of a worker
  MaxStarts,  \* bound: hooks, tailers and refolds started in a behaviour
  None

Record == 1 .. Records

ASSUME PipelineAssumption ==
  /\ Records \in Nat
  /\ Action \in [Record -> {"discard", "persist", "persist_and_queue"}]
  /\ Verdicts \in [Record -> SUBSET {"consumed", "inert", "none"}]
  /\ \A r \in Record : Verdicts[r] # {}
  /\ Low \subseteq {r \in Record : Action[r] = "persist"}  \* what needs semantics is medium or more
  /\ Telling \subseteq Record
  /\ MaxQueue \in Nat /\ MaxBatch \in Nat \ {0} /\ MaxStarts \in Nat
  /\ None \notin Nat

VARIABLES
  size,     \* units of the transcript written so far
  cursor,   \* ingest_cursors: units read and accounted for
  events,   \* events table: record -> [done, inert]
  proc,     \* each hook, tailer or refold
  worker,   \* each worker run
  starts,   \* processes started so far
  derived,  \* history: records some accepted patch was built from
  closed    \* history: records ever resolved

vars == <<size, cursor, events, proc, worker, starts, derived, closed>>

\* done: processed_at is set.  inert: INERT_REASON is among the reasons.
Event == [done : BOOLEAN, inert : BOOLEAN]
Fresh == [done |-> FALSE, inert |-> FALSE]
Mark == [inert : BOOLEAN, ids : SUBSET Record]

\* todo: records still to screen.  accepted: the events it is to fold, the ones it
\* stored or, for a refold, found waiting.  marks: rows still to be closed.  offset: the
\* cursor to write at the end, None when this is no tailer.
Idle == [pc |-> "idle"]
Busy ==
  [pc : {"screen", "insert", "mark", "shed", "cursor"}, refold : BOOLEAN,
   todo : SUBSET Record, accepted : SUBSET Record, marks : Seq(Mark),
   offset : Nat \cup {None}]
Run == [pc : {"asking", "mark"}, batch : SUBSET Record]

TypeOK ==
  /\ size \in 0 .. 2 * Records /\ cursor \in 0 .. 2 * Records
  /\ DOMAIN events \subseteq Record /\ events \in [DOMAIN events -> Event]
  /\ proc \in [Process -> {Idle} \cup Busy]
  /\ worker \in [Worker -> {Idle} \cup Run]
  /\ starts \in 0 .. MaxStarts
  /\ derived \subseteq Record /\ closed \subseteq Record

Init ==
  /\ size = 0 /\ cursor = 0
  /\ events = <<>>
  /\ proc = [p \in Process |-> Idle]
  /\ worker = [w \in Worker |-> Idle]
  /\ starts = 0
  /\ derived = {} /\ closed = {}

-----------------------------------------------------------------------------
(* The events table. *)

Stored == DOMAIN events
Pending == {r \in Stored : ~events[r].done}

\* The n oldest of S, or all of them.
First(n, S) == {r \in S : Cardinality({s \in S : s < r}) < n}

\* Resolve rows, as inert or not: a row already resolved is written again, and
\* keeps the inert reason it has; one that is gone is not.
Close(ids, inert) ==
  /\ events' = [r \in Stored |->
       IF r \in ids THEN [done |-> TRUE, inert |-> events[r].inert \/ inert] ELSE events[r]]
  /\ closed' = closed \cup (ids \cap Stored)

-----------------------------------------------------------------------------
(* The agent, and what reads it. *)

AgentWrites ==
  /\ size < 2 * Records
  /\ size' = size + 1
  /\ UNCHANGED <<cursor, events, proc, worker, starts, derived, closed>>

Starts(p, todo, accepted, offset, refold) ==
  /\ proc[p] = Idle /\ starts < MaxStarts
  /\ starts' = starts + 1
  /\ proc' = [proc EXCEPT ![p] =
       [pc |-> "screen", refold |-> refold, todo |-> todo, accepted |-> accepted,
        marks |-> <<>>, offset |-> offset]]
  /\ UNCHANGED <<size, cursor, events, worker, derived, closed>>

\* A hook carries one record, which the transcript may not hold in full yet.
HookStarts(p, r) == 2 * r - 1 <= size /\ Starts(p, {r}, {}, None, FALSE)

\* Whole lines from the cursor on (or from the start): a line that is half
\* written, or that the cursor is in the middle of, does not parse.
\* mutant of ReadUpTo: the cursor is the size of the file
FileEnd(from) == size
ReadUpTo(from) == IF 2 * (size \div 2) > from THEN 2 * (size \div 2) ELSE from

TailStarts(p, from) ==
  /\ size > from
  /\ Starts(p, {r \in Record : 2 * (r - 1) >= from /\ 2 * r <= size}, {}, ReadUpTo(from), FALSE)

RefoldStarts(p) == Pending # {} /\ Starts(p, {}, Pending, None, TRUE)

Advances(p, pc) == proc' = [proc EXCEPT ![p].pc = pc]

\* DeterministicEngine.process: a duplicate or a discarded record goes no further.
Screens(p) ==
  /\ proc[p].pc = "screen" /\ proc[p].todo # {}
  /\ LET r == Min(proc[p].todo)
     IN  IF r \in Stored \/ Action[r] = "discard"
         THEN proc' = [proc EXCEPT ![p].todo = @ \ {r}]
         ELSE Advances(p, "insert")
  /\ UNCHANGED <<size, cursor, events, worker, starts, derived, closed>>

\* The row may have appeared since the record was screened: then the insert
\* does nothing and the event is another's.
\* mutant: it is taken as stored all the same
TakesAnyway(r) == {r}
Takes(r) == {r} \ Stored

Inserts(p) ==
  /\ proc[p].pc = "insert"
  /\ LET r == Min(proc[p].todo)
     IN  /\ events' = [e \in Stored \cup {r} |-> IF e \in Stored THEN events[e] ELSE Fresh]
         /\ proc' = [proc EXCEPT ![p].todo = @ \ {r}, ![p].accepted = @ \cup Takes(r), ![p].pc = "screen"]
  /\ UNCHANGED <<size, cursor, worker, starts, derived, closed>>

-----------------------------------------------------------------------------
(* The deterministic fold. *)

MayBe(verdict, S) == {r \in S : verdict \in Verdicts[r]}

\* What is left of an ingested batch and not queued is history, closed as inert;
\* a refold leaves it waiting.
Leftover(p, resolved) ==
  IF proc[p].refold THEN {} ELSE {r \in proc[p].accepted \ resolved : Action[r] = "persist"}

\* An update of no rows is not made.
MarkAll(ids, inert) == IF ids = {} THEN <<>> ELSE <<[inert |-> inert, ids |-> ids]>>

\* The process as it goes on to close `marks`, and past them when there are none.
Closing(run, marks) ==
  IF marks # <<>> THEN [run EXCEPT !.pc = "mark", !.accepted = {}, !.marks = marks]
  ELSE IF run.refold THEN Idle ELSE [run EXCEPT !.pc = "shed", !.accepted = {}, !.marks = <<>>]

\* The patch is committed, accepted or not, before a row is closed: the consumed
\* are to be marked processed, then the rejected and the rest inert.
Folds(p, consumed, inert, accepted) ==
  /\ proc[p].pc = "screen" /\ proc[p].todo = {}
  /\ consumed \subseteq MayBe("consumed", proc[p].accepted)
  /\ inert \subseteq MayBe("inert", proc[p].accepted) \ consumed
  /\ proc[p].accepted \ (consumed \cup inert) \subseteq MayBe("none", proc[p].accepted)
  /\ accepted => consumed # {}
  /\ derived' = IF accepted THEN derived \cup consumed ELSE derived
  /\ proc' = [proc EXCEPT ![p] = Closing(@,
       MarkAll(consumed, FALSE) \o MarkAll(inert, TRUE) \o MarkAll(Leftover(p, consumed \cup inert), TRUE))]
  /\ UNCHANGED <<size, cursor, events, worker, starts, closed>>

Marks(p) ==
  /\ proc[p].pc = "mark"
  /\ Close(Head(proc[p].marks).ids, Head(proc[p].marks).inert)
  /\ proc' = [proc EXCEPT ![p] = Closing(@, Tail(@.marks))]
  /\ UNCHANGED <<size, cursor, worker, starts, derived>>

\* A tailer still has its cursor to write.
\* mutant: so does a hook
CursorAnyway(run) == [run EXCEPT !.pc = "cursor"]
AfterShedding(run) == IF run.offset = None THEN Idle ELSE [run EXCEPT !.pc = "cursor"]

\* Too long a queue loses its cheapest and oldest: closed, and not as inert.
Sheds(p) ==
  /\ proc[p].pc = "shed"
  /\ Close(First(Cardinality(Pending) - MaxQueue, Pending \cap Low), FALSE)
  /\ proc' = [proc EXCEPT ![p] = AfterShedding(@)]
  /\ UNCHANGED <<size, cursor, worker, starts, derived>>

\* After the whole cycle, a worker run of minutes included.
SetsCursor(p) ==
  /\ proc[p].pc = "cursor"
  /\ cursor' = proc[p].offset
  /\ proc' = [proc EXCEPT ![p] = Idle]
  /\ UNCHANGED <<size, events, worker, starts, derived, closed>>

Crashes(p) ==
  /\ proc[p] # Idle
  /\ proc' = [proc EXCEPT ![p] = Idle]
  /\ UNCHANGED <<size, cursor, events, worker, starts, derived, closed>>

-----------------------------------------------------------------------------
(* The worker. *)

WorkerReads(w) ==
  /\ worker[w] = Idle
  /\ Pending # {}
  /\ worker' = [worker EXCEPT ![w] = [pc |-> "asking", batch |-> First(MaxBatch, Pending)]]
  /\ UNCHANGED <<size, cursor, events, proc, starts, derived, closed>>

WorkerCommits(w) ==
  /\ worker[w].pc = "asking"
  /\ worker[w].batch \cap Telling # {}
  /\ derived' = derived \cup worker[w].batch
  /\ worker' = [worker EXCEPT ![w].pc = "mark"]
  /\ UNCHANGED <<size, cursor, events, proc, starts, closed>>

WorkerMarks(w) ==
  /\ worker[w].pc = "mark"
  /\ Close(worker[w].batch, FALSE)
  /\ worker' = [worker EXCEPT ![w] = Idle]
  /\ UNCHANGED <<size, cursor, proc, starts, derived>>

\* An empty answer, or one that only repeats memory: closed, but as inert.
\* mutants: closed as if something had been derived; not closed at all
ClosesAsDerived(batch) == Close(batch, FALSE)
LeavesWaiting(batch) == UNCHANGED <<events, closed>>
ClosesEmptyHanded(batch) == Close(batch, TRUE)

WorkerFindsNothing(w) ==
  /\ worker[w].pc = "asking"
  /\ ClosesEmptyHanded(worker[w].batch)
  /\ worker' = [worker EXCEPT ![w] = Idle]
  /\ UNCHANGED <<size, cursor, proc, starts, derived>>

\* No provider, an answer rejected twice, or the process killed: the events wait.
WorkerFails(w) ==
  /\ worker[w] # Idle
  /\ worker' = [worker EXCEPT ![w] = Idle]
  /\ UNCHANGED <<size, cursor, events, proc, starts, derived, closed>>

\* Retention: raw events of before the horizon, once they are resolved.
\* mutant: whether or not they are
AnyRow == Stored
Prunable == Stored \ Pending

PruneRawEvents(horizon) ==
  /\ \E r \in Prunable : r < horizon
  /\ events' = Restrict(events, {r \in Stored : ~(r < horizon /\ r \in Prunable)})
  /\ UNCHANGED <<size, cursor, proc, worker, starts, derived, closed>>

-----------------------------------------------------------------------------
Continues(p) == Screens(p) \/ Inserts(p) \/ Marks(p) \/ Sheds(p) \/ SetsCursor(p)
FoldsSomehow(p) ==
  \E consumed \in SUBSET Record, inert \in SUBSET Record, accepted \in BOOLEAN :
    Folds(p, consumed, inert, accepted)
WorkerAnswers(w) == WorkerCommits(w) \/ WorkerFindsNothing(w)

Next ==
  \/ AgentWrites
  \/ \E p \in Process, r \in Record : HookStarts(p, r)
  \/ \E p \in Process, from \in {0, cursor} : TailStarts(p, from)
  \/ \E p \in Process : RefoldStarts(p) \/ Continues(p) \/ FoldsSomehow(p) \/ Crashes(p)
  \/ \E w \in Worker : WorkerReads(w) \/ WorkerAnswers(w) \/ WorkerMarks(w) \/ WorkerFails(w)
  \/ \E horizon \in 2 .. Records + 1 : PruneRawEvents(horizon)

Spec == Init /\ [][Next]_vars

\* A process that is not killed goes on; cycles keep coming, so a worker with
\* something to read starts; and a worker that is started again and again is
\* in the end answered and left alive to close its batch.
Fairness ==
  /\ \A p \in Process : WF_vars(Continues(p) \/ FoldsSomehow(p))
  /\ \A w \in Worker : WF_vars(WorkerReads(w)) /\ SF_vars(WorkerAnswers(w)) /\ SF_vars(WorkerMarks(w))
FairSpec == Spec /\ Fairness

-----------------------------------------------------------------------------
(* Properties. *)

\* What the queue promises of each event (EventLife): hooks, tailers, refolds and
\* workers that meet on one event, and die, never drop one that waits, and never
\* make a resolved one wait again.
LifeOf ==
  [r \in Record |-> IF r \notin Stored THEN "absent" ELSE IF events[r].done THEN "resolved" ELSE "waiting"]
Life == INSTANCE EventLife WITH life <- LifeOf
KeepsTheQueue == Life!Spec

\* The cursor is safe to resume from: every record before it is in the table, was
\* discarded, or was resolved before retention deleted it, wherever a tailer died
\* and however the last line was cut.
NothingLost ==
  \A r \in Record : 2 * r <= cursor => r \in Stored \/ Action[r] = "discard" \/ r \in closed

\* Hooks and the transcript deliver the same record; only one of the processes
\* that saw it folds it, unless the row was resolved and deleted in between.
FoldedByOne ==
  \A p, q \in Process :
    p # q /\ proc[p] # Idle /\ proc[q] # Idle /\ ~proc[p].refold /\ ~proc[q].refold
      => proc[p].accepted \cap proc[q].accepted \subseteq closed

\* Processed and not inert: the events the metrics count as derived from.
Counted == {r \in Stored : events[r].done /\ ~events[r].inert}

\* A worker drives coverage up only by what it recorded: an event it brings into
\* the count is one an accepted patch was built from (invariant 20).
WorkersEarnCoverage ==
  [][worker' # worker => Counted' \ Counted \subseteq derived]_vars

\* The queue does not grow unbounded: an ingest that ran to its end (a tailer's, say)
\* leaves it within max_queue_events.
QueueIsBounded ==
  [][\A p \in Process :
       proc[p].pc = "shed" /\ proc'[p].pc = "cursor" => Cardinality(Pending') <= MaxQueue]_vars

\* What the fold has recorded cannot also be recorded by a worker later.
FoldedOnlyOnce ==
  [][\A w \in Worker :
       worker[w] # Idle /\ worker'[w] # Idle /\ worker'[w] # worker[w]
         => worker[w].batch \cap derived = {}]_vars

\* No event waits for ever, whatever was killed on the way to it.
EveryEventIsResolved == \A r \in Record : r \in Pending ~> r \notin Pending

=============================================================================
