-------------------------------- MODULE Cycle --------------------------------
(***************************************************************************)
(* Who runs what, and who pays: the commands that share one database       *)
(* (cli/index.ts), the context manager's explicit state machine            *)
(* (daemon/machine.ts, ContextManager.cycle), the triggers                 *)
(* (core/deterministic.ts), the walk down the rungs of the ladder          *)
(* (runLifecycle, compact, reconcile) and the budget gate in front of      *)
(* every model call (core/budget.ts, WorkerRunner.runOnce).                *)
(*                                                                         *)
(* A watcher is `attach`, `run` or `ingest`: one cycle after another with  *)
(* one state machine, an error in one being printed and the next one tried *)
(* all the same.  `hook`, `compact`, `lifecycle --act` and `learn` run     *)
(* once and end.  A process may die anywhere.                              *)
(*                                                                         *)
(* Abstractions.  Events are counted by what a trigger tells apart, each   *)
(* kind with a weight in tokens.  What a worker does to memory is          *)
(* ContextStore's, to single events EventPipeline's: here a run resolves   *)
(* some of what waits.  Cost is in tokens.  There is one session.          *)
(***************************************************************************)
EXTENDS Pressure

CONSTANTS
  Process,       \* processes that may be at work at once
  Given,         \* the commands each of them may be started with
  Weight,        \* tokens of an event of each kind
  EventCount,    \* triggers.event_count
  TokenCount,    \* triggers.token_threshold
  Totals,        \* how long a session may be, in events
  Medium, Long, VeryLong, \* the lengths at which adaptiveScale grows
  MaxCalls,      \* budget.max_worker_calls_per_hour
  MaxTokens,     \* budget.max_tokens_per_hour
  SessionCap,    \* budget.max_cost_per_session_usd
  Estimate,      \* what the gate expects of a prompt
  MaxSpend,      \* the most tokens one run uses, the repair pass included
  MaxRuns,       \* worker runs of one `compact` (--max-runs, 10)
  LadderRuns,    \* and of one rung of the ladder (--max-runs, 3)
  LocalTasks,    \* tasks routed to a provider on this machine
  Usages,        \* what the agent may be seen to occupy
  Settings,      \* [shared, calm, localOnly, learns : BOOLEAN] of a behaviour
  MaxWaiting,    \* bound: events of a kind that wait
  NoTask

Kind == {"plain", "urgent", "request"}
Task == {"extraction", "conflict_resolution", "complex_reconciliation", "learn"}
Status == {"skipped", "deferred", "ok", "noop", "invalid", "error"}
Command == {"watch", "hook", "compact", "act", "learn"}

ASSUME CycleAssumption ==
  /\ Weight \in [Kind -> Nat \ {0}] /\ EventCount \in Nat /\ TokenCount \in Nat
  /\ Totals \subseteq Nat /\ Medium \in Nat /\ Long \in Nat /\ VeryLong \in Nat
  /\ MaxCalls \in Nat /\ MaxTokens \in Nat /\ SessionCap \in Nat
  /\ Estimate \in Nat /\ MaxSpend \in Nat /\ MaxRuns \in Nat \ {0} /\ LadderRuns \in Nat \ {0}
  /\ LocalTasks \subseteq Task /\ Usages \subseteq Usage /\ MaxWaiting \in Nat
  /\ Settings \subseteq [shared : BOOLEAN, calm : BOOLEAN, localOnly : BOOLEAN, learns : BOOLEAN]
  /\ IsFiniteSet(Process) /\ NoTask \notin Task /\ Given \in [Process -> SUBSET Command]

VARIABLES
  process,  \* what each process is doing
  machine,  \* the state machine of its manager
  waiting,  \* unprocessed events, by kind
  answered, \* a turn was recorded since the last compaction request
  calls,    \* rows of worker_runs of the last hour
  tokens,   \* what they record together: a row that is running records nothing yet,
            \* and one whose process died never will
  spent,    \* the tokens all rows record: the session's cost
  pairs,    \* whether memory has contradictions nobody has reviewed
  setting   \* never changes

rows == <<calls, tokens, spent>>
vars == <<process, machine, waiting, answered, rows, pairs, setting>>

-----------------------------------------------------------------------------
(* The state machine.                                                      *)

MACHINE_STATES ==
  {"IDLE", "INGEST", "CLASSIFY", "DISCARD", "UPDATE_STATE", "NEED_LLM", "SPAWN_WORKER",
   "APPLY_RESULT", "PERSIST", "FAILED"}

\* mutant: discarding everything is the end of a cycle
ForgetsDiscard ==
  [IDLE |-> {"INGEST"}, INGEST |-> {"CLASSIFY", "PERSIST", "FAILED"},
   CLASSIFY |-> {"UPDATE_STATE", "NEED_LLM", "PERSIST", "FAILED"},
   DISCARD |-> {"PERSIST"}, UPDATE_STATE |-> {"PERSIST", "NEED_LLM"},
   NEED_LLM |-> {"SPAWN_WORKER", "PERSIST"}, SPAWN_WORKER |-> {"APPLY_RESULT", "FAILED"},
   APPLY_RESULT |-> {"PERSIST", "FAILED"}, PERSIST |-> {"IDLE"}, FAILED |-> {"PERSIST", "IDLE"}]
TRANSITIONS ==
  [IDLE |-> {"INGEST"},
   INGEST |-> {"CLASSIFY", "PERSIST", "FAILED"},
   CLASSIFY |-> {"DISCARD", "UPDATE_STATE", "NEED_LLM", "PERSIST", "FAILED"},
   DISCARD |-> {"PERSIST"},
   UPDATE_STATE |-> {"PERSIST", "NEED_LLM"},
   NEED_LLM |-> {"SPAWN_WORKER", "PERSIST"},
   SPAWN_WORKER |-> {"APPLY_RESULT", "FAILED"},
   APPLY_RESULT |-> {"PERSIST", "FAILED"},
   PERSIST |-> {"IDLE"},
   FAILED |-> {"PERSIST", "IDLE"}]

Can(from, to) == to \in TRANSITIONS[from]

\* An illegal transition throws: what was reached before it stays, the rest is not run.
Reached2(from, a, b) == IF ~Can(from, a) THEN from ELSE IF ~Can(a, b) THEN a ELSE b
Reached3(from, a, b, c) ==
  IF Can(from, a) /\ Can(a, b) THEN Reached2(a, b, c) ELSE Reached2(from, a, b)

-----------------------------------------------------------------------------
(* The queue, the triggers and the budget.                                 *)

Sum(f) == f["plain"] + f["urgent"] + f["request"]
PendingEvents == Sum(waiting)
PendingTokens == Sum([k \in Kind |-> waiting[k] * Weight[k]])
CompactionRequested == waiting["request"] > 0 /\ ~answered
pendingSummary ==
  [events |-> PendingEvents, tokens |-> PendingTokens, requested |-> CompactionRequested]

\* In halves: 1x, 1.5x, 2.5x and 4x.
adaptiveScale(total) ==
  CASE total < Medium -> 2
    [] Medium <= total /\ total < Long -> 3
    [] Long <= total /\ total < VeryLong -> 5
    [] OTHER -> 8

\* elapsed: the configured interval has passed since the last worker started.
evaluateTriggers(total, elapsed) ==
  /\ PendingEvents > 0
  /\ \/ CompactionRequested
     \/ waiting["urgent"] > 0
     \/ PendingEvents * 2 >= EventCount * adaptiveScale(total)
     \/ PendingTokens * 2 >= TokenCount * adaptiveScale(total)
     \/ elapsed

\* What one run may use.
Spending == 0..MaxSpend

\* mutant: a call is refused only once there are more than the cap
OneMore == spent < SessionCap /\ tokens + Estimate <= MaxTokens /\ calls <= MaxCalls
check == spent < SessionCap /\ tokens + Estimate <= MaxTokens /\ calls < MaxCalls

-----------------------------------------------------------------------------
(* Processes.                                                              *)

\* The order of STAGE_ACTIONS; of the free rungs only the fold changes what this module
\* knows, and decay, verify_refs and prune are left out.
Place == [fold |-> 1, extract |-> 2, resolve_conflicts |-> 3, reconcile |-> 4, learn |-> 5]
Action == DOMAIN Place

\* Of actions still to be taken, all but the first in the order of STAGE_ACTIONS.
Later(actions) == {a \in actions : \E b \in actions : Place[b] < Place[a]}

\* left is how many runs the loop it is in may still start, todo the rungs it is
\* still to walk, the one it is on among them.
Doing ==
  [does : Command \cup {"nothing"},
   at : {"rest", "ingest", "decide", "assess", "ladder", "gate", "start", "ask"},
   task : Task \cup {NoTask}, left : Nat, todo : SUBSET Action]

Gone == [does |-> "nothing", at |-> "rest", task |-> NoTask, left |-> 0, todo |-> {}]
Watching == [Gone EXCEPT !.does = "watch"]
\* mutant: every run of a loop is its first
StartsOver(d, task, n) == [d EXCEPT !.at = "gate", !.task = task, !.left = MaxRuns]
Asking(d, task, n) == [d EXCEPT !.at = "gate", !.task = task, !.left = n]

Becomes(p, d) == process' = [process EXCEPT ![p] = d]
Turns(p, m) == machine' = [machine EXCEPT ![p] = m]

TypeOK ==
  /\ process \in [Process -> Doing]
  /\ machine \in [Process -> MACHINE_STATES]
  /\ waiting \in [Kind -> 0..MaxWaiting]
  /\ answered \in BOOLEAN /\ pairs \in BOOLEAN
  /\ calls \in Nat /\ tokens \in Nat /\ spent \in Nat
  /\ setting \in Settings

Init ==
  /\ process = [p \in Process |-> Gone]
  /\ machine = [p \in Process |-> "IDLE"]
  /\ waiting = [k \in Kind |-> 0] /\ answered = TRUE
  /\ calls = 0 /\ tokens = 0 /\ spent = 0
  /\ pairs = FALSE
  /\ setting \in Settings

\* How each command begins; `compact` takes any task but learn.
Begins(c) ==
  CASE c = "watch" -> {Watching}
    [] c = "hook" -> {[Gone EXCEPT !.does = c, !.at = "ingest"]}
    [] c = "act" -> {[Gone EXCEPT !.does = c, !.at = "assess"]}
    [] c = "learn" -> {Asking([Gone EXCEPT !.does = c], "learn", 1)}
    [] c = "compact" -> {Asking([Gone EXCEPT !.does = c], t, MaxRuns) : t \in Task \ {"learn"}}

Opens(p, c) ==
  /\ process[p] = Gone /\ c \in Given[p]
  /\ setting.shared \/ \A q \in Process : process[q] = Gone
  /\ \E d \in Begins(c) : Becomes(p, d)
  /\ UNCHANGED <<machine, waiting, answered, rows, pairs, setting>>

\* A process ends, or dies, wherever it is; a run it had started stays as it is.
Exits(p) ==
  /\ process[p] # Gone
  /\ Becomes(p, Gone) /\ Turns(p, "IDLE")
  /\ UNCHANGED <<waiting, answered, rows, pairs, setting>>

-----------------------------------------------------------------------------
(* Ingestion.  A turn the agent reports answers the requests before it;    *)
(* of a request and a turn read together either may be the later one.      *)

Stores(added, turn) ==
  /\ \A k \in Kind : waiting[k] + added[k] <= MaxWaiting
  /\ waiting' = [k \in Kind |-> waiting[k] + added[k]]
  /\ \/ added["request"] = 0 /\ answered' = (answered \/ turn)
     \/ added["request"] > 0 /\ turn /\ answered' \in BOOLEAN
     \/ added["request"] > 0 /\ ~turn /\ answered' = FALSE

Ingests == \E added \in [Kind -> {0, 1}], turn \in BOOLEAN : Stores(added, turn)

\* A watcher's error is printed and the next cycle tried; any other command ends.
\* What a thrown error leaves of the state machine is `m`.
Throws(p, m) ==
  /\ Becomes(p, IF process[p].does = "watch" THEN Watching ELSE Gone)
  /\ Turns(p, IF process[p].does = "watch" THEN m ELSE "IDLE")

\* Refused with an error, and nothing read, when the machine is not where it should be.
StartsCycle(p) ==
  /\ process[p] = Watching /\ Can(machine[p], "INGEST")
  /\ Becomes(p, [Watching EXCEPT !.at = "ingest"]) /\ Turns(p, "INGEST")
  /\ UNCHANGED <<waiting, answered, rows, pairs, setting>>

CycleIngests(p) ==
  /\ process[p].does = "watch" /\ process[p].at = "ingest"
  /\ Ingests
  /\ IF Can(machine[p], "CLASSIFY")
     THEN Becomes(p, [process[p] EXCEPT !.at = "decide"]) /\ Turns(p, "CLASSIFY")
     ELSE Throws(p, machine[p])
  /\ UNCHANGED <<rows, pairs, setting>>

Fails(p) == Throws(p, Reached3(machine[p], "FAILED", "PERSIST", "IDLE"))

CycleIngestFails(p) ==
  /\ ~setting.calm
  /\ process[p].does = "watch" /\ process[p].at = "ingest"
  /\ Fails(p)
  /\ UNCHANGED <<waiting, answered, rows, pairs, setting>>

\* A hook looks at the ladder only while it is well inside its latency budget.
HookIngests(p) ==
  /\ process[p].does = "hook" /\ process[p].at = "ingest"
  /\ Ingests
  /\ \/ Becomes(p, [process[p] EXCEPT !.at = "assess"])
     \/ Becomes(p, Gone)
  /\ UNCHANGED <<machine, rows, pairs, setting>>

\* stored is whether the cycle kept any of its records, wanted that it may run workers.
Decides(p) ==
  /\ process[p].at = "decide"
  /\ \E stored, wanted, elapsed \in BOOLEAN, total \in Totals :
       IF wanted /\ evaluateTriggers(total, elapsed)
       THEN LET m == Reached2(machine[p], "NEED_LLM", "SPAWN_WORKER")
            IN IF m = "SPAWN_WORKER"
               THEN Becomes(p, Asking(process[p], "extraction", 1)) /\ Turns(p, m)
               ELSE Throws(p, m)
       ELSE Becomes(p, Watching) /\
            Turns(p, Reached3(machine[p], IF stored THEN "UPDATE_STATE" ELSE "DISCARD",
                              "PERSIST", "IDLE"))
  /\ UNCHANGED <<waiting, answered, rows, pairs, setting>>

\* Reading the queue for the triggers is outside of the cycle's try.
DecideFails(p) ==
  /\ ~setting.calm
  /\ process[p].at = "decide"
  /\ Throws(p, machine[p])
  /\ UNCHANGED <<waiting, answered, rows, pairs, setting>>

-----------------------------------------------------------------------------
(* One worker run, whoever asked for it.                                   *)

\* compact goes on while runs succeed and events wait, reconcile while they write
\* and a contradiction is left.
GoesOn(d, status, events, conflicts) ==
  /\ d.left > 1
  /\ IF d.does = "compact" \/ d.task = "extraction"
     THEN status \in {"ok", "noop"} /\ events > 0
     ELSE d.task = "conflict_resolution" /\ status = "ok" /\ conflicts

\* What the process does once a run of its has ended with a status.
After(p, status, events, conflicts) ==
  LET d == process[p] IN
  IF d.does = "watch"
  THEN Becomes(p, Watching)
       /\ Turns(p, Reached3(machine[p], "APPLY_RESULT", "PERSIST", "IDLE"))
  ELSE /\ Becomes(p, IF GoesOn(d, status, events, conflicts) THEN Asking(d, d.task, d.left - 1)
                     ELSE IF d.does = "act" THEN [d EXCEPT !.at = "ladder", !.todo = Later(@)]
                     ELSE Gone)
       /\ UNCHANGED machine

\* Whether the task finds something to read: the memory that reconciliation reads
\* and the episodes that learning reads may or may not be there.
Finds(task) ==
  CASE task = "extraction" -> {PendingEvents > 0}
    [] task = "conflict_resolution" -> {pairs}
    [] OTHER -> BOOLEAN

Permitted(task) == ~setting.localOnly \/ task \in LocalTasks

Gate(p) ==
  /\ process[p].at = "gate"
  /\ \E found \in Finds(process[p].task) :
       IF found /\ Permitted(process[p].task) /\ check
       THEN Becomes(p, [process[p] EXCEPT !.at = "start"]) /\ UNCHANGED machine
       ELSE After(p, IF found THEN "deferred" ELSE "skipped", PendingEvents, pairs)
  /\ UNCHANGED <<waiting, answered, rows, pairs, setting>>

StartsRun(p) ==
  /\ process[p].at = "start"
  /\ calls' = calls + 1
  /\ Becomes(p, [process[p] EXCEPT !.at = "ask"])
  /\ UNCHANGED <<machine, waiting, answered, tokens, spent, pairs, setting>>

\* What a run that is over resolved: of the events that waited, some or all.
Resolves(status, task) ==
  IF task = "extraction" /\ status \in {"ok", "noop"}
  THEN waiting' \in {w \in [Kind -> 0..MaxWaiting] : \A k \in Kind : w[k] <= waiting[k]}
  ELSE UNCHANGED waiting

finishWorkerRun(n) ==
  /\ tokens' = tokens + n /\ spent' = spent + n
  /\ UNCHANGED calls

Answers(p) ==
  /\ process[p].at = "ask"
  /\ \E n \in Spending, status \in {"ok", "noop", "invalid", "error"} :
       /\ finishWorkerRun(n)
       /\ Resolves(status, process[p].task)
       /\ pairs' \in IF status \in {"ok", "noop"} THEN BOOLEAN ELSE {pairs}
       /\ After(p, status, Sum(waiting'), pairs')
  /\ UNCHANGED <<answered, setting>>

\* The store throws under the runner: the row keeps what it had.
RunFails(p) ==
  /\ ~setting.calm
  /\ process[p].at \in {"gate", "start", "ask"}
  /\ Fails(p)
  /\ UNCHANGED <<waiting, answered, rows, pairs, setting>>

-----------------------------------------------------------------------------
(* The ladder: the rung is assessed once, then its actions are taken in    *)
(* order, the free ones first.  A hook takes only those; learning is added *)
(* for who may spend, when the configuration opts in.                      *)

Actions(u) == LET stage == STAGE_ACTIONS[Stage(u, pendingSummary)] IN {stage[i] : i \in DOMAIN stage}
WithLearning(actions) ==
  IF setting.learns /\ "extract" \in actions THEN actions \cup {"learn"} ELSE actions

Assesses(p) ==
  /\ process[p].at = "assess"
  /\ \E u \in Usages :
       LET allowed == IF process[p].does = "hook"
                      THEN {a \in Actions(u) : ~needsProvider(a)}
                      ELSE Actions(u)
       IN Becomes(p, [process[p] EXCEPT !.at = "ladder", !.todo = WithLearning(allowed) \cap Action])
  /\ UNCHANGED <<machine, waiting, answered, rows, pairs, setting>>

\* Folding resolves some of what waits.
Rung(p, action) ==
  /\ process[p].at = "ladder" /\ action \in process[p].todo \ Later(process[p].todo)
  /\ LET d == process[p]
         next == [d EXCEPT !.todo = Later(@)]
     IN CASE action = "fold" -> Becomes(p, next)
          [] action = "extract" -> Becomes(p, Asking(d, "extraction", LadderRuns))
          [] action = "resolve_conflicts" ->
               Becomes(p, IF pairs THEN Asking(d, "conflict_resolution", LadderRuns) ELSE next)
          [] action = "reconcile" -> Becomes(p, Asking(d, "complex_reconciliation", 1))
          [] action = "learn" -> Becomes(p, Asking(d, "learn", 1))
  /\ IF action = "fold" THEN Resolves("ok", "extraction") ELSE UNCHANGED waiting
  /\ UNCHANGED <<machine, answered, rows, pairs, setting>>

LadderEnds(p) ==
  /\ process[p].at = "ladder" /\ process[p].todo = {}
  /\ Becomes(p, Gone)
  /\ UNCHANGED <<machine, waiting, answered, rows, pairs, setting>>

\* `run` compacts when the agent has gone, with the manager it watched with.
Flushes(p) ==
  /\ process[p] = Watching
  /\ Becomes(p, Asking([Gone EXCEPT !.does = "compact"], "extraction", MaxRuns))
  /\ UNCHANGED <<machine, waiting, answered, rows, pairs, setting>>

\* The clock: a row older than an hour no longer counts, nor what it records, and when
\* no row of a finished run is left nothing does.  A run in progress counts: providers
\* time out in minutes.
Running == Cardinality({p \in Process : process[p].at = "ask"})
HourPasses(n) ==
  /\ calls > Running /\ n <= tokens /\ tokens - n <= (calls - Running - 1) * MaxSpend
  /\ calls' = calls - 1 /\ tokens' = tokens - n
  /\ UNCHANGED <<process, machine, waiting, answered, spent, pairs, setting>>

\* What a process does by itself once it has begun.
Step(p) ==
  \/ CycleIngests(p) \/ CycleIngestFails(p) \/ HookIngests(p)
  \/ Decides(p) \/ DecideFails(p)
  \/ Gate(p) \/ StartsRun(p) \/ Answers(p) \/ RunFails(p)
  \/ Assesses(p) \/ (\E a \in Action : Rung(p, a)) \/ LadderEnds(p)

Next ==
  \/ \E p \in Process, c \in Command : Opens(p, c)
  \/ \E p \in Process : Step(p) \/ StartsCycle(p) \/ Flushes(p) \/ Exits(p)
  \/ \E n \in Spending : HourPasses(n)

\* A process goes on with what it began: every call of a provider is timed out.
Fairness == \A p \in Process : WF_vars(Step(p))
Spec == Init /\ [][Next]_vars /\ Fairness

-----------------------------------------------------------------------------
(* Properties.                                                             *)

\* ContextManager.cycle walks its machine by hand along five ways out.  Where no call
\* of the store throws, every way leaves it at IDLE, so that the next cycle of the
\* same process is not refused by machine.to('INGEST').  (Where one throws between
\* two transitions the machine stays off IDLE for as long as the process lives.)
AtRestWhenCalm ==
  setting.calm => \A p \in Process : process[p].at = "rest" => machine[p] = "IDLE"

\* Nobody asks a model who must not: a hook never does, however high the pressure
\* (cli/index.ts: "fast, never calls a model"), no process does while it walks a free
\* rung or ingests, and under privacy.local_only no remote provider is asked.
NobodyAsksUnasked ==
  \A p \in Process : process[p].at \in {"start", "ask"} =>
    /\ process[p].does # "hook"
    /\ setting.localOnly => process[p].task \in LocalTasks

Concurrent == IF setting.shared THEN Cardinality(Process) ELSE 1
AtLeast0(n) == IF n < 0 THEN 0 ELSE n

\* The gate reads what finished runs recorded and the row that reserves the call is
\* written after it, so processes overrun the budget together; but by no more than
\* one run each: calls, hourly tokens and the session's cost stay within that of it.
SpendingIsBounded ==
  /\ calls <= AtLeast0(MaxCalls - 1 + Concurrent)
  /\ tokens <= AtLeast0(MaxTokens - Estimate + Concurrent * MaxSpend)
  /\ spent <= AtLeast0(SessionCap - 1 + Concurrent * MaxSpend)

\* Whatever a command has begun ends: no loop of runs, no walk down the ladder and no
\* failed cycle goes on for ever, whatever the model answers and however the queue grows.
EveryCommandEnds == \A p \in Process : process[p].at # "rest" ~> process[p].at = "rest"

=============================================================================
