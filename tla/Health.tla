------------------------------- MODULE Health -------------------------------
(***************************************************************************)
(* What `contextd doctor` makes of the machine, the configuration and the  *)
(* store (daemon/doctor.ts), and of the builds that agents run             *)
(* (daemon/drift.ts).  A check is a name and a status; what it says in     *)
(* words is left out.  Moments are natural numbers.                        *)
(***************************************************************************)
EXTENDS Integers, Sequences

LOCAL INSTANCE SequencesExt

Checked(name, status) == [name |-> name, status |-> status]

\* The report's last line and the exit code go by the worst of the checks.
worstStatus(checks) ==
  LET has(s) == \E c \in checks : c.status = s
  IN IF has("fail") THEN "fail" ELSE IF has("warn") THEN "warn" ELSE "ok"

-----------------------------------------------------------------------------
(* Builds.  A checkout is when its entry script was written, when its sources were    *)
(* (none for an installed package), when its build output was, and its version.      *)

SLACK == 2

newestSource(checkout) == IF checkout.sources = {} THEN 0 ELSE Max(checkout.sources)
newestBuilt(checkout) == IF checkout.output = {} THEN 0 ELSE Max(checkout.output)

\* Nothing of a script that is not there; else whether a source is newer than it, and
\* whether its version is another than the running checkout's.
newerSource(checkout) == newestSource(checkout) - checkout.script > SLACK
versionMismatch(checkout, running) ==
  checkout.version # "" /\ running # "" /\ checkout.version # running
buildDrift(checkout, running) == newerSource(checkout) \/ versionMismatch(checkout, running)

\* A process that started before the build it came from was last written.
runDrift(checkout, startedAt) == newestBuilt(checkout) - startedAt > SLACK
runtimeChecks(checkout, startedAt) ==
  IF runDrift(checkout, startedAt) THEN {Checked("runtime", "warn")} ELSE {}

-----------------------------------------------------------------------------
(* Configuration *)

storageChecks(configured, writable) ==
  {Checked("config", IF configured THEN "ok" ELSE "warn"),
   Checked("storage", IF writable THEN "ok" ELSE "fail")}

WORKER_TASKS ==
  {"classification", "extraction", "summarization", "conflict_resolution",
   "complex_reconciliation", "learn"}

\* The model a task runs on: its tier's, the cheap one's when the task has no tier.
resolveModel(models, task) ==
  models.tiers[IF task \in DOMAIN models.routing THEN models.routing[task] ELSE "cheap"]

\* A model's own verdict on whether it stays on this machine wins over its provider's.
providerIsLocal(spec) == IF spec.cloud # "unsaid" THEN spec.cloud = "no" ELSE spec.local

\* A provider that cannot be had, or that local_only bars; a CLI or a key that is missing.
providerStatus(spec, localOnly) ==
  IF ~ spec.known \/ (localOnly /\ ~ providerIsLocal(spec)) THEN "fail"
  ELSE IF IF spec.cli THEN ~ spec.onPath
          ELSE spec.wantsKey /\ ~ providerIsLocal(spec) /\ ~ spec.hasKey THEN "warn"
  ELSE "ok"

providerChecks(models, localOnly) ==
  {Checked("provider", providerStatus(resolveModel(models, task), localOnly)) : task \in WORKER_TASKS}

\* allowances: what each section of the bootstrap may take.
budgetChecks(total, reserved, allowances) ==
  {Checked("context budget",
     IF reserved >= total THEN "fail"
     ELSE IF FoldLeft(+, 0, allowances) > total - reserved THEN "warn" ELSE "ok")}

-----------------------------------------------------------------------------
(* The store *)

\* samples: latencies in ascending order; share in hundredths.
latencyStats(samples, share) == samples[Min({Len(samples), (share * Len(samples)) \div 100 + 1})]
latencyChecks(samples, budget) ==
  {Checked("hook latency",
     IF samples = <<>> THEN "skip" ELSE IF latencyStats(samples, 95) <= budget THEN "ok" ELSE "warn")}

\* The patch log, replayed, gives the state there is.
ReplayCheck(folded, live) ==
  Checked("patch log", IF folded.version = live.version /\ folded.ids = live.ids THEN "ok" ELSE "fail")

\* Memory has to be able to carry on by itself once the agent has filled its window.
LadderCheck(ready, stage) ==
  Checked("compaction ladder", IF ready THEN "ok" ELSE IF stage = "steady" THEN "warn" ELSE "fail")

\* The runs, newest first, that read events and recorded nothing, up to one that did.
emptyRunStreak(runs) ==
  LET reading == SelectSeq(SubSeq(runs, 1, Min({20, Len(runs)})), LAMBDA r : r.read > 0)
      Recorded == {i \in DOMAIN reading : ~ (reading[i].status = "ok" /\ ~ reading[i].patched)}
  IN IF Recorded = {} THEN Len(reading) ELSE Min(Recorded) - 1
EmptyRuns(runs) ==
  LET streak == emptyRunStreak(runs)
  IN IF streak < 2 THEN {} ELSE {Checked("worker output", IF streak >= 3 THEN "fail" ELSE "warn")}

STALE_TASK_USER_MESSAGES == 5

\* messages: when the person spoke; the task is asked after, once that often since.
userMessagesSince(messages, at) == Len(SelectSeq(messages, LAMBDA t : t > at))
TaskCheck(task, messages) ==
  IF ~ task.set THEN {}
  ELSE {Checked("current task",
          IF userMessagesSince(messages, task.at) >= STALE_TASK_USER_MESSAGES THEN "warn" ELSE "ok")}

QueueCheck(pending) ==
  IF pending = 0 THEN {} ELSE {Checked("pending queue", IF pending > 1000 THEN "warn" ELSE "ok")}

integrityChecks(store) ==
  {ReplayCheck(store.folded, store.live), LadderCheck(store.ready, store.stage)}
    \cup EmptyRuns(store.runs) \cup TaskCheck(store.task, store.messages) \cup QueueCheck(store.pending)

\* floor: the least similarity a semantic hit must have.
semanticFloor(floor) == Checked("semantic floor", IF floor > 0 THEN "ok" ELSE "warn")
embeddingChecks(enabled, missing, floor) ==
  IF ~ enabled THEN {}
  ELSE {Checked("embedding index", IF missing = 0 THEN "ok" ELSE "warn"), semanticFloor(floor)}

\* gone: the active items that name a file that is not there any more.
referenceChecks(checked, gone) ==
  IF checked = 0 THEN {} ELSE {Checked("file references", IF gone = {} THEN "ok" ELSE "warn")}

\* Of the latest session only.
loopChecks(traffic, loops) ==
  IF traffic = <<>> THEN {} ELSE {Checked("agent loops", IF loops = {} THEN "ok" ELSE "warn")}

\* What was served since: a mirror that was written is nothing anybody asked for.
retrievalsSince(log, since) ==
  Len(SelectSeq(log, LAMBDA r : r.at >= since /\ r.query # "(mirror)"))
sessionsActiveSince(events, since) == {e.session : e \in {x \in events : x.at >= since}}

\* Wired is not used: sessions that were served nothing.
pullChecks(wired, sessions, served) ==
  IF ~ wired THEN {}
  ELSE {Checked("memory pulled",
          IF sessions = {} THEN "skip" ELSE IF served = 0 THEN "warn" ELSE "ok")}

=============================================================================
