# contextd in TLA+

contextd keeps a project memory for coding agents. Hooks and transcripts deliver events; a
deterministic pass screens and folds them; a language model (the *worker*) reads what is left and
answers with a *patch*; patches are validated, logged and applied; the memory they build is packed
into the next session's brief. Everything lives in one SQLite file per project which several
processes (hooks, a tailer, an MCP server, commands a person types) open at the same time.

This directory models that core, the commands around it and what they write into other people's files
in TLA+, model-checks it with TLC on small instances, and proves with TLAPS, for every instance, each
safety property that the passing runs check. `PROJECT.json` maps each definition to the source lines
it stands for, and lists the runs, the mutants that show each property can fail, the findings, the
hazards and the theorems.

## 1. Inventory

Paths are relative to `src/src/`.

| Part | State it keeps | Operations | Correct when |
|---|---|---|---|
| Patch semantics (`core/patch.ts`, `core/graph.ts`, `core/state.ts`) | none | normalize, prune no-ops, validate, apply | a valid patch never retires or weakens what the user protected, never leaves a dangling reference, and a dropped no-op changes nothing |
| Context store (`store/store.ts`) | items, edges, working memory, patch log, version, events, cursors, conflict reviews, usage | commitPatch, replay, insertEvent, markProcessed, markInert, shedQueue, pruneRawEvents | the tables are what the log folds to; versions are linear; provenance and closure claims are backed by events |
| Ingestion (`daemon/ingest.ts`, `daemon/tail.ts`, `core/deterministic.ts`, `core/importance.ts`) | a batch in memory, the file cursor | ingest, refold, tail | no record is lost, none is folded by two ingests, every event is resolved |
| Fold and recovery (`core/fold.ts`, `core/recovery.ts`, `core/similar.ts`) | none | deterministicFold | what is consumed was recorded, and only once |
| Worker runner (`workers/runner.ts`, `tasks.ts`, `prompts.ts`) | a batch and a prompt across an await | runOnce: select, gate, ask, repair, commit, close | an answer to an old prompt does no harm; coverage counts only what was derived |
| Manager (`daemon/manager.ts`) | state machine | cycle, compact, tail, remember, retire, setTask, close, reopen, import, decay, lifecycle | each operation keeps the store's promises; import is idempotent |
| Machine and triggers (`daemon/machine.ts`, `core/deterministic.ts`) | machine state | to, reset, evaluateTriggers | every cycle ends in IDLE, also after an error |
| Stale references (`daemon/stale.ts`, `core/references.ts`) | verdicts inside items | staleReferences, applyStaleReferences | only its own verdicts are revisited |
| Pressure ladder (`core/lifecycle.ts`) | last advice given | assessPressure, clearAdvice | hooks take the free rungs only; advice is said once per level |
| Conflicts (`core/conflicts.ts`) | reviewed pairs | detect, fingerprint, mark | a judged pair comes back exactly when one of its items changes |
| Learning (`workers/learn.ts`, `core/episodes.ts`) | a watermark per session | buildLearnInput, advanceWatermark | no episode is skipped, none is asked about for ever |
| Budget (`core/budget.ts`) | recorded usage | check | the caps hold |
| Retrieval (`store/retrieval.ts`, `store/embeddings.ts`, `retrieval/context-builder.ts`) | embedding index | search, expand, pack | the brief fits its budget, protected items are in it, retired ones are not |
| Managed files (`ops/mirror.ts`, `core/markers.ts`, `ops/import-*.ts`) | marked blocks in other files | write, refresh, remove | text outside the markers is kept |
| Operations (`ops/registry.ts`, `install.ts`, `cli/index.ts`) | `projects.json` | register, prune, init, uninstall, purge | no project is lost; an interrupted command can be run again |
| Agent adapters and hooks (`adapters/claude/`) | hooks, servers and status line in the agent's files | install, uninstall, translate a record | theirs stays, ours follows the build and leaves with us |
| Loops (`core/loops.ts`) and the event engine (`core/importance.ts`, `core/deterministic.ts`) | file hashes | process, collectToolCalls, findLoops | a loop that is reported is one |
| Doctor and drift (`daemon/doctor.ts`, `daemon/drift.ts`) | none | diagnose | it fails when something wired cannot start, and not otherwise |
| Providers, MCP server, CLI, UI, metrics, bench | little | ask, serve, report | mostly I/O around the operations above |

**Interaction.** There is no server: the processes meet in the database, and in the few files of the
agent they write. Each method of the store is one SQLite transaction (`commitPatch` takes the write
lock for its read, validation and write), and nothing is atomic across two of them. A worker, an
embedder and a query hold what they read across an `await`. A hook can be killed at any instruction
by the agent that called it. Files are read, changed and written back without a lock. The registry, the MCP
servers, the status line and the removal of hooks write a temporary file and rename it into place
(`adapters/host.ts:81-90`); the installation of hooks and the mirrors write over the old file
(`claude/hooks.ts:88`, `ops/mirror.ts:174,194`), so that a kill in the middle leaves it empty.

**What is hard here.** (1) A worker's patch is applied to a memory it has not read. (2) One event is
delivered twice, by a hook and by the transcript, to two processes at once. (3) Inserting an event,
committing its fold and marking it are three transactions. (4) Guards sit on operations, and there is
usually a second operation that reaches the same field. (5) The tables are written from a list of
changed ids rather than from the new state. (6) A budget is read before it is spent. (7) What a
session teaches is read in stretches whose ends fall anywhere. (8) A command edits four files of
others, one after the other, and a person edits them too. (9) A fold plans rules from a history and
from rules it has read in earlier transactions. (10) A file is written first and noted afterwards.
`hazards` in `PROJECT.json` gives each at its line.

## 2. Modules

| Module | Models | Size of the idea |
|---|---|---|
| `Patch` | `core/patch.ts`, `core/graph.ts`: the vocabulary and its pure semantics | operators only |
| `ContextStore` | `commitPatch`, `replay`, and every caller of them | variables and actions over `Patch` |
| `MCContextStore` | which patches each caller may write in each run | instance |
| `ContextStoreProofs` | lemmas and theorems about the two | proofs |
| `EventLife` | what the queue promises of one event: absent, waiting, resolved | abstract specification |
| `EventPipeline` | ingest, tail, refold, fold, shed, worker, retention over the events table | refines `EventLife` |
| `MCEventPipeline` | two small transcripts | instance |
| `EventPipelineProofs` | the invariant of the pipeline, that of `Traffic`, and the theorems of both | proofs |
| `Maintenance` | decay, the file check and rule revalidation in several processes, beside people and workers | variables and actions |
| `MCMaintenance` | one file that one item needs and another denies | instance |
| `MaintenanceProofs` | what always holds, and what holds while one process uses the database | proofs |
| `Pressure` | `core/lifecycle.ts`: window, level, rungs, authority, advice | operators only |
| `Cycle`, `MCCycle` | the commands, the state machine, the triggers, the walk down the rungs, the budget gate | variables and actions over `Pressure` |
| `CycleProofs` | the invariant of a cycle and its theorems | proofs |
| `Ladder`, `MCLadder` | turns and compactions seen by hooks and a tail, advice said once | variables and actions over `Pressure` |
| `LadderProofs` | the invariant of those who watch and its theorems | proofs |
| `Attempts` | `core/recovery.ts`, `core/episodes.ts`: what a stretch of tool traffic teaches | operators only |
| `Lessons`, `MCLessons` | rules learned by folds that race, and the walk of `learn` over a session, a statement at a time | variables and actions over `Attempts` |
| `LessonsProofs` | recoveries, rules, episodes and the walk over them | proofs |
| `Retrieval` | search, fusion, expansion, packing, conflict detection | operators only |
| `Derived`, `MCDerived` | the index, a query and a judgement, each across an await | variables and actions over `Retrieval` |
| `DerivedProofs` | the invariant of those three and its theorems | proofs |
| `Markers` | `core/markers.ts`: a block of ours in a text of theirs | operators only |
| `Registry` | the list of projects | variables and actions |
| `Wiring` | init, uninstall and purge, the status line, and writers of mirrors, over hooks, servers, status line and texts | composes `Markers` and `Registry` |
| `WiringProofs` | registry, hooks, uninstall, what is theirs, and what doctor says of it | proofs |
| `Health` | `daemon/doctor.ts`, `daemon/drift.ts`: a status for each check | operators only |
| `Doctor`, `MCWiring` | the report over every state of the wiring | composes `Wiring` and `Health` |
| `Events` | importance, engine and fold of one event | operators only |
| `Loops` | `core/loops.ts` | operators over `Events` |
| `Traffic`, `MCTraffic` | one session as hooks and transcript report it | variables and actions over `Loops` |

### Patch and ContextStore

A patch is a record of operation lists. `Patch` follows the code stage by stage: `NormalizePatch`
(the confidence cap), `PruneInertOperations` (adds that repeat memory are dropped and every reference
to them lands on what they repeat), `ValidatePatch` (one conjunct per operation) and `ApplyPatch`
(what each item becomes; the stages are nested in the order of the code's loops). `Dirty` is the list
of ids the code writes back, kept apart from `ApplyPatch` on purpose.

`ContextStore.CommitPatch` is the whole transaction, in the code's order: normalize, prune (not for a
user), verify provenance and closures (workers only), drop a stale task, validate, apply, write the
dirty rows, the edges, the task and the hand-set stamp, append to the log, bump the version. Its
callers are `UserCommits` (remember, retire, set task, close, reopen, link), `FoldCommits` (ingest
and maintenance), `ImportCommits` (with the idempotence check) and a worker run, which is split
where the code awaits: `WorkerReads`, then `WorkerCommits`, `WorkerRejected` (the repair pass) or
`WorkerFails`. `InsertEvent`, `PruneRawEvents` and `Tick` change the evidence and the time under it.

Abstracted: texts are model values (equal exactly when `sameText` holds), confidence is a small
number, a time-to-live is present or absent, tags, reasons and notes are left out, working memory is
one value where the code merges seven fields, ids are numbers in the order of their creation. A
person's or a fold's rejected patch changes nothing and is not a step.

### EventPipeline

Each hook, tailer, refold and worker is a process with a program counter; each transaction is one
step, so every interleaving and every crash between two statements is explored. `HookStarts` takes one
record, `TailStarts` what the file holds in whole lines from the cursor on, `RefoldStarts` what waits.
Then `Screens` (the engine's verdict, duplicate check included), `Inserts` (whose `ON CONFLICT DO
NOTHING` decides who owns the event), `Folds` (commit of the fold's patch, accepted or not), one `Marks`
per update statement, `Sheds`, `SetsCursor`. `Crashes` forgets what a process held in memory. A worker reads the oldest
batch, commits and then marks it, finds nothing and marks it inert, or fails and leaves it.

Abstracted: a record takes two units of the file, so that the last one may be half written; what the
engine and the fold make of a record are constants (`Action`, `Verdicts`), arbitrary in the proofs;
there is one session; whether the fold's patch is accepted is a free choice (`ContextStore` says
what decides it). Rotation of the transcript and rule R5 (file unchanged) are left out.

### Maintenance

Each process at upkeep (a hook, a CLI run, the MCP server) is at one place of the code: `StartsCheck`
passes the throttle and reads the items, `StatsFiles` looks at the working tree, `PlansCheck` reads the
items again and builds the patch, `DecayReads` and `FoldReads` build theirs, and `Writes` commits, all
or nothing. `Crashes` stops it anywhere. `Retires`, `WorkerSets`, `WorkerMakesCritical` and
`WorkerGivesTtl` are the other writers. The code never awaits here, so within one process nothing falls
between a read and its commit, and between processes anything does: `shared` says which of the two a
behaviour is about, and `Uninterrupted` is the guard that follows. A property whose name ends in
`Alone` holds for `~shared`; without that condition it fails (section 5).

Abstracted: time is whether an item has outlived its time-to-live, "superseded" stands for "archived"
too, the paths an item names are constants, ignored paths and the limits on items and paths per check
are left out. `aside` is a history: the check set the item aside, and it has been in no other state since. The item is its own small record, not the one of `Patch`: `stale_paths` and the last
validation matter here and nowhere else, and of a patch only `update` and `touch` occur.

### Pressure, Cycle and Ladder

`Pressure` has the pure part: which window a session is held to have, which level its occupancy and the queue
amount to, the actions a level authorises, and the advice. `Cycle` gives each process a command and walks it
as the code does: `TRANSITIONS` is the code's table, a walk stops at the first that is refused (`Reached2`,
`Reached3`), and each of the five ways out of `ContextManager.cycle` is a path through the actions, an error
in any call of the store included. A run of a worker passes the gate (which reads the usage of finished runs),
writes its row, asks, and records its cost: four steps, so that two processes can pass the gate together and a
killed one never records. `watch` stands for `attach`, `run` and `ingest`; `hook`, `compact`, `act` and
`learn` run once and end. The rows of `worker_runs` of the last hour are two counters, `calls` and `tokens`: a
row that leaves the hour takes at most `MaxSpend` tokens along, never the row of a run under way (providers
time out in minutes), and what is left is never more than the rows left can hold.

`Ladder` looks at the observers of one session. The agent takes turns; a hook or a tail records the turn
it has seen, and the *last recorded* one decides the level. Compactions are announced to hooks and deduplicated
by their payload. A hook on a prompt reads, decides, compares with the last notice, stores it and
prints it, and a compaction or a turn may fall between any two of these.

Abstracted: events are counted by kind, each with a weight; money is counted in tokens; windows are units of
50,000 tokens; there is one session. What a run does to memory is `ContextStore`'s and to single
events `EventPipeline`'s: here it resolves some of what waits. `setting.calm` means that no call
of the store throws, `setting.shared` that several processes are at work.

### Attempts and Lessons

A log is the session as it happened: calls, results and reported commands, in the order of their timestamps.
`stored` is what hooks and tails have reported of it so far; where the setting is `late`, an earlier event may be
reported after a later one. `collectAttempts` pairs calls and outcomes, `findRecoveries` finds the related call that
cured a failure within a window, `collectEpisodes` the stretch from a failure to the command that finally worked.

A fold is a process that goes through the code's transactions one by one: `insertEvent` stores its batch,
`LooksBack` reads the latest of the session's other events by timestamp (`recentToolEvents`: those later than
the batch are among them) and finds the recoveries, `LooksUp` reads the rules of one mistake,
`commitPatch` applies the plan made from what was read to the rules as they are by then, and `MarksResolved` marks
the batch. There is no base version, so nothing refuses an old plan; `Refused` is the fold whose patch is not
accepted for another reason, `FoldDies` the one that is killed. Where `setting.racing`, other folds, decay
(`RuleFades`) and people (`RuleRetired`) fall between any two of these. `refold` goes over what still waits.

`learn` begins at the watermark (`buildLearnInput`), reads windows that overlap (`ReadsWindow`), asks a model,
restricts its answer to the episodes shown, and moves the mark as the code does, by a read (`learnWatermark`) and
a write (`advanceWatermark`) of their own. Two learners may interleave at each of these, and each may die.

Abstracted: commands and paths are model values, and what the code computes from their text (edit distance, binary,
stem, a `cd` in between) is a relation given as a constant. A member of `Settings` says which calls and outcomes a
behaviour has, whether folds race, whether timestamps may tie, whether a batch is folded again. A call that a hook
and a transcript both report may be in the log twice. `folder[p].overtaken`, and an answer's leaving `answered` when
its run dies before the mark, are histories.

### Retrieval and Derived

`Retrieval` holds keyword ranking, the semantic ranking, their fusion, expansion along edges and
lineage, the always-on sections with clipping and markers, the packing of an answer that leaves out what is on
screen, and the pairs that seem to conflict with their fingerprints. `Derived` has the three users that
hold what they read over an await: an embedder (`Embeds`, then `Stores` or `FailsToEmbed`), a query (`Asks`,
`Fills`: what changed is embedded first, words are matched, the query's vector is awaited, then `Found`) and a
judge (`StartsJudging`, then `Judges` or `FailsToJudge`). A person
rewrites, retires, closes items and lets them age at any moment.

Abstracted: a text is one of three lengths with its relevance, likeness and signals in tables; scores are
naturals and weights per cents; rendering is left out, its lengths are not.

### Markers, Registry, Wiring, Health and Doctor

A text is a sequence of pieces: markers, bodies of ours, a frontmatter, passages of a person's. `find`,
`upsertBlock` and `removeBlock` do to that sequence what the code does to bytes. `Registry` splits each
rewrite of the list into reading and computing, writing a temporary file, and renaming. `Wiring` walks `init`,
`uninstall`, `purge` and the status line's commands through their steps in the code's order, and through one file
at a time where a step has several (`Handles` takes the next of `cli.left`, `MovesOn` goes on when none is left);
each step may be the last (`Ends`). Where the code writes over a file, a kill may also empty it (`TearsHooks`,
`TearsMirror`, `TearsRemoval`). `StatuslineInstall` writes the settings and `NotesChain` notes the line it took
over. Servers have the three scopes of the Claude adapter, two of them in one file.

The mirror is written by processes of their own, beside any command: `Mirrors` is `contextd mirror`, `Refreshes` the
maintenance that goes over the files written before. A writer checks a file (`Checks`), reads it again to write it
(`ReadsAgain`, `Read`), writes what it made of *that* text (`Writes`), and then reads and writes the list of
targets and that of created files (`Lists`, `NotesTarget`, `NotesCreated`), and dies anywhere (`Dies`). An uninstall
reads both lists when it begins, and a purge takes the store away from under a writer (`stored`). `stray` is a
history: files with a block no list names, or written since the uninstall under way read the lists.

The build may move, the person edits any file, breaks one so that it does not parse, and another project is wired into
the same user-level files. `Health` has each check of `doctor` as a function to a status; `Doctor` feeds it the
state of the wiring and an arbitrary machine.

Abstracted: each behaviour is about one part of the wiring (`Scene`): the parts share only the order of a
command's steps. A command's read and its write of one settings file are one step, as are the read and the write of
`removeMirror`; the text a mirror says is that of the moment it writes. The two keys of the chain's note are one
write. No write fails but by a kill. Commands run in the project's root, one at a time. `CutsMarkers` says whether a
person ever loses an end marker, `Rechains` whether `--chain` is ever asked over a status line of ours. Of the
adapters, the Claude one is modelled: the others differ in the layout of their files.

### Events, Loops and Traffic

`Events` is the life of one event before memory: its importance, the deterministic engine's verdict (its rules
but for truncation and redaction), and what the fold takes or leaves. A text is the set of cues the patterns
find in it. `Loops` rebuilds tool calls from stored events and finds runs of one signature with one answer and
no barrier. `Traffic` lets an agent work: each step is written to the transcript and, where a hook is
installed, reported at once in the hook's own form; a tail reads stretches of any length; both are screened
against what was seen and stored. The properties compare what `findLoops` reports with the transcript itself;
a mutating command that fails may run no hook, and the history variable `untold` remembers that it did not.

## 3. Runs

| Run | Shows | Bounds |
|---|---|---|
| `protect` | no commit of any origin retires or weakens a protected item unless a person releases it by name; a worker cannot speak for the user | 2 items, 2 texts, 1 event, 1 worker, 3 commits, 2 instants |
| `replay` | the tables are the fold of the log, versions are linear, nothing dangles, a hand-set task survives a late run over events, concurrent runs do not repeat memory | as above, 2 tasks, patches of up to 2 adds, runs over events and over conflicts |
| `queue` | the cursor is safe, one ingest folds an event, the queue refines `EventLife`, workers earn coverage, every event is resolved | 2 records, 2 processes, 1 worker, 3 starts, queue limit 1, batch 1 |
| `upkeep` | upkeep never sets aside what is protected; alone, it never undoes a retirement and never loses a verdict | 2 items, 1 file, 1 process, other writers between any two steps when shared |
| `races` | in the end a gone file is noticed and a returned one too, however two processes interleave and die | 1 item, 1 file, 2 processes |
| `cycle` | the machine comes back to rest, nobody asks a model unasked, spending overruns by one run a process at most, every command ends | 2 processes (watch, compact; hook, act, learn), 1 call an hour, 2 tokens an hour, 2 runs a loop, 1 waiting event of a kind |
| `ladder` | occupancy never passes the window assumed; one observer alone tells what is so | 2 hooks (symmetric), 4 kinds of turn, 2 turns, 2 compactions, 1 death |
| `lessons` | a fold leaves one answer for a path where nobody changed its rules meanwhile, an ambiguous one stays so, causes come first, no episode passed over, none asked about twice | 4 commands, 3 paths, 2 folds, batches of 2, history of 4, windows of 4 events, 2 windows a walk, 2 learners, 8 settings with sessions of 4 to 6 events, rules of 4 earlier sessions |
| `derived` | what is quiet was judged as it reads now, a query finds what was live, nothing due is left out in silence but past `byCategory`'s limit, the index catches up | 6 items, 3 texts, lists of 2 rows, 2 embedders, 2 judges, 1 searcher, 2 edits, 7 settings (178,879 states) |
| `files` | theirs is kept, ours leaves, init follows the build, nobody is unlisted, doctor sees the wiring | 2 projects, 2 builds, 1 hook event, 3 scopes, 2 mirror files, 2 writers, 2 bodies, 8 scenes, 12 machines (972,511 states, about 3 minutes) |
| `traffic` | a loop reported is one in what was stored, a loop that happened is reported, scratch commands are no issues | 7 settings, transcripts of 8 entries (about 4 calls), up to 3 reads |
| `swallowed` | a documented claim the code does not keep (section 5) | 1 mirror file |

**Why the bounds are enough for what they claim.** Two items give every pair (replacement and replaced, link
ends, original and copy), and three commits are one to create, one to change and one to meet the change; a
worker that reads before all three and answers after them is included. Two records give an order (oldest
first, a cursor between them, one to shed and one not), two processes every race on one event, and a third
start a process that comes after a crash. One file that one item needs and the other denies breaks one of them
and mends the other at every change; two processes at upkeep on one item give every pair of check, decay and
fold. In `cycle` a limit of one call and two processes is the least in which both pass the gate and overrun
it, and each rung of the ladder is reached; in `ladder` the four turns are one below every threshold, one
above, one that proves a larger window and one of a long-context model. In `lessons` a window of four with an
overlap of two has sessions of six cross a boundary with an episode on either side and over it, three
paths are one mistake with two answers, two folds every race on the rules of one path, and a history of four with
batches of two has events on either side of a batch. In `derived` the sections are too small for their items, so that
clipping, dropping and the marker all occur, and two edits change an item between the read and the use and
once more after it; six items are three of one category, one more than the rows `byCategory` reads. In `files`
two builds are the one that wired and the one that asks, two mirror files one with and one without a frontmatter,
two writers the least whose notes overwrite each other. (Two writers on two files, with a person, are too many
for TLC: the theorems have any number of both.) In `traffic` three equal calls are the shortest loop, and the fourth call,
the write or the remark falls in any place of it. `MaxVersion`, `MaxClock`, `MaxEntries`, `MaxStarts`,
`MaxEdits`, `MaxBatch`, `MaxRules`, `MaxTurns`, `MaxCompactions`, `MaxDeaths`, `MaxWaiting` and the lengths in the `Settings` are
bounds of the models; they sit in guards and in types. The theorems of section 4 hold for any values of them.

`SpendingIsBounded` names limits that the code has, not bounds of the model. No run checks `TypeOK` where a
theorem proves it. `CHECK_DEADLOCK FALSE` is set everywhere: behaviours end at the bounds, and a store that
nobody writes to may stay as it is. The instances of `MCWiring` also evaluate, as assumptions, three functions
of `Health` against reference definitions: the streak of empty runs, the percentile of latencies and the
provider checks.

**Fairness.** For `EveryEventIsResolved`: weak fairness of a process's own steps: code that was not killed
runs on; it may still be killed at every step. Weak fairness of `WorkerReads`: cycles keep coming while the
agent is used and `evaluateTriggers` fires on a backlog. Strong fairness of an answer and of closing the
batch: a worker is started again after every failure, so it is in the end answered and left alive for the last
statement. A provider that fails for ever leaves events waiting, by design (invariant 8), and no property
denies it. Starting hooks and tailers is not fair: nothing makes an agent go on. In `Maintenance` (for
`MissingIsMarked` and `BroughtBack`), the hook path runs the free rungs again and again while the agent works,
so an unforced check is started as often as the throttle lets it (strong fairness, as a process may be busy or
the stamp fresh whenever one looks), and strong fairness of its steps says that it is not killed every time
before its commit. In `Cycle` (for `EveryCommandEnds`) each process's `Step` is weakly fair and nothing else:
a command that was not killed runs on, a provider answers or times out. Beginning a command, filling the queue
and dying are not fair. In `Derived` (for `IndexCatchesUp`) an embedder with something to embed embeds (weak),
and in the end stores what it embedded (strong: its provider may fail many times, not always); `embed` is run
again as long as there is something to do, which is what the setting `indexes` stands for.

## 4. Proofs

All theorems are of `Spec` (`TrafficSpec` for `Traffic`), without fairness, and hold for every value of the
constants under the named assumptions of the modules they are about, which TLC evaluates on the runs:

- `PatchAssumption`, `StoreAssumption`: ids are naturals, the cap is below certainty, `None` is none of the values;
- `PipelineAssumption`: the engine decides one of three verdicts, and what may be shed is stored and not queued;
- `MaintenanceAssumption`, `PressureAssumption`, `CycleAssumption`, `LadderAssumption`: limits are naturals in their
  order, processes and triggers are finite in number;
- `AttemptsAssumption`, `LessonsAssumption`, `RememberedAssumption`: commands are not paths, windows are not empty, the rules
  earlier sessions left are well formed;
- `RetrievalAssumption`, `DerivedAssumption`: finitely many items, scores and lengths are naturals, likeness of two
  texts does not depend on their order, lists hold at least one entry;
- `WiringAssumption`, `DoctorAssumption`: there is a build and something to remember, our bodies and markers are no
  passage of a person's, a machine has only builds that there are;
- `EventsAssumption`, `LoopsAssumption`, `TrafficAssumption`: commands, looks and files are told apart, a loop takes two
  calls at least and a window of one, and an answer that is the empty text looks empty.

Several results are by induction over data: what a recursion over a log, a list or a text yields. No
theorem with an operator as parameter can be used here, so it is done by hand, in two ways. To show that
every prefix has a property, take the *least* one that has not (`Least`). To show what a recursive function
is, show that a function satisfying its equations up to `n` exists for every `n`, again by a least
counterexample, and that two of them agree (`RecursionExists`, `UpTo`). A sort is a function from ranks to positions.

*ContextStore.* The inductive invariant is `TypeInv == TypeOK /\ FiniteStore`: finiteness of the set of rows
is needed because the original of a dropped copy is the *latest* item that says the same, and an unbounded set
has no latest. `ContextStoreProofs` shows stage by stage that a patch stays a patch and an item an item
(`NormalizeTyped`, `PruneTyped`, `ApplyPatchTyped`), and what validation buys: `ProtectedItemKept`,
`EdgesStaySound`, `LineageStaysSound`. `CommitsOrKeeps` reduces every step to one commit or none, so
`ProtectionHolds`, `NothingDangles` and `LogLinear` follow from one lemma each about a commit. `ReplayAgrees`
needs more: the tables are written from a list of changed ids, and a `supersede` leaves out of it the row
whose lineage it extends. What a commit leaves unwritten differs from the new state in `supersedes` only, no
stage of `applyPatch` reads that field, so the fold of a log one entry longer is the old fold with the same
rows changed (`ReplayIsExact`, without the exception, is false: section 5).

*EventPipeline.* `Inv` joins the types with: `Shape` (what a process holds agrees with its program counter;
cursors sit on line starts), `TableIsTrue` (a resolved row is in the history, what a process accepted was
stored), `OffsetIsSafe` (the offset a tailer carries is as safe as the cursor, but for the records it still
has to do) and `MarkedIsDerived`. None of `NothingLost`, `FoldedByOne` and `WorkersEarnCoverage` is inductive
alone: the first needs `OffsetIsSafe`, as the offset is computed long before it is written; the second needs
to know that a row can vanish only when resolved; the third that a worker marks only after its commit.
`ImplementsEventLife` shows the refinement: `TableMoves` reduces every step to storing one row, closing some,
pruning some, or leaving the table alone, and each of those is a step of `EventLife`.

*Maintenance.* `ProtectionSurvivesUpkeep` needs the types only: the transaction validates against the item
as it is. The rest rests on `Fresh`, by induction: where one process uses the database, at most one is
at upkeep, what it read is still so, and what it is about to write concerns items in force
(`RetirementIsFinalAlone`), does not clear the verdict of an item it leaves set aside
(`VerdictKeptAlone`), is allowed and is news (`ChecksWriteNewsAlone`). Every other writer finds nobody
at upkeep, and the one step that may fall in between, an item growing old, touches no field `Fresh`
looks at. Without the hypothesis they fail (`RetiredStaysRetired`, section 5).

*Cycle.* `Inv == TypeOK /\ AllGood`. `AllGood` says for each place a process can be at where its
machine stands, whether it may ask, and which command it serves. Every action is shown to be a `Moves` of one
process (`Moves` keeps `AllGood`), so that the argument about interleaving is made once. `NobodyAsks` and
`MachineRests` read off `AllGood`. `BudgetHolds` needs more, since the bound alone is not inductive: the gate is
passed before the row is written and the cost is recorded after the answer. `SpendInv == Inv /\ Alone /\ Reserved`:
`Reserved` keeps one call for each process between the gate and its row, and `MaxSpend` tokens for each between the gate
and its record, within the bound; `Alone` says that with one process at a time there is one such process. Passing
the gate adds to the reserve only from below the cap (`GateReserves`), and every other step takes from the
reserve what it adds to the account.

*Ladder.* `LadderInv` joins the types with four arguments. `HasPeak`: among any turns of a transcript one is
the fullest; it is carried along as turns are added, and gives `WindowHolds`. `InOrder`, `OneAtATime` and
`Current`: with one observer, turns are recorded in their order, so that the latest recorded is the newest,
and nothing the advice depends on changes between the decision and the printing (`SameAdvice` says what it
depends on). `Tally`: what is counted, what a hook is about to count and the triggers that may still be stored
are together at most what was announced, which gives `NeverCountedTwice`; no run repeats it. That each *is*
counted is false (section 5).

*Lessons.* Four invariants, each on top of the last. `SessionInv` says what a log is, and that what a fold
holds is of what is stored: a batch with its history before it is read in the order of the code, attempts pair a call
with the first outcome after it, and where nothing in the history is later than the batch a pair found is one of the
whole log, cause first; hence `CausesComeFirst`. `RulesInv` says that rules are well-formed records and finite in number
and that what a fold has read of them was once a memory of the mistakes it found. It never looks at how recoveries are
found: what a commit makes of the rules is shown for arbitrary recoveries and for any plan made from any memory
(`PlannedIs`, `CommitIs`, `CommitKeeps`), which is what a race needs. `FoldsSettle` is the commit whose reading still
holds; `AmbiguousStays` holds of every commit, since no plan for a path retires an ambiguous rule, whatever it was made from. `RaceInv` adds, where folds do not race, that one is under way at a
time and that what it has looked up is still so, which gives `OneAnswer`.

`LearnInv` says that what a learner is asking about is episodes of the session and, with one learner at a time,
that they begin after the mark that stands and no later than the one it will write, and that what was answered
begins no later than the mark or is what the learner is about to settle. `NothingIsAskedTwice` and
`MarkNeverGoesBack` read off it. `WalkPassesNoneOver` adds `PassedInv`: each short episode that begins by the mark is
covered by an answered one, and each that begins between the mark and where a learner will move it by one of those it
asks about. The cursors that pass nothing are closed under the next step of a walk (`WalkPassesNothing`), since a window
overlaps the next by what a short episode spans, so that one of the two sees it whole.

*Derived.* `DerivedInv == Types /\ Seen /\ Reviewed`. `Seen`: what is live now, with its text, is in the
history of what was live since the query began, and the keyword hits carried across the await are from that
history. `Reviewed`: each review kept is of a judgement somebody made on that very fingerprint, so that a
review which still matches is a judgement of the pair as it stands. `FindsOnlyLive` is then about the
operators: a sort permutes, a filter takes away, fusion and expansion along edges add only what is live.
`QuietPairsWereJudged` follows detection over pairs in their order, up to the number it lists.
`NothingIsSilent` compares, section by section, what is due with what is listed, shown and dropped: an item that is among
the first rows of its category (the place of a member in a sort is the number of those before it, `InOrderLists`) is
listed, and what clipping or packing leaves out of the list is named by a marker.

*Wiring.* `NobodyIsUnlisted` rests on `RegistryInv`: what a rewrite has read, but for whom it was asked to
drop, is in what it will write. `InitDoesItsWork` rests on `HooksInv == HooksTyped /\ InitProgress`: how far
the walk of `init` over the settings files has come, and that the files behind it have the hooks they should,
which others may add to but not undo while it runs.

`WiringInv` joins, over the types and the texts (`InOrder`: at most one end marker, every start begins a body, of the files
and of what a writer has read of them): a server of this root and a recorded hook are ours (`ServersOK`, `RecordedOK`);
the line `--chain` took over is noted, or is about to be, while ours stands (`LinesOK`); a block is in a file a list
names or in a stray one, and while an uninstall is under way in one it has still to go to or a stray one (`BlocksOK`);
and what an uninstall has gone past has nothing of ours (`NoHooks`, `NoServers`, `NoLines`). `GoesOn` says how a
command's steps and files follow each other: what it has gone past (`Past`) grows by the file a step handles and by no
other step. One lemma for each variable says which steps write it (`HooksMove` to `CommandsMove`), so that each
part is argued about its own writers only. `UninstallDoesItsWork` is the last of an uninstall's steps, and
`DoctorIsRight` reads off the same invariant, check by check. `WhatIsTheirsStays` is about single steps: in a text in
order whose markers nobody cut, our block is start, body, end in a row, so that writing keeps every other piece in its
place and removing moves those behind it by three; a line that is remembered stays so, from the file to the note and back
(`NotesStay`, `LinesKept`).

*Traffic.* `TrafficInv == Typed /\ Reported /\ TailKept /\ HookKept /\ ScratchIsNoIssue`: the transcript is
calls, each followed by its result, and remarks; each row stored is the report of an entry; what a tail has
read and what a hook was run for is stored or was dropped, and what may be dropped of a first reading is known
(`Passing`). `ScratchIsSpared` is inductive with these: a batch that holds a result but not its call begins at
a cut. The other two are about what `findLoops` makes of such rows. `sessionTraffic` is those rows by their
moments; `collectToolCalls` has for each call that counts one record, in order, with the answer the transcript
gives it. For `LoopsReported`, every run of the walk over the records, open or best, is sound (`SoundRun`):
one signature, answers that agree, no reset between. For `LoopsFound`, the repetitions of a loop are matched
one to one with records, in order (`LoopIsStretch`, `Matching`), so that gaps become no larger; a stretch of
such records makes the open run grow with each (`StretchGoesOn`), and what has grown is held to the end
(`HeldStays`, `StretchIsFound`).

**Only model-checked.** Liveness under fairness, which TLAPS does not prove here: `EveryEventIsResolved`,
`MissingIsMarked`, `BroughtBack`, `EveryCommandEnds`, `IndexCatchesUp`. And the three functions of `Health`
that `MCWiring` compares with their reference definitions. Every other property of a passing run is a theorem.

## 5. Findings and divergences

The run `swallowed` refutes `OutsideIsKept`: `find` takes the first start marker and the first end marker
after it. When a person has lost an end marker, `upsertBlock` appends a second block, and the next write or
removal takes everything from the first start to the appended end along, the person's text between them
included. `markers.ts` promises not to touch a byte outside the markers and to treat an unterminated block as
absent, which the first step does and the second does not; `tests/ops.test.ts` tests the first step.

Other places where the code does not do what a doc or a comment says. Each is stated as a property of its
module that fails under TLC; the runs check what does hold instead.

| Property | What happens |
|---|---|
| `ContextStore.ReplayIsExact` | a `supersede` changes its replacement's lineage in memory and in the log, but not in the table (`store/store.ts:586`) |
| `ContextStore.ProtectedClosedOnEvidence` | `update` may write `closed_at`, which `close` guards (`core/patch.ts:495`) |
| `ContextStore.ProtectedIsServed` | an `update` may give a protected item a time-to-live, and nobody serves it once that is over |
| `ContextStore.ImportIsIdempotent` | an entry that adds nothing is never recognised as present (`daemon/manager.ts:729`, against `README.md:1033`) |
| `Maintenance.RetiredStaysRetired` | a check or a decay that read an item before another process retired it writes it back (`daemon/stale.ts:157`) |
| `EventPipeline.QueueIsBounded` | what waits for a worker is never cheap enough to shed (`store/store.ts:441`) |
| `EventPipeline.FoldedOnlyOnce` | between insert and mark a worker can derive from an event the fold has taken (`daemon/ingest.ts:197`) |
| `Ladder.EveryCompactionCounts` | the second compaction of a session is dropped as a repetition of the first (`adapters/claude/index.ts:211`, against `core/lifecycle.ts:18-22`) |
| `Maintenance.AlwaysBroughtBack` | an item left stale whose verdict a second process has cleared is never eligible again (`daemon/stale.ts:85-88,151`, against `stale.ts:143-155`, which brings back what it set aside) |
| `Lessons.OneAnswerAlone`, without its hypothesis | two folds that look up one path before either commits add a rule each, or an ambiguous one beside a plain one (`daemon/ingest.ts:186-191`) |
| `Lessons.MarkNeverGoesBackAlone`, without its hypothesis | two learners read the mark before either writes it (`workers/learn.ts:51-54`) |
| `Lessons.NothingAskedTwiceAlone`, without its hypothesis | two learners are shown one episode before either has moved the mark; so is one whose earlier run died between the answer and the mark |
| `Lessons.RecoveriesFollowFailures` | a fold of late reports, or of history again, looks back at a success that came before the failure it is said to cure (`daemon/ingest.ts:143-175`, `core/fold.ts:266`, against `core/recovery.ts:8-11`) |
| `Derived.AllDueIsTold` | what is critical or stated but past the rows `byCategory` reads (50) is left out and no marker tells (`store/retrieval.ts:281-288`, against `context-builder.ts:473`, "in unconditionally") |
| `Traffic.NothingWrittenInBetween` | a session seen by hooks and transcript: the write is dropped as `file_unchanged` from the one whose calls are counted, and the loop is reported across it (`core/deterministic.ts:83-95`, against `core/loops.ts:15-19`) |

Smaller ones, from reading the code beside the models:

- A run over conflicts or items has read no event, so its `working` block is written over a task set by hand
  meanwhile (`store.ts:541-546`); invariant 41 makes no exception.
- A failure that a hook and the transcript both report is recorded as two issues: their dedupe
  hashes have different prefixes, although `adapters/claude/index.ts:19-20` says they meet.
- A tail that stops between a scratch command and its result files the failure as a known issue (`fold.ts:62-76`).
- Invariant 45 has a same-named server never touched, `--force` or not; `--force` may replace one (`claude/mcp.ts:62-63`).
- `--chain` after the build has moved remembers our own old status line as the person's (`claude/statusline.ts:71-72`; the constant `Rechains`).
- `mirror_created` is never forgotten: a file a person later made empty is deleted with the block (`mirror.ts:190`).
- Doctor counts another project's hook as ours when it was written by hand (`doctor.ts:96-99`).
- The greedy run of `findLoops` splits at a call with no answer in the middle, against `loops.ts:311-312`.
- `context-builder.ts:417` drops a section with no lines together with the marker that would tell of it; always-on items may be
  dropped (`:364`) although they are said to be included unconditionally.
- A call under way where a window of `learn` ends is no attempt to that window; an episode that counts on it is not found,
  and the window is marked as read (against `workers/learn.ts:30-31`). `NothingIsPassedOver` is about
  sessions whose commands were reported whole.
- In a session seen by hooks only, a mutating command that fails runs no hook, so that a loop is reported across it (against
  `core/loops.ts:285`, "whether or not it reported success"). `LoopsAreReal` excepts it by name, `untold`.
- A kill between the rewrite of the settings and the note of the line it took over loses a person's status line
  (`claude/statusline.ts:70`, `cli/index.ts:1680-1683`); a kill while hooks or a mirror are written over leaves the
  person's file empty (`claude/hooks.ts:88`, `ops/mirror.ts:174,194`), and a mirror written from what was read before the
  person saved undoes what was saved. `TheirsIsKept` excepts each by name.
- A mirror that is killed, or overtaken by another one, between its block and its note leaves a block no uninstall visits; one
  that read the file before an uninstall writes the block back after it (`mirror.ts:174-175`, `:238-241`). The history
  `stray` is these, and `UninstallLeavesNothing` fails without it.
- The search window of six rows a hit counts dead rows (`retrieval.ts:152`); `latestAgentUsage` orders by the time of recording;
  a crash between storing a notice and printing it loses the notice (`manager.ts:565`); a run that was killed never records what it spent.

## 6. Not modelled, and why

- Text: redaction, the patterns themselves, similarity of words, instruction mining, salvage of malformed patches, rendering and
  prompts. Where text decides something the models depend on, the decision is a constant, a relation or a free choice.
- The two importers' parsing, the formats of agents other than Claude Code, the merging of configuration files, argument
  parsing, HTTP and MCP transports, SQL migrations: no states a model would tell apart.
- The web UI (a page over the manager's operations), the benchmarks, and read-only reports.
- Rotation of a transcript in the middle of a tail, which starts reading again at zero: everything is then a repetition, and
  `EventPipeline` has repetitions.

`components` in `PROJECT.json` lists every part with its status.

## 7. Plan

Done, in this order: `Patch` and `ContextStore`; `EventPipeline` over `EventLife`; `Maintenance`; `Cycle` and
`Ladder` over `Pressure`; `Lessons` over `Attempts`; `Derived` over `Retrieval`; `Wiring` over `Markers` and
`Registry`, `Doctor` over `Health`; `Traffic` over `Loops` and `Events`; the proofs of section 4, by which
every safety property of a passing run is a theorem.

What is left, in order of what a mistake would cost:

1. An abstract "spends at most its cap, plus one run a process" that `Cycle` implements, and a once-per-change judge that
   `Derived` implements.
2. Writes that fail without a kill in `Wiring`: a refresh that stops at the first file it cannot write, and a disk that is full.
3. Working memory field by field in `Patch`, where it is one value.
