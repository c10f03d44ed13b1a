------------------------------- MODULE Lessons -------------------------------
(***************************************************************************)
(* What a session is remembered for having learned the hard way.  The fold *)
(* turns recoveries into rules as the events come in (ingest, refold,      *)
(* core/fold.ts, recoveryRulesFor); `contextd learn` walks the session     *)
(* forward from a watermark, window by window, and asks a model about the  *)
(* episodes it finds (workers/learn.ts, sessionToolEvents, runOnce).       *)
(*                                                                         *)
(* A step is a statement or a transaction of the database, or what lies    *)
(* between two.  A fold stores its events, looks back at the session,      *)
(* looks up the rules of each mistake, commits a patch and marks what it   *)
(* has resolved; each hook is a process of its own and a tail is another,  *)
(* so that another's steps may fall between any two, where the setting     *)
(* lets them race, and each may die after any.  A walk reads a window, the *)
(* watermark and writes the watermark.                                     *)
(*                                                                         *)
(* The log is the session as it happened, in the order of its timestamps.  *)
(* What a hook or a tail has not yet reported is not stored; late reports  *)
(* are stored behind later ones.  A call that a hook and a transcript both *)
(* report is in the log twice.                                             *)
(***************************************************************************)
EXTENDS Attempts, SequencesExt

CONSTANTS
  Folder,         \* processes that store and fold events: hooks, tails, the ladder
  Learner,        \* processes that run `learn`
  Milestone,      \* commands whose success the fold leaves for a worker
  HistoryLimit,   \* events the fold looks back over (40)
  WindowSize,     \* learn.max_session_events
  OverlapFactor,  \* events re-read for an attempt (4)
  MaxWindows,     \* windows of one walk (20)
  MaxEpisodes,    \* learn.max_episodes
  MaxBatch,       \* bound: events a fold stores
  MaxRules,       \* bound: rules beyond which nobody retires one
  Settings,       \* [calls, runs, refolds, racing, late, learns, shared, ties, length] of a
                  \* behaviour; length bounds the events of the session
  Remembered(_)   \* rules that earlier sessions may have left, in a setting

ASSUME LessonsAssumption ==
  /\ Milestone \subseteq Command
  /\ HistoryLimit \in Nat \ {0} /\ WindowSize \in Nat \ {0} /\ OverlapFactor \in Nat \ {0}
  /\ MaxWindows \in Nat \ {0} /\ MaxEpisodes \in Nat \ {0}
  /\ MaxBatch \in Nat /\ MaxRules \in Nat
  /\ Settings \subseteq
       [calls : SUBSET (Key \X Outcome), runs : SUBSET (Command \X Outcome), refolds : BOOLEAN,
        racing : BOOLEAN, late : BOOLEAN, learns : {"never", "during", "after"},
        shared : BOOLEAN, ties : BOOLEAN, length : Nat]
  \* Rows of one time are read in the order they were stored in.
  /\ \A s \in Settings : ~(s.late /\ s.ties)

VARIABLES
  log,      \* the session's events, as they happened
  stored,   \* positions of those that are in the store
  pending,  \* positions of those no fold and no worker has resolved
  rules,    \* recovery rules of memory, by their ids
  folder,   \* what each folding process holds
  mark,     \* meta learn_until, 0 before the first
  learner,  \* what each learning process holds
  answered, \* (history) episodes a model was asked about and answered
  setting   \* never changes

vars == <<log, stored, pending, rules, folder, mark, learner, answered, setting>>

\* A rule is known by what it was made for, with and after how many others.  Its files
\* or command may be added to and its status change.
RuleId == [failed : Key, ambiguous : BOOLEAN, fixes : SUBSET Key, after : Nat]
Rule == [fixes : SUBSET Key, status : {"active", "stale", "retired"}]
Known(ids) == [ids -> Rule]
InForce(r) == rules[r].status # "retired"

\* The answer rules give: to search, or the one thing that was meant.
SameAnswer(known, r, s) ==
  /\ r.ambiguous = s.ambiguous
  /\ ~r.ambiguous => known[r].fixes = known[s].fixes

\* Rules in force that disagree are left only where folds race.
ASSUME RememberedAssumption ==
  \A s \in Settings : \A known \in Remembered(s) :
    /\ DOMAIN known \subseteq RuleId /\ IsFiniteSet(DOMAIN known) /\ known \in Known(DOMAIN known)
    /\ \A r \in DOMAIN known : known[r].fixes # {}
    /\ ~s.racing =>
         \A r, t \in {x \in DOMAIN known : known[x].status # "retired" /\ x.failed \in Path} :
           r.failed = t.failed => SameAnswer(known, r, t)

\* A folding process holds its batch, the recoveries it found, and of each mistake the
\* rules it read.  (history) overtaken: some of what it looked back at came later than
\* some of its batch.
Idle == [at |-> "idle", again |-> FALSE, batch |-> {}, found |-> {}, overtaken |-> FALSE, read |-> <<>>]

\* A learning process holds where its walk has come and the windows it has left, the
\* episodes it asks about, the mark it wants and the one it read.
Resting == [at |-> "rests", cursor |-> 0, left |-> 0, asked |-> <<>>, until |-> 0, prev |-> 0]

TypeOK ==
  /\ log \in Seq(Event) /\ Len(log) <= setting.length
  /\ stored \subseteq DOMAIN log /\ pending \subseteq stored
  /\ DOMAIN rules \subseteq RuleId /\ rules \in Known(DOMAIN rules)
  /\ \A p \in Folder :
       /\ folder[p].at \in {"idle", "stores", "looks back", "looks up", "commits", "marks"}
       /\ folder[p].batch \subseteq stored
       /\ folder[p].found \subseteq stored \X folder[p].batch
  /\ mark \in Nat
  /\ \A p \in Learner :
       /\ learner[p].at \in {"rests", "walks", "asks", "reads", "writes"}
       /\ learner[p].cursor \in Nat /\ learner[p].until \in Nat /\ learner[p].prev \in Nat
       /\ learner[p].at = "asks" => learner[p].asked # <<>>
  /\ \A e \in answered : e.from < e.to /\ e.to \in DOMAIN log
  /\ setting \in Settings

Init ==
  /\ log = <<>> /\ stored = {} /\ pending = {}
  /\ folder = [p \in Folder |-> Idle]
  /\ mark = 0 /\ learner = [p \in Learner |-> Resting] /\ answered = {}
  /\ setting \in Settings /\ rules \in Remembered(setting)

-----------------------------------------------------------------------------
(* What a fold makes of what it reads.                                     *)

Tools == {"call", "done", "ran"}

\* The latest tool traffic of the session that is not being folded, oldest first.
recentToolEvents(batch) ==
  LET others == {n \in stored \ batch : log[n].type \in Tools}
  IN {n \in others : Cardinality({k \in others : k > n}) < HistoryLimit}

\* History first, the batch after it: the positions findRecoveries compares are those
\* of this sequence.  Pairs are given by their outcomes' positions in the session.
learnRecoveries(batch) ==
  LET events == At(log, recentToolEvents(batch)) \o At(log, batch)
      attempts == collectAttempts(events)
      fresh == {n \in DOMAIN events : events[n].at \in batch}
  IN {<<events[attempts[pair[1]].resultAt].at, events[attempts[pair[2]].resultAt].at>> :
       pair \in findRecoveries(attempts, fresh)}

\* What was got wrong, and what each mistake was put right with.
Wrong(found) == {log[pair[1]].key : pair \in found}
Fixes(found, failed) == {log[pair[2]].key : pair \in {x \in found : log[x[1]].key = failed}}

\* mutant: a faded rule is not looked for
OnlyActive(failed) == {r \in DOMAIN rules : r.failed = failed /\ rules[r].status = "active"}
\* Rules known for a wrong path or command, live or faded, but not retired.
recoveryRulesFor(failed) == {r \in DOMAIN rules : r.failed = failed /\ InForce(r)}
Read(failed) == [r \in recoveryRulesFor(failed) |-> rules[r]]

Earliest(ids) == CHOOSE r \in ids : \A s \in ids : r.after <= s.after

\* What is to become of the rules of a mistake: those seen again, and the files one of
\* them is known to have been; those retired; and those added, by whether they say to
\* search and what they name.
Plan(again, files, retired, added) == [again |-> again, files |-> files, retired |-> retired, added |-> added]

\* Each fix of a command has a rule.
PlanForCommand(fixes, known) ==
  LET With(fix) == {r \in DOMAIN known : fix \in known[r].fixes}
      old == {fix \in fixes : With(fix) # {}}
  IN Plan({Earliest(With(fix)) : fix \in old}, <<>>, {}, {<<FALSE, {fix}>> : fix \in fixes \ old})

\* mutant: the latest fix says what was meant
LatestWins(fixes, known) ==
  Plan({}, <<>>, DOMAIN known, {<<\E x, y \in fixes : x # y, fixes>>})
\* One wrong path fixed to different files is ambiguous, for good.
PlanForPath(fixes, known) ==
  LET vague == {r \in DOMAIN known : r.ambiguous}
      plain == DOMAIN known \ vague
      rights == fixes \cup UNION {known[r].fixes : r \in DOMAIN known}
      head == Earliest(vague)
  IN IF vague # {} THEN Plan({head}, [r \in {x \in {head} : rights # known[x].fixes} |-> rights], plain, {})
     ELSE IF \E x, y \in rights : x # y THEN Plan({}, <<>>, plain, {<<TRUE, rights>>})
     ELSE IF plain # {} THEN Plan({Earliest(plain)}, <<>>, {}, {})
     ELSE Plan({}, <<>>, {}, {<<FALSE, rights>>})

planRecoveryRules(failed, fixes, known) ==
  IF failed \in Command THEN PlanForCommand(fixes, known) ELSE PlanForPath(fixes, known)

\* What a fold's patch adds, unless a live rule says it already and the addition retires
\* nothing: neither a rule nor, of the mistakes that are noted, the issue it was.
Says(r, failed, added) ==
  /\ r.failed = failed /\ r.ambiguous = added[1] /\ rules[r].status = "active"
  /\ r.ambiguous \/ rules[r].fixes = added[2]
pruneInertOperations(failed, plan, noted) ==
  {added \in plan.added :
    plan.retired # {} \/ failed \in noted \/ ~ \E r \in DOMAIN rules : Says(r, failed, added)}
recoveryItem(failed, added) ==
  [failed |-> failed, ambiguous |-> added[1], fixes |-> added[2], after |-> Cardinality(DOMAIN rules)]

\* What was read to be faded is made live, whatever has become of it since.
revalidate(r, plan, known) ==
  [fixes |-> IF r \in DOMAIN plan.files THEN plan.files[r] ELSE rules[r].fixes,
   status |-> IF known[r].status = "stale" THEN "active" ELSE rules[r].status]
retire(r) == [rules[r] EXCEPT !.status = "retired"]

\* The rules of memory once a patch made of these plans is applied to them.
Applied(plans, read, noted) ==
  LET wrong == DOMAIN plans
      new == UNION {{recoveryItem(failed, added) :
                      added \in pruneInertOperations(failed, plans[failed], noted)} : failed \in wrong}
      Becomes(r) ==
        LET plan == plans[r.failed] IN
        IF r \in plan.retired THEN retire(r)
        ELSE IF r \in plan.again THEN revalidate(r, plan, read[r.failed])
        ELSE rules[r]
  IN [r \in DOMAIN rules \cup new |->
       IF r \in new THEN [fixes |-> r.fixes, status |-> "active"]
       ELSE IF r.failed \in wrong THEN Becomes(r) ELSE rules[r]]

-----------------------------------------------------------------------------
(* The session.                                                            *)

UnderWay(l) ==
  {c \in DOMAIN l : l[c].type = "call" /\ \A n \in DOMAIN l : l[n].type = "done" => l[n].of # c}

\* What the agent may do next, given what it has under way.
Happenings(l) ==
  {[type |-> "call", of |-> Len(l) + 1, key |-> k[1], out |-> "ok"] : k \in setting.calls}
  \cup {[type |-> "ran", of |-> Len(l) + 1, key |-> r[1], out |-> r[2]] : r \in setting.runs}
  \cup UNION {{[type |-> "done", of |-> c, key |-> k[1], out |-> k[2]] :
                k \in {x \in setting.calls : x[1] = l[c].key}} : c \in UnderWay(l)}

\* A timestamp is the one before it or a later one.
Extensions(l) ==
  LET now == IF l = <<>> THEN 1 ELSE Last(l).ts
  IN {Append(l, [type |-> h.type, at |-> Len(l) + 1, of |-> h.of, key |-> h.key, out |-> h.out, ts |-> ts]) :
       h \in Happenings(l), ts \in {now + 1} \cup {t \in {now} : setting.ties}}

\* What happens and is reported later than what happens next.
Happens ==
  /\ setting.late
  /\ \E l \in Extensions(log) : Len(l) <= setting.length /\ log' = l
  /\ UNCHANGED <<stored, pending, rules, folder, mark, learner, answered, setting>>

-----------------------------------------------------------------------------
(* The fold, a statement at a time.                                        *)

\* Where folds do not race, one is over before another begins and before anyone else
\* touches what it reads.
Undisturbed(p) == setting.racing \/ \A q \in Folder \ {p} : folder[q] = Idle
Unused == setting.racing \/ \A q \in Folder : folder[q] = Idle

\* A hook stores one event, a tail what it has read, each as it happens or later.
insertEvent(p) ==
  /\ folder[p].at \in {"idle", "stores"} /\ Undisturbed(p)
  /\ Cardinality(folder[p].batch) < MaxBatch
  /\ \E l \in {log} \cup Extensions(log) :
       /\ Len(l) <= setting.length /\ log' = l
       /\ \E n \in DOMAIN l \ stored :
            /\ n < Len(l) => l = log
            /\ stored' = stored \cup {n} /\ pending' = pending \cup {n}
            /\ folder' = [folder EXCEPT ![p] = [@ EXCEPT !.at = "stores", !.batch = folder[p].batch \cup {n}]]
  /\ UNCHANGED <<rules, mark, learner, answered, setting>>

\* The ladder's fold goes over what still waits.
refold(p) ==
  /\ setting.refolds /\ pending # {} /\ folder[p] = Idle /\ Undisturbed(p)
  /\ folder' = [folder EXCEPT ![p] = [Idle EXCEPT !.at = "looks back", !.again = TRUE, !.batch = pending]]
  /\ UNCHANGED <<log, stored, pending, rules, mark, learner, answered, setting>>

\* The history is read, and what the batch recovers from is found.
LooksBack(p) ==
  /\ folder[p].at \in {"stores", "looks back"}
  /\ LET batch == folder[p].batch
         found == learnRecoveries(batch)
     IN folder' = [folder EXCEPT ![p] = [@ EXCEPT
          !.at = IF found = {} THEN "marks" ELSE "looks up",
          !.found = found,
          !.overtaken = \E n \in recentToolEvents(batch), m \in batch : n > m]]
  /\ UNCHANGED <<log, stored, pending, rules, mark, learner, answered, setting>>

\* The rules of one mistake are looked up.
LooksUp(p) ==
  /\ folder[p].at = "looks up"
  /\ \E failed \in Wrong(folder[p].found) \ DOMAIN folder[p].read :
       LET read == [k \in DOMAIN folder[p].read \cup {failed} |->
                     IF k = failed THEN Read(failed) ELSE folder[p].read[k]]
       IN folder' = [folder EXCEPT ![p] = [@ EXCEPT
            !.at = IF DOMAIN read = Wrong(folder[p].found) THEN "commits" ELSE "looks up",
            !.read = read]]
  /\ UNCHANGED <<log, stored, pending, rules, mark, learner, answered, setting>>

\* The patch is applied to the rules as they are by then.
commitPatch(p) ==
  /\ folder[p].at = "commits"
  /\ LET read == folder[p].read
         plans == [failed \in DOMAIN read |->
                    planRecoveryRules(failed, Fixes(folder[p].found, failed), read[failed])]
     IN \E noted \in SUBSET DOMAIN read : rules' = Applied(plans, read, noted)
  /\ folder' = [folder EXCEPT ![p] = [@ EXCEPT !.at = "marks"]]
  /\ UNCHANGED <<log, stored, pending, mark, learner, answered, setting>>

\* It is refused if what it retires has been protected since.
Refused(p) ==
  /\ setting.racing /\ folder[p].at = "commits"
  /\ folder' = [folder EXCEPT ![p] = [@ EXCEPT !.at = "marks"]]
  /\ UNCHANGED <<log, stored, pending, rules, mark, learner, answered, setting>>

\* A milestone is left for a worker, unless a rule came of it; a fold over what waits
\* also leaves calls and successes nothing came of.
Left(p) ==
  {n \in folder[p].batch :
    /\ \A pair \in folder[p].found : pair[2] # n
    /\ \/ log[n].type = "ran" /\ log[n].key \in Milestone /\ log[n].out = "ok"
       \/ folder[p].again /\ (log[n].type = "call" \/ (log[n].type = "done" /\ log[n].out = "ok"))}
MarksResolved(p) ==
  /\ folder[p].at = "marks"
  /\ pending' = pending \ (folder[p].batch \ Left(p))
  /\ folder' = [folder EXCEPT ![p] = Idle]
  /\ UNCHANGED <<log, stored, rules, mark, learner, answered, setting>>

\* A fold dies after any of its statements; what it stored waits.
FoldDies(p) ==
  /\ setting.refolds /\ folder[p] # Idle
  /\ folder' = [folder EXCEPT ![p] = Idle]
  /\ UNCHANGED <<log, stored, pending, rules, mark, learner, answered, setting>>

\* A worker that read some of what waits resolves it.
WorkerResolves ==
  /\ setting.refolds /\ Unused
  /\ \E some \in SUBSET pending : some # {} /\ pending' = pending \ some
  /\ UNCHANGED <<log, stored, rules, folder, mark, learner, answered, setting>>

\* Unseen for three weeks, a rule fades: what the decay read to be active it makes stale,
\* whatever has become of it since.  Anyone may retire one.
RuleFades(r) ==
  /\ Unused
  /\ rules[r].status = "active" \/ (setting.racing /\ rules[r].status = "retired")
  /\ rules' = [rules EXCEPT ![r].status = "stale"]
  /\ UNCHANGED <<log, stored, pending, folder, mark, learner, answered, setting>>
RuleRetired(r) ==
  /\ InForce(r) /\ Unused /\ Cardinality(DOMAIN rules) < MaxRules
  /\ rules' = [rules EXCEPT ![r] = retire(r)]
  /\ UNCHANGED <<log, stored, pending, folder, mark, learner, answered, setting>>

-----------------------------------------------------------------------------
(* Learning.                                                               *)

\* The first events after a time; a mark is a timestamp and tells no two apart.
sessionToolEvents(after) ==
  LET later == At(log, {n \in stored : log[n].ts > after})
  IN SubSeq(later, 1, Min({WindowSize, Len(later)}))

overlap == Min({EPISODE_WINDOW * OverlapFactor, WindowSize \div 2})

\* mutant: the next window starts where this one ends
WindowEnd(events) == Last(events).ts
\* How far a full window without an episode is marked read.
markRead(events) == events[Max({1, Len(events) - overlap})].ts

\* When a session may be learned from: as it goes, or once it is over and all of it stored.
Due ==
  CASE setting.learns = "during" -> TRUE
    [] setting.learns = "after"  -> Len(log) = setting.length /\ stored = DOMAIN log
    [] setting.learns = "never"  -> FALSE

\* A walk begins at the watermark.
buildLearnInput(p) ==
  /\ learner[p] = Resting /\ Due
  /\ setting.shared \/ \A q \in Learner : learner[q] = Resting
  /\ learner' = [learner EXCEPT ![p] = [@ EXCEPT !.at = "walks", !.cursor = mark, !.left = MaxWindows]]
  /\ UNCHANGED <<log, stored, pending, rules, folder, mark, answered, setting>>

\* It reads a window.  The digest shows the first of its episodes, and the mark is to move
\* past the last of those; a full window without one is to be marked read, but for the
\* overlap; and at the session's tail there is nothing to ask.
ReadsWindow(p) ==
  /\ learner[p].at = "walks"
  /\ LET events == sessionToolEvents(learner[p].cursor)
         episodes == collectEpisodes(events, learner[p].cursor)
         shown == SubSeq(episodes, 1, Min({MaxEpisodes, Len(episodes)}))
     IN learner' =
          IF episodes # <<>> THEN
            [learner EXCEPT ![p] = [@ EXCEPT !.at = "asks", !.asked = shown, !.until = Last(shown).resolvedAt]]
          ELSE IF Len(events) < WindowSize \/ markRead(events) <= learner[p].cursor THEN
            [learner EXCEPT ![p] = Resting]
          ELSE [learner EXCEPT ![p] = [@ EXCEPT !.at = "reads", !.until = markRead(events)]]
  /\ UNCHANGED <<log, stored, pending, rules, folder, mark, answered, setting>>

\* Advancing the watermark reads it.
learnWatermark(p) ==
  /\ learner[p].at = "reads"
  /\ learner' = [learner EXCEPT ![p] = [@ EXCEPT !.at = "writes", !.prev = mark]]
  /\ UNCHANGED <<log, stored, pending, rules, folder, mark, answered, setting>>

\* And writes it, if what it read was behind.  A walk goes on from there, while it has
\* windows left; a run that was answered is over.
advanceWatermark(p) ==
  /\ learner[p].at = "writes"
  /\ mark' = IF learner[p].until > learner[p].prev THEN learner[p].until ELSE mark
  /\ learner' =
       IF learner[p].asked # <<>> \/ learner[p].left = 1 THEN [learner EXCEPT ![p] = Resting]
       ELSE [learner EXCEPT ![p] = [@ EXCEPT !.at = "walks", !.cursor = learner[p].until, !.left = learner[p].left - 1]]
  /\ UNCHANGED <<log, stored, pending, rules, folder, answered, setting>>

\* What of a model's patch is kept: additions of the right category that cite an event
\* the digest showed.  An entry is whether it is fit and whether what it cites was shown.
Entry == [fit : BOOLEAN, cited : BOOLEAN]
restrictLearnPatch(added) ==
  LET kept == {a \in added : a.fit /\ a.cited}
  IN IF added = {} THEN "noop" ELSE IF kept = {} THEN "invalid" ELSE "ok"

\* mutant: only a lesson moves the mark
OnlyOnLessons(status) == status = "ok"
Settles(status) == status \in {"ok", "noop"}

Answers(p) ==
  /\ learner[p].at = "asks"
  /\ \E added \in SUBSET Entry :
       LET status == restrictLearnPatch(added) IN
       /\ learner' = [learner EXCEPT ![p] = IF Settles(status) THEN [@ EXCEPT !.at = "reads"] ELSE Resting]
       /\ answered' = IF status = "invalid" THEN answered
                      ELSE answered \cup Range(learner[p].asked)
  /\ UNCHANGED <<log, stored, pending, rules, folder, mark, setting>>

\* Deferred, failed, or dead.  (history) An answer whose run dies before it has moved the
\* mark does not count.
Fails(p) ==
  /\ learner[p] # Resting
  /\ answered' = IF learner[p].at = "asks" THEN answered ELSE answered \ Range(learner[p].asked)
  /\ learner' = [learner EXCEPT ![p] = Resting]
  /\ UNCHANGED <<log, stored, pending, rules, folder, mark, setting>>

Next ==
  \/ Happens \/ WorkerResolves
  \/ \E p \in Folder :
       \/ insertEvent(p) \/ refold(p) \/ LooksBack(p) \/ LooksUp(p)
       \/ commitPatch(p) \/ Refused(p) \/ MarksResolved(p) \/ FoldDies(p)
  \/ \E r \in DOMAIN rules : RuleFades(r) \/ RuleRetired(r)
  \/ \E p \in Learner :
       \/ buildLearnInput(p) \/ ReadsWindow(p) \/ learnWatermark(p) \/ advanceWatermark(p)
       \/ Answers(p) \/ Fails(p)

Spec == Init /\ [][Next]_vars

-----------------------------------------------------------------------------
(* Properties.                                                             *)

\* The rules in force for a wrong path give one answer, so that no session is sent to a
\* file by one rule and told to search, or sent elsewhere, by another.
Agree(path) ==
  \A r, s \in {x \in DOMAIN rules : x.failed = path /\ InForce(x)} : SameAnswer(rules, r, s)

\* A fold settles what it has learned about: where nobody changed the rules of a path
\* between its look and its commit, they give one answer afterwards, whatever folds that
\* raced each other had left there, and whatever faded, was seen again or was retired
\* (planRecoveryRules, recoveryRulesFor, commitPatch).  Folds that did overtake one another
\* may leave two answers: neither plans against what the other adds.
AFoldSettlesItsPath ==
  [][\A p \in Folder : commitPatch(p) =>
       \A path \in Path \cap DOMAIN folder[p].read :
         folder[p].read[path] = Read(path) => Agree(path)']_vars

\* Where folds do not race there is never more than one answer.
OneAnswerAlone == ~setting.racing => \A path \in Path : Agree(path)

Ambiguous(path) == \E r \in DOMAIN rules : r.failed = path /\ InForce(r) /\ r.ambiguous

\* Once a path has meant different files a rule says to search for it, and no fold ends
\* that, however old what it read has become: only a person who retires the rule does.
OnceAmbiguousStaysSo ==
  [][\A path \in Path : Ambiguous(path) /\ ~Ambiguous(path)' => UNCHANGED folder]_vars

\* A recovery is a success whose call was made after the failure had come back, never one
\* of calls under way together nor one that came first, where a fold looked back only at
\* what came before its batch: it may look back at later events when what it folds was
\* reported late or is folded again (recentToolEvents reads the latest by timestamp).
CauseBeforeEffect ==
  \A p \in Folder : ~folder[p].overtaken =>
    \A pair \in folder[p].found : pair[1] <= log[pair[2]].of

\* recovery.ts and its project's invariants: "when a call fails and a closely related call
\* of the same tool succeeds a few calls later, the pair is a durable lesson".
RecoveriesFollowFailures == \A p \in Folder : \A pair \in folder[p].found : pair[1] < pair[2]

\* A lesson is paid for once: with one learner at a time, no episode a model was asked
\* about and answered, if only with nothing, is shown to it again, unless the run died
\* between the answer and the mark.
NothingAskedTwiceAlone ==
  ~setting.shared =>
    \A p \in Learner : learner[p].at = "asks" => Range(learner[p].asked) \cap answered = {}

Overlap(e, f) == e.called <= f.to /\ f.called <= e.to
Episodes == Range(collectEpisodes(log, 0))

\* Each command is reported with its outcome, by a hook, and no call is under way.
ReportedWhole == \A n \in DOMAIN log : log[n].type = "ran"

\* The walk passes no lesson over: of a session that has ended, whose commands were reported
\* whole and no two events of which have one timestamp, and that one learner at a time
\* walks, each episode that spans no more than the overlap and has begun behind the
\* watermark was answered, or overlaps one that was; neither the end of a window nor the
\* cap on a digest cuts one in two.  (A call that is under way across the end of a window
\* is no attempt to it, and an episode that counts on its having been tried is not seen.)
NothingIsPassedOver ==
  ~setting.ties /\ ~setting.shared /\ setting.learns = "after" /\ ReportedWhole =>
    \A e \in Episodes : log[e.called].ts <= mark /\ e.to - e.called <= overlap =>
      \E f \in answered : Overlap(e, f)

\* With one learner at a time the watermark of a session never goes back.  (Two may take it
\* back: each reads it before either writes.)
MarkNeverGoesBackAlone == [][~setting.shared => mark' >= mark]_vars

=============================================================================
