-------------------------------- MODULE Loops --------------------------------
(***************************************************************************)
(* src/core/loops.ts: the tool calls of a session, out of its stored       *)
(* events, and the loops among them: one call made again and again, with   *)
(* the same answer, with nothing written and nothing said in between.      *)
(* Nothing is remembered of it; status and doctor show it.                 *)
(***************************************************************************)
EXTENDS Events, FiniteSets, FiniteSetsExt

CONSTANTS
  Polling,          \* calls whose point is to be repeated
  Mutating,         \* commands that change the project
  LOOP_MIN_REPEATS,
  LOOP_WINDOW

ASSUME LoopsAssumption ==
  /\ Polling \subseteq Shell \cup Look /\ Mutating \subseteq Shell
  /\ LOOP_MIN_REPEATS \in Nat \ {0, 1} /\ LOOP_WINDOW \in Nat \ {0}

\* Calls are the same call up to where they run and how much of the output is taken.
Signature == Shell \cup Look
isPollingCommand(key) == key \in Polling
isMutatingCommand(key) == key \in Mutating
\* An answer, without what changes on every run.
normalizeOutcome(e) == e.says

Unanswered == [failed |-> "unknown", says |-> "", harness |-> FALSE]

\* One outcome of each call, by its tool_use_id: an error or a command's exit, the last
\* of them, before a plain result, the first of them.
outcomeOf(events, use) ==
  LET mine(types) == {n \in DOMAIN events : events[n].use = use /\ events[n].type \in types}
      final == {n \in mine({"ERROR_DETECTED", "COMMAND_EXECUTED"}) :
                 events[n].type = "COMMAND_EXECUTED" => events[n].exit # Absent}
      plain == mine({"TOOL_RESULT"})
      Read(n) == [failed |-> IF events[n].type = "ERROR_DETECTED" \/ events[n].exit = "other"
                             THEN "yes" ELSE "no",
                  says |-> normalizeOutcome(events[n]), harness |-> isHarnessError(events[n].cues)]
  IN IF use = 0 \/ (final = {} /\ plain = {}) THEN Unanswered
     ELSE Read(IF final # {} THEN Max(final) ELSE Min(plain))

\* What a hook reports in one event, or nothing.
ownOutcome(e) ==
  IF \/ e.type = "COMMAND_EXECUTED" /\ e.exit # Absent
     \/ e.type \in {"TOOL_RESULT", "ERROR_DETECTED"} /\ e.key \in Look
  THEN {[failed |-> IF e.type = "ERROR_DETECTED" \/ e.exit = "other" THEN "yes" ELSE "no",
         says |-> normalizeOutcome(e), harness |-> isHarnessError(e.cues)]}
  ELSE {}

\* Something after which the same call may rightly answer differently.
Reset(n) == [sig |-> Absent, failed |-> "unknown", outcome |-> "", resets |-> TRUE, ignored |-> TRUE, at |-> n]
\* mutant: a write is no more than a call
JustWritten(n, failed) == [Reset(n) EXCEPT !.failed = failed, !.resets = FALSE]
\* A failed edit changed nothing.
Written(n, failed) == [Reset(n) EXCEPT !.failed = failed, !.resets = failed # "yes"]

Called(n, key, outcome) ==
  [sig |-> key, failed |-> outcome.failed, outcome |-> outcome.says,
   resets |-> isMutatingCommand(key),
   ignored |-> \/ outcome.failed = "yes" /\ outcome.harness
               \/ isPollingCommand(key) \/ isMutatingCommand(key),
   at |-> n]

isTranscript(events) == \E n \in DOMAIN events : events[n].type = "TOOL_CALL" /\ events[n].use # 0
firstOfItsUse(events, n) ==
  \A m \in DOMAIN events :
    events[m].use = events[n].use /\ events[m].type \in {"TOOL_CALL", "FILE_CHANGED"} => m >= n

\* The records of event n: one or none.  A session the transcript of which was read is
\* read by nothing else.
RecordsOf(events, n) ==
  LET e == events[n] IN
  CASE e.type = "USER_MESSAGE" -> <<Reset(n)>>
    [] e.type # "USER_MESSAGE" /\ isTranscript(events) ->
         IF e.type \notin {"TOOL_CALL", "FILE_CHANGED"} \/ e.use = 0 \/ ~ firstOfItsUse(events, n)
         THEN <<>>
         ELSE IF e.type = "FILE_CHANGED" THEN <<Written(n, outcomeOf(events, e.use).failed)>>
         ELSE <<Called(n, e.key, outcomeOf(events, e.use))>>
    [] OTHER ->
         IF e.type = "FILE_CHANGED" THEN <<Written(n, "unknown")>>
         ELSE IF ownOutcome(e) = {} THEN <<>>
         ELSE <<Called(n, e.key, CHOOSE o \in ownOutcome(e) : TRUE)>>

collectToolCalls(events) ==
  LET upTo[n \in 0..Len(events)] ==
        IF n = 0 THEN <<>> ELSE upTo[n - 1] \o RecordsOf(events, n)
  IN upTo[Len(events)]

-----------------------------------------------------------------------------
(* Runs of repetitions. *)

\* members are positions in the list of calls.
NoRun == [last |-> 0, answer |-> "", members |-> <<>>]

\* An answer that is not known matches any.
\* mutant: any answer matches
AnyAnswer(run, c) == TRUE
sameAnswer(run, c) == run.answer = "" \/ c.outcome = "" \/ run.answer = c.outcome

\* mutant: a repetition a window away is too far
StrictlyWithin(run, c, i) == run # NoRun /\ sameAnswer(run, c) /\ i - run.last < LOOP_WINDOW
Repeats(run, c, i) == run # NoRun /\ sameAnswer(run, c) /\ i - run.last <= LOOP_WINDOW

Begun(c, i) == [last |-> i, answer |-> c.outcome, members |-> <<i>>]
Extended(run, c, i) ==
  [last |-> i, answer |-> IF run.answer = "" THEN c.outcome ELSE run.answer,
   members |-> Append(run.members, i)]

\* The longer run is kept, the earlier of two that are as long.
Better(best, run) ==
  IF Len(run.members) >= LOOP_MIN_REPEATS /\ Len(run.members) > Len(best.members) THEN run ELSE best

\* best and open, by signature, once the first i calls were looked at.
detectLoops(calls) ==
  LET walk[i \in 0..Len(calls)] ==
        IF i = 0 THEN [open |-> [s \in Signature |-> NoRun], best |-> [s \in Signature |-> NoRun]]
        ELSE LET before == walk[i - 1]
                 c == calls[i]
             IN IF c.resets
                THEN [open |-> [s \in Signature |-> NoRun],
                      best |-> [s \in Signature |-> Better(before.best[s], before.open[s])]]
                ELSE IF c.ignored THEN before
                ELSE LET run == before.open[c.sig] IN
                     IF Repeats(run, c, i)
                     THEN [before EXCEPT !.open[c.sig] = Extended(run, c, i)]
                     ELSE [open |-> [before.open EXCEPT ![c.sig] = Begun(c, i)],
                           best |-> [before.best EXCEPT ![c.sig] = Better(@, run)]]
      end == walk[Len(calls)]
      best == [s \in Signature |-> Better(end.best[s], end.open[s])]
  IN {[sig |-> s,
       repeats |-> Len(best[s].members),
       errorLoop |-> 2 * Cardinality({k \in DOMAIN best[s].members :
                            calls[best[s].members[k]].failed = "yes"}) > Len(best[s].members),
       at |-> [k \in DOMAIN best[s].members |-> calls[best[s].members[k]].at]] :
      s \in {x \in Signature : best[x] # NoRun}}

\* The loop status shows: most repetitions, then the earliest.
worst(findings) ==
  {f \in findings : \A g \in findings :
    f.repeats > g.repeats \/ (f.repeats = g.repeats /\ f.at[1] <= g.at[1])}

=============================================================================
