------------------------------ MODULE Attempts -------------------------------
(***************************************************************************)
(* What a stretch of a session's tool traffic teaches: the tool calls and  *)
(* what became of them (collectAttempts), the failures a related call      *)
(* recovered from (core/recovery.ts) and the episodes from a failure to    *)
(* the command that finally worked (core/episodes.ts).  Pure functions of  *)
(* a sequence of events; Lessons says who reads which stretch, and when.   *)
(*                                                                         *)
(* An event is a call, the outcome of an earlier call, a command with its  *)
(* outcome in one (what a hook reports), or a remark of the agent.  Keys   *)
(* are command lines and paths; what the code computes from their text     *)
(* (edit distance, binary, stem, extension) is a relation between keys.    *)
(***************************************************************************)
EXTENDS Integers, Sequences, FiniteSets, FiniteSetsExt, Functions

CONSTANTS
  Command,          \* command lines
  Path,             \* project-relative paths
  Edits,            \* paths that are edited, not read
  Related,          \* <<failed, success>>: a plausible correction of it, both fit to be quoted
  Repairs,          \* <<failed, success>>: a small edit of it
  AfterCd,          \* <<failed, later>>: the same binary after a `cd`
  Probes,           \* scratch one-liners and compound commands
  RECOVERY_WINDOW,  \* attempts a success may look back
  EPISODE_WINDOW    \* attempts a failure may look ahead

Key == Command \cup Path

ASSUME AttemptsAssumption ==
  /\ Command \cap Path = {} /\ Edits \subseteq Path /\ Probes \subseteq Command
  /\ Related \subseteq (Command \X Command) \cup (Path \X Path)
  /\ Repairs \subseteq Command \X Command /\ AfterCd \subseteq Command \X Command
  /\ RECOVERY_WINDOW \in Nat \ {0} /\ EPISODE_WINDOW \in Nat \ {0}

ToolOf(key) == IF key \in Command THEN "Bash" ELSE IF key \in Edits THEN "Edit" ELSE "Read"

\* What the output of a call says: it worked, the file is not there, the command was
\* malformed, the project failed, or the harness and the machine got in the way.
Outcome == {"ok", "missing", "malformed", "trace", "noise"}
substantive(out) == out \in {"malformed", "trace"}

\* of is the position in the session of the call an outcome belongs to, at the event's own.
Event ==
  [type : {"call", "done", "ran", "said"}, at : Nat, of : Nat, key : Key, out : Outcome, ts : Nat]

\* The positions among the first n that are in a set, in order.
InTurn(positions, n) ==
  LET upTo[m \in 0..n] ==
        IF m = 0 THEN <<>>
        ELSE IF m \in positions THEN Append(upTo[m - 1], m) ELSE upTo[m - 1]
  IN upTo[n]
At(events, positions) ==
  LET order == InTurn(positions, Len(events))
  IN [k \in DOMAIN order |-> events[order[k]]] \o <<>>

-----------------------------------------------------------------------------
(* Calls and their outcomes.                                               *)

\* Where the outcome of a call is found among the events read, if it is: the command
\* itself, or the first outcome that names the call.
Outcomes(events, c) ==
  CASE events[c].type = "ran" -> {c}
    [] events[c].type = "call" ->
         {n \in c + 1..Len(events) : events[n].type = "done" /\ events[n].of = events[c].at}
    [] OTHER -> {}

Attempt(events, c) ==
  LET n == Min(Outcomes(events, c))
  IN [key |-> events[c].key, out |-> events[n].out, callAt |-> c, resultAt |-> n]

\* In the order of the calls; an outcome with no call is dropped, a call with none too.
collectAttempts(events) ==
  LET calls == InTurn({c \in DOMAIN events : Outcomes(events, c) # {}}, Len(events))
  IN [i \in DOMAIN calls |-> Attempt(events, calls[i])] \o <<>>

-----------------------------------------------------------------------------
(* Recoveries.                                                             *)

\* Whether a success teaches what to do instead of the failure.
buildRecovery(failed, success) ==
  /\ failed.key # success.key
  /\ failed.out = IF failed.key \in Command THEN "malformed" ELSE "missing"
  /\ <<failed.key, success.key>> \in Related

\* Only the most recent failure of the same tool is a candidate.
FailuresBefore(attempts, j) ==
  {i \in j - RECOVERY_WINDOW..j - 1 :
    i > 0 /\ attempts[i].out # "ok" /\ ToolOf(attempts[i].key) = ToolOf(attempts[j].key)}

\* mutant: a success under way when the failure came back is taken for a reaction to it
ReactsBefore(failed, success) == TRUE
Reacts(failed, success) == success.callAt >= failed.resultAt

\* The pairs of attempts of which the second recovers from the first and its outcome is
\* one of the fresh events; a failure is recovered from once.
findRecoveries(attempts, fresh) ==
  LET Pairs(j, found) ==
        LET i == Max(FailuresBefore(attempts, j)) IN
        IF /\ \A pair \in found : pair[1] # i
           /\ Reacts(attempts[i], attempts[j]) /\ buildRecovery(attempts[i], attempts[j])
        THEN {<<i, j>>} ELSE {}
      successes == {j \in DOMAIN attempts : /\ attempts[j].out = "ok" /\ attempts[j].resultAt \in fresh
                                            /\ FailuresBefore(attempts, j) # {}}
      found[j \in 0..Len(attempts)] ==
        IF j = 0 THEN {}
        ELSE LET before == found[j - 1]
             IN before \cup IF j \in successes THEN Pairs(j, before) ELSE {}
  IN found[Len(attempts)]

-----------------------------------------------------------------------------
(* Episodes.                                                               *)

\* A failure worth an episode; what the fold learns by itself is not.
Failures(attempts) ==
  LET learned == {pair[1] : pair \in findRecoveries(attempts, {a.resultAt : a \in Range(attempts)})}
  IN {i \in DOMAIN attempts :
       /\ attempts[i].key \in Command \ Probes
       /\ substantive(attempts[i].out) /\ i \notin learned}

\* The attempts that may end it: the same command once something else was tried, or a
\* small edit of it.
Ends(attempts, i) ==
  {j \in i + 1..i + EPISODE_WINDOW :
    /\ j <= Len(attempts) /\ attempts[j].out = "ok" /\ attempts[j].key \in Command
    /\ attempts[j].callAt >= attempts[i].resultAt
    /\ IF attempts[j].key = attempts[i].key THEN j > i + 1
       ELSE <<attempts[i].key, attempts[j].key>> \in Repairs}

\* Not an episode: a file was edited on the way, or the shell stood in the wrong directory.
editedBetween(attempts, i, end) ==
  \E k \in i + 1..end - 1 : attempts[k].out = "ok" /\ ToolOf(attempts[k].key) = "Edit"
wrongDirectory(attempts, i, end) ==
  \E k \in i + 1..end : <<attempts[i].key, attempts[k].key>> \in AfterCd

\* An episode, by the positions in the session of the outcomes it starts and ends with
\* and of the call it starts with.
Episode(events, failed, success) ==
  [called |-> events[failed.callAt].at, from |-> events[failed.resultAt].at,
   to |-> events[success.resultAt].at, resolvedAt |-> events[success.resultAt].ts]

\* The failures an episode may start with, unless it lies within another.
Open(attempts) ==
  {i \in Failures(attempts) :
    /\ Ends(attempts, i) # {}
    /\ ~editedBetween(attempts, i, Min(Ends(attempts, i)))
    /\ ~wrongDirectory(attempts, i, Min(Ends(attempts, i)))}

\* In the order of their failures; nothing within an episode starts another, and what
\* was resolved by `after` has been looked at.
collectEpisodes(events, after) ==
  LET attempts == collectAttempts(events)
      open == Open(attempts)
      scan[i \in 0..Len(attempts)] ==
        IF i = 0 THEN [through |-> 0, found |-> <<>>]
        ELSE LET before == scan[i - 1] IN
             IF i \notin open \/ i <= before.through THEN before
             ELSE LET end == Min(Ends(attempts, i))
                      e == Episode(events, attempts[i], attempts[end])
                  IN [through |-> end,
                      found |-> IF e.resolvedAt > after THEN Append(before.found, e) ELSE before.found]
  IN scan[Len(attempts)].found

=============================================================================
