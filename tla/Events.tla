------------------------------- MODULE Events -------------------------------
(***************************************************************************)
(* What contextd makes of one event before anything is remembered: its     *)
(* importance and whether a model is needed (core/importance.ts), what the *)
(* deterministic engine decides (core/deterministic.ts) and what the fold  *)
(* makes of it (core/fold.ts).  A text is the cues the code's patterns     *)
(* find in it.                                                             *)
(***************************************************************************)
EXTENDS Integers, Sequences

CONSTANTS
  Shell,          \* command lines the agent runs
  Look,           \* calls of other tools, with their arguments
  File,           \* paths the agent writes
  Excluded,       \* those that are ignored or sensitive
  Scratch,        \* throwaway one-liners
  Milestone,      \* commands whose success finishes something
  Text, Hash,     \* what is said, and what files hold; "" is nothing
  Absent

ASSUME EventsAssumption ==
  /\ Excluded \subseteq File /\ Scratch \subseteq Shell /\ Milestone \subseteq Shell
  /\ Shell \cap Look = {} /\ (Shell \cup Look) \cap File = {}
  /\ "" \in Text \cap Hash
  /\ Absent \notin Shell \cup Look \cup File \cup {"zero", "other"}

EVENT_TYPES ==
  {"SESSION_STARTED", "SESSION_ENDED", "USER_MESSAGE", "ASSISTANT_MESSAGE", "TOOL_CALL",
   "TOOL_RESULT", "FILE_CHANGED", "COMMAND_EXECUTED", "ERROR_DETECTED", "DECISION_DETECTED",
   "CONSTRAINT_CHANGED", "REQUIREMENT_CHANGED", "ARCHITECTURE_CHANGED", "TASK_STARTED",
   "TASK_COMPLETED", "COMPACTION_REQUESTED"}

\* What a text may look like.  Nothing: it is blank.  Short: too short to say anything.
Cue == {"nothing", "short", "benign", "error", "trace", "dump", "transient", "harness",
        "constraint", "pasted", "decision", "discovery", "substance"}

\* says is the text, up to what changes on every run; exit is the exit status, Absent when
\* there is none; use is the tool_use_id, 0 when there is none; raw tells apart texts that
\* change on every run; at is the moment it happened.
ContextEvent ==
  [type : EVENT_TYPES, by : {"hook", "transcript"}, use : Nat,
   key : Shell \cup Look \cup File \cup {Absent}, says : Text, cues : SUBSET Cue,
   exit : {"zero", "other", Absent}, hash : Hash, raw : Nat, at : Nat]

-----------------------------------------------------------------------------
(* Importance. *)

IMPORTANCE == <<"ephemeral", "low", "medium", "high", "critical">>
importanceRank(i) == CHOOSE n \in DOMAIN IMPORTANCE : IMPORTANCE[n] = i
atLeast(i, floor) == importanceRank(i) >= importanceRank(floor)

looksLike(e, cues) == e.cues \cap cues # {}

isMilestoneCommand(key) == key \in Milestone
isSuccessfulMilestone(e) ==
  e.type = "COMMAND_EXECUTED" /\ e.exit = "zero" /\ isMilestoneCommand(e.key)

classifyImportance(e) ==
  CASE e.type \in {"CONSTRAINT_CHANGED", "REQUIREMENT_CHANGED", "ARCHITECTURE_CHANGED",
                   "DECISION_DETECTED"} -> "critical"
    [] e.type = "USER_MESSAGE" ->
         IF looksLike(e, {"constraint"}) /\ ~ looksLike(e, {"pasted"}) THEN "critical" ELSE "high"
    [] e.type = "ASSISTANT_MESSAGE" ->
         IF looksLike(e, {"decision", "discovery"}) THEN "high" ELSE "medium"
    [] e.type \in {"ERROR_DETECTED", "TASK_STARTED", "TASK_COMPLETED", "COMPACTION_REQUESTED"} -> "high"
    [] e.type = "COMMAND_EXECUTED" ->
         IF e.exit = "other" \/ isSuccessfulMilestone(e) \/ looksLike(e, {"error"}) THEN "high"
         ELSE IF looksLike(e, {"benign"}) THEN "ephemeral" ELSE "low"
    [] e.type = "TOOL_RESULT" ->
         IF looksLike(e, {"error"}) THEN "medium"
         ELSE IF looksLike(e, {"nothing", "benign"}) THEN "ephemeral" ELSE "low"
    [] e.type \in {"TOOL_CALL", "SESSION_STARTED", "SESSION_ENDED"} -> "low"
    [] OTHER -> "medium"

needsSemantics(e) ==
  \/ e.type \in {"USER_MESSAGE", "DECISION_DETECTED", "CONSTRAINT_CHANGED", "REQUIREMENT_CHANGED",
                 "ARCHITECTURE_CHANGED", "COMPACTION_REQUESTED", "ERROR_DETECTED", "TASK_STARTED",
                 "TASK_COMPLETED"}
  \/ e.type = "ASSISTANT_MESSAGE" /\ looksLike(e, {"decision", "discovery", "substance"})
  \/ isSuccessfulMilestone(e)

-----------------------------------------------------------------------------
(* The deterministic engine; no adapter claims an importance above the inferred one  *)
(* here.  `known` is whether the session has an event of the same dedupe hash, `last` *)
(* the hash the file index has of the path.                                          *)

fileUnchanged(e, last) == e.type = "FILE_CHANGED" /\ e.hash # "" /\ last = e.hash

process(e, known, last) ==
  IF \/ known \/ e.key \in Excluded
     \/ fileUnchanged(e, last)
     \/ classifyImportance(e) = "ephemeral" THEN "discard"
  ELSE IF needsSemantics(e) THEN "persist_and_queue" ELSE "persist"

-----------------------------------------------------------------------------
(* The fold. *)

isHarnessError(cues) == "harness" \in cues
isScratchCommand(key) == key \in Scratch

\* The agent guessed wrong.
guessedWrong(cues) == "transient" \in cues
looksLikeDump(cues) == "dump" \in cues

\* A dump is never worth it, a stack trace always; else the agent guessed wrong, the
\* harness refused, or there is nothing to tell.
isTransientToolError(cues) ==
  \/ looksLikeDump(cues)
  \/ /\ "trace" \notin cues
     /\ guessedWrong(cues) \/ isHarnessError(cues) \/ cues \cap {"short", "nothing"} # {}

\* The command a call of this batch ran.
\* mutant: only commands that are reported with their outcome
commandsReported(batch, use) ==
  {batch[n].key : n \in {m \in DOMAIN batch :
     batch[m].type = "COMMAND_EXECUTED" /\ batch[m].use = use /\ batch[m].use # 0}} \cap Shell
commandOfCall(batch, use) ==
  {batch[n].key : n \in {m \in DOMAIN batch :
     batch[m].type \in {"TOOL_CALL", "COMMAND_EXECUTED"} /\ batch[m].use = use /\ batch[m].use # 0}}
    \cap Shell

\* What is recorded as a known issue of the project.
recordsIssue(e, batch) ==
  \/ /\ e.type = "ERROR_DETECTED" /\ "nothing" \notin e.cues
     /\ \A c \in commandOfCall(batch, e.use) : ~ isScratchCommand(c)
     /\ ~ isTransientToolError(e.cues)
  \/ /\ e.type = "COMMAND_EXECUTED" /\ e.exit = "other"
     /\ ~ isTransientToolError(e.cues) /\ ~ isScratchCommand(e.key)

notesFile(e) == e.type = "FILE_CHANGED" /\ e.key \in File \ Excluded

\* Resolved for good, looked at and of no use, or left.
verdict(e, batch) ==
  CASE recordsIssue(e, batch) \/ notesFile(e) \/ e.type = "TASK_COMPLETED" -> "consumed"
    [] e.type \in {"SESSION_STARTED", "TASK_STARTED"} ->
         IF "nothing" \notin e.cues THEN "consumed"
         ELSE IF e.type = "SESSION_STARTED" THEN "inert" ELSE "none"
    [] e.type = "ERROR_DETECTED" ->
         IF "nothing" \in e.cues /\ \A c \in commandOfCall(batch, e.use) : ~ isScratchCommand(c)
         THEN "none" ELSE "inert"
    [] e.type = "COMMAND_EXECUTED" ->
         IF e.exit = "other" THEN "inert"
         ELSE IF e.exit = "zero" /\ ~ isSuccessfulMilestone(e) /\ ~ looksLike(e, {"error"})
              THEN "inert" ELSE "none"
    [] OTHER -> "none"

=============================================================================
