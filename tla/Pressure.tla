------------------------------- MODULE Pressure -------------------------------
(***************************************************************************)
(* How full the agent's context window is and what that calls for          *)
(* (core/lifecycle.ts): the window taken for a session, the rung of the    *)
(* compaction ladder, the actions a rung authorises, and the advice to     *)
(* clear the window.  Nothing here has a state; Ladder and Cycle do.       *)
(*                                                                         *)
(* A usage is what agent_usage tells of a session: the occupancy of the    *)
(* latest turn, the largest one ever, and the kind of model of the latest. *)
(* A backlog is what the store's pendingSummary tells of its queue.        *)
(* Thresholds on occupancy are per cent of the window, so that all         *)
(* quantities are natural numbers.                                         *)
(***************************************************************************)
EXTENDS Integers, Sequences, FiniteSets

CONSTANTS
  Warn, High, Critical,  \* lifecycle.pressure_warn, _high, _critical, in per cent
  BacklogEvents,         \* lifecycle.backlog_event_threshold
  BacklogTokens,         \* lifecycle.backlog_token_threshold
  Configured,            \* lifecycle.context_window_tokens, 0 when it is not set
  DefaultWindow,         \* DEFAULT_CONTEXT_WINDOW_TOKENS
  LongWindow             \* the window of a long-context model

ASSUME PressureAssumption ==
  /\ Warn \in Nat /\ High \in Nat /\ Critical \in Nat
  /\ 0 < Warn /\ Warn <= High /\ High <= Critical
  /\ BacklogEvents \in Nat \ {0} /\ BacklogTokens \in Nat \ {0}
  /\ Configured \in Nat /\ DefaultWindow \in Nat \ {0}
  /\ LongWindow \in Nat /\ DefaultWindow < LongWindow

\* What a model's name says of its window: "known" names one of the default size,
\* "long" a long-context variant, "other" nothing (no model reported, or not recognised).
Model == {"known", "long", "other"}

Usage == [occupied : Nat, peak : Nat, model : Model]
Backlog == [events : Nat, tokens : Nat, requested : BOOLEAN]

windowForModel(model) == IF model = "long" THEN LongWindow ELSE DefaultWindow

\* The smallest published window an observed occupancy fits, or the occupancy itself.
Observed(peak) ==
  CASE peak <= DefaultWindow -> DefaultWindow
    [] DefaultWindow < peak /\ peak <= LongWindow -> LongWindow
    [] OTHER -> peak

\* mutant: what was observed does not correct what the model's name says
TrustsTheName(u) == IF Configured # 0 THEN Configured ELSE windowForModel(u.model)
Window(u) ==
  IF Configured # 0 THEN Configured
  ELSE IF u.peak > windowForModel(u.model) THEN Observed(u.peak)
  ELSE windowForModel(u.model)

\* A rung is reached by the share of the window a turn occupied; no turn, no share.
Reaches(u, threshold) == u.occupied > 0 /\ u.occupied * 100 >= threshold * Window(u)

LIFECYCLE_STAGES == <<"steady", "maintain", "consolidate", "reduce">>

\* Each reason escalates to its own rank; the highest of them is the stage.
Escalations(u, b) ==
  {0} \cup
  (IF Reaches(u, Critical) \/ b.requested THEN {3} ELSE {}) \cup
  (IF Reaches(u, High) \/ b.tokens >= BacklogTokens THEN {2} ELSE {}) \cup
  (IF Reaches(u, Warn) \/ b.events >= BacklogEvents THEN {1} ELSE {})

Rank(u, b) == CHOOSE r \in Escalations(u, b) : \A s \in Escalations(u, b) : s <= r
Stage(u, b) == LIFECYCLE_STAGES[Rank(u, b) + 1]

Free == <<"fold", "decay", "verify_refs">>
STAGE_ACTIONS ==
  [steady |-> <<>>,
   maintain |-> Free,
   consolidate |-> Free \o <<"prune", "extract", "resolve_conflicts">>,
   reduce |-> Free \o <<"prune", "extract", "resolve_conflicts", "reconcile">>]

\* mutant: resolving conflicts is taken for a free action
ForgetsResolve(action) == action \in {"extract", "reconcile", "learn"}
needsProvider(action) == action \in {"extract", "resolve_conflicts", "reconcile", "learn"}

\* Whether a session could go on from memory alone: something was derived, the
\* bootstrap has something to say, and no large backlog waits.
\* have is [version : BOOLEAN, brief : BOOLEAN].
RecoveryReady(b, have) == have.version /\ have.brief /\ b.tokens < BacklogTokens

None == [level |-> "none", ready |-> FALSE]
Advice == {None} \cup [level : {"high", "critical"}, ready : BOOLEAN]

clearAdvice(u, b, have) ==
  IF ~Reaches(u, High) THEN None
  ELSE [level |-> IF Reaches(u, Critical) THEN "critical" ELSE "high",
        ready |-> RecoveryReady(b, have)]

=============================================================================
