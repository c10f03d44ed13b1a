------------------------------- MODULE Ladder --------------------------------
(***************************************************************************)
(* One session of an agent and those who watch how full its window is: the *)
(* hooks the agent runs (cli/index.ts, adapters/claude) and a process that *)
(* tails its transcript.  Both record the turns they see (observeUsage,    *)
(* ingest, recordAgentUsage); the latest one recorded and the queue say    *)
(* how hard memory is pressed, and a prompt's hook tells the person when   *)
(* the window can be cleared (clearAdviceOnce).                            *)
(*                                                                         *)
(* A hook is a process of its own that runs without awaiting.  The agent   *)
(* waits for its hook, but runs several at once for parallel tools and for *)
(* hooks installed twice: `shared` says whether more than one can be at    *)
(* work, `followed` whether a transcript is tailed as well.                *)
(*                                                                         *)
(* Abstractions.  The transcript holds turns with usage only.  The rest of *)
(* the queue and what memory has derived change freely: Cycle and          *)
(* EventPipeline say how.  Usage is in units of the smallest window's      *)
(* quarter, as in Pressure.                                                *)
(***************************************************************************)
EXTENDS Pressure, FiniteSetsExt

CONSTANTS
  Process,          \* hooks that may run at once
  Trigger,          \* what a PreCompact hook may say started the compaction
  Turn,             \* what a turn may report: [occupied : Nat, model : Model]
  Modes,            \* the [shared, followed : BOOLEAN] of a behaviour
  MaxTurns,         \* bound: turns of the session
  MaxCompactions,   \* bound: compactions of the session
  MaxDeaths         \* bound: hooks that die half way

ASSUME LadderAssumption ==
  /\ Turn \subseteq [occupied : Nat, model : Model] /\ MaxTurns \in Nat /\ MaxCompactions \in Nat /\ MaxDeaths \in Nat
  /\ Modes \subseteq [shared : BOOLEAN, followed : BOOLEAN]
  /\ IsFiniteSet(Process) /\ IsFiniteSet(Trigger)

VARIABLES
  transcript,  \* the agent's turns, oldest first
  recorded,    \* agent_usage: the turns recorded, by (at, rowid)
  cursor,      \* how much of the transcript the tail has ingested
  tailed,      \* how much of it the tail has read
  request,     \* the COMPACTION_REQUESTED event stored for each trigger
  compactions, \* how often the agent announced a compaction
  hard,        \* meta hard_compactions
  backlog,     \* tokens of the other events that wait
  have,        \* whether anything was derived, and whether the bootstrap says anything
  said,        \* meta clear_advice: the last notice given
  hook,        \* the hooks at work
  deaths,
  mode         \* never changes

vars == <<transcript, recorded, cursor, tailed, request, compactions, hard, backlog, have,
          said, hook, deaths, mode>>

\* since is how many turns had been recorded when the request was stored.
NoRequest == [at |-> "none", since |-> 0]
Request == [at : {"none", "waiting", "resolved"}, since : Nat]

Idle == [kind |-> "none", at |-> "done", trigger |-> "none", advice |-> None]
Hook ==
  [kind : {"none", "stop", "compact", "prompt"}, at : {"done", "observe", "store", "count", "advise", "say", "print"},
   trigger : Trigger \cup {"none"}, advice : Advice]

TypeOK ==
  /\ transcript \in Seq(Turn)
  /\ recorded \in Seq(DOMAIN transcript)
  /\ cursor \in 0..tailed /\ tailed \in 0..Len(transcript)
  /\ request \in [Trigger -> Request]
  /\ compactions \in 0..MaxCompactions /\ hard \in Nat
  /\ backlog \in 0..BacklogTokens
  /\ have \in [version : BOOLEAN, brief : BOOLEAN]
  /\ said \in Advice
  /\ hook \in [Process -> Hook]
  /\ deaths \in 0..MaxDeaths /\ mode \in Modes

Init ==
  /\ transcript = <<>> /\ recorded = <<>> /\ cursor = 0 /\ tailed = 0
  /\ request = [t \in Trigger |-> NoRequest]
  /\ compactions = 0 /\ hard = 0
  /\ backlog = 0 /\ have = [version |-> FALSE, brief |-> FALSE]
  /\ said = None
  /\ hook = [p \in Process |-> Idle]
  /\ deaths = 0 /\ mode \in Modes

-----------------------------------------------------------------------------
(* What the store says.                                                    *)

Known == {recorded[i] : i \in DOMAIN recorded}

\* A turn is recorded once, under the id of its message, when it is first seen.
recordAgentUsage(n) == recorded' = IF n \in Known THEN recorded ELSE Append(recorded, n)

Occupied(n) == transcript[n].occupied
Peak == IF recorded = <<>> THEN 0 ELSE Max({Occupied(n) : n \in Known})

\* What the session's rows say of a turn taken for the latest one.
UsageAt(n) == [occupied |-> Occupied(n), peak |-> Peak, model |-> transcript[n].model]
NoUsage == [occupied |-> 0, peak |-> 0, model |-> "other"]

\* mutant: the largest occupancy is taken for the present one
PeakTurn ==
  IF recorded = <<>> THEN NoUsage
  ELSE UsageAt(CHOOSE n \in Known : \A k \in Known : Occupied(k) <= Occupied(n))
latestAgentUsage == IF recorded = <<>> THEN NoUsage ELSE UsageAt(recorded[Len(recorded)])

\* A request is live until a turn is recorded after it.
Live(t) == request[t].at = "waiting" /\ request[t].since = Len(recorded)
pendingSummary ==
  [events |-> backlog, tokens |-> backlog, requested |-> \E t \in Trigger : Live(t)]

pressure == Stage(latestAgentUsage, pendingSummary)
clearAdviceNow == clearAdvice(latestAgentUsage, pendingSummary, have)

-----------------------------------------------------------------------------
(* The agent.                                                              *)

AgentTurns ==
  /\ Len(transcript) < MaxTurns
  /\ \E t \in Turn : transcript' = Append(transcript, t)
  /\ UNCHANGED <<recorded, cursor, tailed, request, compactions, hard, backlog, have, said,
                 hook, deaths, mode>>

Fires(p, kind, trigger) ==
  /\ hook[p] = Idle
  /\ mode.shared \/ \A q \in Process : hook[q] = Idle
  /\ hook' = [hook EXCEPT ![p] = [kind |-> kind, at |-> "observe", trigger |-> trigger, advice |-> None]]
  /\ UNCHANGED <<transcript, recorded, cursor, tailed, request, hard, backlog, have, said,
                 deaths, mode>>

AgentStops(p) == Fires(p, "stop", "none") /\ UNCHANGED compactions
AgentPrompts(p) == Fires(p, "prompt", "none") /\ UNCHANGED compactions

\* With the hook installed twice, a second process is told of the same compaction.
AgentCompacts(p) ==
  \E t \in Trigger :
    /\ Fires(p, "compact", t)
    /\ \/ compactions < MaxCompactions /\ compactions' = compactions + 1
       \/ /\ \E q \in Process : hook[q].kind = "compact" /\ hook[q].trigger = t
          /\ UNCHANGED compactions

-----------------------------------------------------------------------------
(* A hook, statement by statement.                                         *)

Goes(p, to) == hook' = [hook EXCEPT ![p].at = to]
Ends(p) == hook' = [hook EXCEPT ![p] = Idle]

\* Only Stop names a transcript to read a turn's usage from; the last turn of the
\* file is recorded, if the window read holds one.
observeUsage(p) ==
  /\ hook[p].at = "observe" /\ Goes(p, "store")
  /\ \/ hook[p].kind = "stop" /\ transcript # <<>> /\ recordAgentUsage(Len(transcript))
     \/ UNCHANGED recorded
  /\ UNCHANGED <<transcript, cursor, tailed, request, compactions, hard, backlog, have, said,
                 deaths, mode>>

\* The event's dedupe hash is made of the session, the hook and the trigger: a stored
\* event with the same ones makes this one a duplicate.
insertEvent(p) ==
  /\ hook[p].at = "store"
  /\ IF hook[p].kind = "compact" /\ request[hook[p].trigger].at = "none"
     THEN /\ Goes(p, "count")
          /\ request' = [request EXCEPT ![hook[p].trigger] = [at |-> "waiting", since |-> Len(recorded)]]
     ELSE Goes(p, "advise") /\ UNCHANGED request
  /\ UNCHANGED <<transcript, recorded, cursor, tailed, compactions, hard, backlog, have, said,
                 deaths, mode>>

noteHardCompaction(p) ==
  /\ hook[p].at = "count" /\ Goes(p, "advise")
  /\ hard' = hard + 1
  /\ UNCHANGED <<transcript, recorded, cursor, tailed, request, compactions, backlog, have, said,
                 deaths, mode>>

\* Only a prompt's hook looks for advice, and only what was not the last thing said.
clearAdviceOnce(p) ==
  /\ hook[p].at = "advise"
  /\ IF hook[p].kind = "prompt" /\ clearAdviceNow \notin {None, said}
     THEN hook' = [hook EXCEPT ![p] = [@ EXCEPT !.at = "say", !.advice = clearAdviceNow]]
     ELSE Ends(p)
  /\ UNCHANGED <<transcript, recorded, cursor, tailed, request, compactions, hard, backlog, have,
                 said, deaths, mode>>

NotesWhatItSays(p) ==
  /\ hook[p].at = "say" /\ Goes(p, "print")
  /\ said' = hook[p].advice
  /\ UNCHANGED <<transcript, recorded, cursor, tailed, request, compactions, hard, backlog, have,
                 deaths, mode>>

Prints(p) ==
  /\ hook[p].at = "print" /\ Ends(p)
  /\ UNCHANGED <<transcript, recorded, cursor, tailed, request, compactions, hard, backlog, have,
                 said, deaths, mode>>

Dies(p) ==
  /\ hook[p] # Idle /\ deaths < MaxDeaths
  /\ Ends(p) /\ deaths' = deaths + 1
  /\ UNCHANGED <<transcript, recorded, cursor, tailed, request, compactions, hard, backlog, have,
                 said, mode>>

-----------------------------------------------------------------------------
(* The others: the tail, and whoever works on the queue and on memory.     *)

\* Alone, a hook is not interrupted.
Uninterrupted == mode.shared \/ \A p \in Process : hook[p] = Idle

TailReads ==
  /\ mode.followed /\ cursor = tailed /\ tailed < Len(transcript)
  /\ tailed' \in tailed + 1..Len(transcript)
  /\ UNCHANGED <<transcript, recorded, cursor, request, compactions, hard, backlog, have, said,
                 hook, deaths, mode>>

\* Ingested in the order of the file, one commit each, with the time of ingestion.
TailIngests ==
  /\ cursor < tailed /\ cursor' = cursor + 1 /\ Uninterrupted
  /\ recordAgentUsage(cursor + 1)
  /\ UNCHANGED <<transcript, tailed, request, compactions, hard, backlog, have, said, hook,
                 deaths, mode>>

\* A worker or the fold resolves a request; retention deletes it days later, when
\* the hooks that were told of it are long over.
RequestResolved(t) ==
  /\ Uninterrupted /\ request[t].at = "waiting"
  /\ request' = [request EXCEPT ![t].at = "resolved"]
  /\ UNCHANGED <<transcript, recorded, cursor, tailed, compactions, hard, backlog, have, said,
                 hook, deaths, mode>>
RequestForgotten(t) ==
  /\ request[t].at = "resolved" /\ \A p \in Process : hook[p].kind # "compact"
  /\ request' = [request EXCEPT ![t] = NoRequest]
  /\ UNCHANGED <<transcript, recorded, cursor, tailed, compactions, hard, backlog, have, said,
                 hook, deaths, mode>>

MemoryChanges ==
  /\ Uninterrupted
  /\ backlog' \in 0..BacklogTokens /\ have' \in [version : {have.version, TRUE}, brief : BOOLEAN]
  /\ have'.brief => have'.version
  /\ UNCHANGED <<transcript, recorded, cursor, tailed, request, compactions, hard, said, hook,
                 deaths, mode>>

Next ==
  \/ AgentTurns \/ TailReads \/ TailIngests \/ MemoryChanges
  \/ \E p \in Process :
       \/ AgentStops(p) \/ AgentPrompts(p) \/ AgentCompacts(p)
       \/ observeUsage(p) \/ insertEvent(p) \/ noteHardCompaction(p)
       \/ clearAdviceOnce(p) \/ NotesWhatItSays(p) \/ Prints(p) \/ Dies(p)
  \/ \E t \in Trigger : RequestResolved(t) \/ RequestForgotten(t)

Spec == Init /\ [][Next]_vars

-----------------------------------------------------------------------------
(* Properties.                                                             *)

\* No session is ever taken to be fuller than full: whatever window the model's name
\* suggests, and however few of the turns were seen, the turn the ladder reads fits the
\* window it assumes (lifecycle.ts: without it a session at 512k against an inferred
\* 200k pins the ladder at its most expensive rung).
OccupancyFitsWindow ==
  Configured = 0 => latestAgentUsage.occupied <= Window(latestAgentUsage)

NewestRecorded == Max(Known)

\* Where one hook at a time is the only observer, what a person is about to be told is so:
\* it is the advice that the newest turn any hook saw, the queue and memory call for,
\* although it was read statements before and compactions have shrunk the window since.
TellsTheTruthAlone ==
  ~mode.shared /\ ~mode.followed =>
    \A p \in Process : hook[p].at \in {"say", "print"} =>
      /\ recorded # <<>>
      /\ hook[p].advice = clearAdvice(UsageAt(NewestRecorded), pendingSummary, have)

\* The ladder's failures are never exaggerated: a compaction told to several hooks, or to
\* one that dies and another, counts at most once (ingest.ts counts what insertEvent took).
CountedAtMostOnce == hard <= compactions

\* lifecycle.ts says of a hard compaction that "when it happens we record it": once no
\* hook is at work, each compaction announced has been counted.
EveryCompactionCounts ==
  (\A p \in Process : hook[p] = Idle) => hard = compactions

=============================================================================
