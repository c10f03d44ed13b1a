------------------------------- MODULE Traffic -------------------------------
(***************************************************************************)
(* What is made of a session's tool traffic: the agent works and writes    *)
(* its transcript, its hooks report each step, a tail reads the transcript *)
(* in stretches (adapters/claude, daemon/ingest.ts), the engine drops what *)
(* it takes for known, the fold notes files and records known issues, and  *)
(* status looks for loops in what is stored (Loops).                       *)
(*                                                                         *)
(* One session, one call at a time.  A hook is run before the agent goes   *)
(* on, and ingests in one step, as a tail does: nothing is awaited in it.  *)
(***************************************************************************)
EXTENDS Loops

CONSTANT Settings  \* [ways, reads, rereads, keys, answers, hashes, remarks, length] of a
                   \* behaviour; reads and length bound the tails and the transcript

\* An answer: whether it is an error, its text and the cues in it, and whether the text
\* changes on every run.
Answer == [failed : BOOLEAN, says : Text, cues : SUBSET Cue, varies : BOOLEAN]

ASSUME TrafficAssumption ==
  \A s \in Settings :
    /\ s.ways \subseteq {"hook", "tail"} /\ s.reads \in Nat /\ s.rereads \in BOOLEAN
    /\ s.keys \subseteq Shell \cup Look \cup File /\ s.answers \subseteq Answer
    /\ s.hashes \subseteq Hash \ {""} /\ s.remarks \subseteq Text /\ s.length \in Nat
    /\ \A a \in s.answers : a.says = "" => "nothing" \in a.cues  \* a text that is blank looks it

VARIABLES
  transcript,  \* what the agent wrote
  readTo,      \* how much of it was read
  stored,      \* the session's events, in the order of their rows
  index,       \* file_index: path -> the content hash last noted
  issues,      \* the moments of the failures a known issue was recorded of
  dropped,     \* history: the moments of the events the engine discarded
  untold,      \* history: the moments of the failures no hook was run for
  cuts,        \* history: where a tail stopped reading
  setting      \* never changes

trafficVars == <<transcript, readTo, stored, index, issues, dropped, untold, cuts, setting>>

Fine == [failed |-> FALSE, says |-> "", cues |-> {}, varies |-> FALSE]
Entry == [kind : {"call", "result", "said"}, use : Nat, key : Shell \cup Look \cup File \cup {Absent},
          hash : Hash, answer : Answer]

TrafficInit ==
  /\ transcript = <<>> /\ readTo = 0 /\ stored = <<>>
  /\ index = [f \in File |-> ""]
  /\ issues = {} /\ dropped = {} /\ untold = {} /\ cuts = {}
  /\ setting \in Settings

-----------------------------------------------------------------------------
\* The positions among the first n that are in a set, in order.
InTurn(positions, n) ==
  LET upTo[m \in 0..n] ==
        IF m = 0 THEN <<>>
        ELSE IF m \in positions THEN Append(upTo[m - 1], m) ELSE upTo[m - 1]
  IN upTo[n]

-----------------------------------------------------------------------------
(* Translation: entry p of a transcript, as a hook or the transcript reports it. *)

Event0(type, by, p, e, use, key) ==
  [type |-> type, by |-> by, use |-> use, key |-> key, says |-> e.answer.says, cues |-> e.answer.cues,
   exit |-> Absent, hash |-> e.hash, raw |-> IF e.answer.varies THEN p ELSE 0, at |-> p]

fromHook(p, e) ==
  CASE e.kind = "said" -> Event0("USER_MESSAGE", "hook", p, e, 0, Absent)
    [] e.key \in Shell ->
         [Event0("COMMAND_EXECUTED", "hook", p, e, 0, e.key)
            EXCEPT !.exit = IF e.answer.failed THEN "other" ELSE "zero"]
    [] e.key \in File -> Event0("FILE_CHANGED", "hook", p, [e EXCEPT !.answer = Fine], 0, e.key)
    [] OTHER -> Event0("TOOL_RESULT", "hook", p, e, 0, e.key)

fromTranscript(p, e) ==
  CASE e.kind = "said" -> Event0("USER_MESSAGE", "transcript", p, e, 0, Absent)
    [] e.kind = "call" ->
         Event0(IF e.key \in File THEN "FILE_CHANGED" ELSE "TOOL_CALL", "transcript", p, e, e.use, e.key)
    [] OTHER ->
         [Event0(IF e.answer.failed THEN "ERROR_DETECTED" ELSE "TOOL_RESULT", "transcript", p, e, e.use, Absent)
            EXCEPT !.hash = ""]

\* A hook's payload is all that tells its events apart, a transcript's line its own.
dedupeHash(e) == IF e.by = "hook" THEN [e EXCEPT !.at = 0] ELSE e
isDuplicate(e) == \E n \in DOMAIN stored : dedupeHash(stored[n]) = dedupeHash(e)

-----------------------------------------------------------------------------
(* Ingest: the engine sees a batch with the file index as it was before, the fold with *)
(* what was stored of it.                                                            *)

knownFileHash(key) == IF key \in File THEN index[key] ELSE ""
Decision(e) == process(e, isDuplicate(e), knownFileHash(e.key))
Positions(batch, path) == {n \in DOMAIN batch : batch[n].key = path /\ notesFile(batch[n])}
noteFile(batch, path) ==
  LET noted == Positions(batch, path)
  IN IF noted = {} THEN index[path] ELSE batch[CHOOSE n \in noted : \A m \in noted : m <= n].hash

\* What the engine leaves of a batch, and how a batch is folded.
accepts(batch) ==
  LET kept == InTurn({n \in DOMAIN batch : Decision(batch[n]) # "discard"}, Len(batch))
  IN [k \in DOMAIN kept |-> batch[kept[k]]] \o <<>>

Ingests(batch) ==
  LET accepted == accepts(batch)
      Batch == {batch[n] : n \in DOMAIN batch}
      Accepted == {accepted[n] : n \in DOMAIN accepted}
  IN /\ stored' = stored \o accepted
     /\ index' = [f \in File |-> noteFile(accepted, f)]
     /\ issues' = issues \cup {e.at : e \in {x \in Accepted : recordsIssue(x, accepted)}}
     /\ dropped' = dropped \cup {e.at : e \in {x \in Batch \ Accepted :
                      \A n \in DOMAIN stored : stored[n] # x}}

-----------------------------------------------------------------------------
(* The agent and its hooks. *)

UnderWay == transcript # <<>> /\ transcript[Len(transcript)].kind = "call"

Hooked(p, e, told) ==
  IF "hook" \in setting.ways /\ told THEN Ingests(<<fromHook(p, e)>>)
  ELSE UNCHANGED <<stored, index, issues, dropped>>

Writes(e, told) ==
  /\ Len(transcript) < setting.length
  /\ transcript' = Append(transcript, e)
  /\ Hooked(Len(transcript) + 1, e, told)
  /\ untold' = IF told \/ e.kind = "call" THEN untold ELSE untold \cup {Len(transcript) + 1}
  /\ UNCHANGED <<readTo, cuts, setting>>

Calls(key, hash) ==
  /\ ~ UnderWay
  /\ key \notin File <=> hash = ""
  /\ Writes([kind |-> "call", use |-> Len(transcript) + 1, key |-> key, hash |-> hash, answer |-> Fine], FALSE)

\* Not every failure runs a hook.
Returns(answer, told) ==
  /\ UnderWay
  /\ told \/ answer.failed
  /\ LET call == transcript[Len(transcript)]
     IN Writes([call EXCEPT !.kind = "result", !.answer = answer], told)

Says(text) ==
  /\ ~ UnderWay
  /\ Writes([kind |-> "said", use |-> 0, key |-> Absent, hash |-> "", answer |-> [Fine EXCEPT !.says = text]], TRUE)

\* The transcript from the readTo on, or from its start once more.
Tails(from) ==
  /\ "tail" \in setting.ways /\ from < Len(transcript)
  /\ from = readTo \/ setting.rereads
  /\ Cardinality(cuts) < setting.reads
  /\ Ingests([n \in 1..Len(transcript) - from |-> fromTranscript(from + n, transcript[from + n])])
  /\ readTo' = Len(transcript) /\ cuts' = cuts \cup {Len(transcript)}
  /\ UNCHANGED <<transcript, untold, setting>>

TrafficNext ==
  \/ \E key \in setting.keys, hash \in setting.hashes \cup {""} : Calls(key, hash)
  \/ \E answer \in setting.answers, told \in BOOLEAN : Returns(answer, told)
  \/ \E text \in setting.remarks : Says(text)
  \/ \E from \in {0, readTo} : Tails(from)

TrafficSpec == TrafficInit /\ [][TrafficNext]_trafficVars

-----------------------------------------------------------------------------
(* What status reads. *)

Rank(n) ==
  Cardinality({m \in DOMAIN stored :
    stored[m].at < stored[n].at \/ (stored[m].at = stored[n].at /\ m <= n)})
\* In the order of their moments, then of their rows.
sessionTraffic == [r \in DOMAIN stored |-> stored[CHOOSE n \in DOMAIN stored : Rank(n) = r]]

\* The loops reported, by the moments of their calls.
Findings(traffic) ==
  {[f EXCEPT !.at = [k \in DOMAIN @ |-> traffic[@[k]].at]] : f \in detectLoops(collectToolCalls(traffic))}

TrafficTypeOK ==
  /\ \A p \in DOMAIN transcript : transcript[p] \in Entry
  /\ readTo \in 0..Len(transcript)
  /\ \A n \in DOMAIN stored : stored[n] \in ContextEvent
  /\ index \in [File -> Hash]
  /\ issues \cup dropped \cup untold \cup cuts \subseteq DOMAIN transcript
  /\ setting \in Settings

-----------------------------------------------------------------------------
(* Properties. *)

\* Something happened at p after which the same call may answer differently.
Moved(p) ==
  LET e == transcript[p] IN
  \/ e.kind = "said"
  \/ e.kind = "result" /\ e.key \in Mutating
  \/ e.kind = "result" /\ e.key \in File /\ ~ e.answer.failed

\* What happened between the first and the last call of a loop.
Span(f) == f.at[1] + 1 .. f.at[Len(f.at)] - 1

\* The answers its calls are known to have had.
KnownAnswers(f, traffic) ==
  {transcript[p].answer.says : p \in {q \in DOMAIN transcript :
     /\ transcript[q].kind = "result"
     /\ \E k \in DOMAIN f.at : transcript[f.at[k]].use = transcript[q].use
     /\ isTranscript(traffic) => q <= readTo
     /\ ~ looksLike(fromTranscript(q, transcript[q]), {"nothing", "benign"})}}

\* What the engine dropped as known, unchanged or excluded; and, of a session of which no
\* transcript was read, the failures that ran no hook.
Unseen(traffic) == IF isTranscript(traffic) THEN dropped ELSE dropped \cup untold

SameCall(f) == \A k \in DOMAIN f.at : transcript[f.at[k]].key = f.sig

\* A loop that is reported is one: its calls are the same call, they had one answer, and
\* between them the agent wrote nothing and the person said nothing that contextd had
\* been told of and had not dropped.
LoopsAreReal ==
  \E traffic \in {sessionTraffic} : \A f \in Findings(traffic) :
    /\ SameCall(f) /\ Cardinality(KnownAnswers(f, traffic)) <= 1
    /\ \A p \in Span(f) : Moved(p) => {p, p - 1} \cap Unseen(traffic) # {}

\* loops.ts says so without exception: "only when it is the same call, with the same
\* answer, with nothing written in between".
NothingWrittenInBetween ==
  \E traffic \in {sessionTraffic} : \A f \in Findings(traffic) : \A p \in Span(f) : ~ Moved(p)

\* The calls and remarks of the transcript, in order.
Turns == InTurn({p \in DOMAIN transcript : transcript[p].kind # "result"}, Len(transcript))
Counts(p) ==
  /\ transcript[p].key \in Signature \ (Polling \cup Mutating)
  /\ p < Len(transcript)
  /\ LET a == transcript[p + 1].answer
     IN ~ looksLike(fromTranscript(p + 1, transcript[p + 1]), {"nothing", "benign", "harness"})

\* Repetitions of one call from turn i to turn j, as anybody would tell them.
Repetitions(turns, i, j) ==
  {k \in i..j : transcript[turns[k]].key = transcript[turns[i]].key /\ Counts(turns[k])}
IsLoop(turns, i, j) ==
  LET S == Repetitions(turns, i, j) IN
  /\ {i, j} \subseteq S /\ Cardinality(S) >= LOOP_MIN_REPEATS
  /\ \A k \in i..j : transcript[turns[k]].key = transcript[turns[i]].key => k \in S
  /\ \A k \in S : transcript[turns[k] + 1].answer.says = transcript[turns[i] + 1].answer.says
  /\ \A k \in S \ {j} : \E l \in S : k < l /\ l <= k + LOOP_WINDOW
  /\ \A p \in turns[i]..turns[j] : ~ Moved(p)

\* A loop is not missed, nor shown shorter than it was, in a session of which the whole
\* transcript was read, and only it, whatever was read when.
LoopsAreSeen ==
  setting.ways = {"tail"} /\ readTo = Len(transcript) =>
    \E turns \in {Turns} : \E findings \in {Findings(sessionTraffic)} :
      \A i \in DOMAIN turns, j \in DOMAIN turns : i < j /\ IsLoop(turns, i, j) =>
        \E f \in findings : f.sig = transcript[turns[i]].key
                            /\ f.repeats >= Cardinality(Repetitions(turns, i, j))

\* fold.ts: the failure of a throwaway one-liner "belongs to the exploration, not the
\* project", and is no known issue, unless a tail stopped between the call and its result.
ScratchIsNoIssue == \A p \in issues : transcript[p].key \in Scratch => p - 1 \in cuts

=============================================================================
