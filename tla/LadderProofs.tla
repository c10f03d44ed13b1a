----------------------------- MODULE LadderProofs -----------------------------
(***************************************************************************)
(* Theorems about those who watch one session, for every session, any      *)
(* number of hooks and every size of the windows: what the ladder reads    *)
(* fits its window, what one observer says is so, and a compaction is      *)
(* never counted twice.                                                    *)
(***************************************************************************)
EXTENDS Ladder, FiniteSetTheorems, TLAPS

\* The type invariant, in three parts.
THookOK == hook \in [Process -> Hook] /\ said \in Advice
TLogOK ==
  /\ transcript \in Seq(Turn) /\ recorded \in Seq(DOMAIN transcript)
  /\ cursor \in 0..tailed /\ tailed \in 0..Len(transcript)
TRestOK ==
  /\ request \in [Trigger -> Request]
  /\ compactions \in 0..MaxCompactions /\ hard \in Nat
  /\ backlog \in 0..BacklogTokens
  /\ have \in [version : BOOLEAN, brief : BOOLEAN]
  /\ deaths \in 0..MaxDeaths /\ mode \in Modes

\* Advice is one of the things that can be said.
LEMMA AdviceIsAdvice == ASSUME NEW u, NEW b, NEW h \in [version : BOOLEAN, brief : BOOLEAN]
  PROVE  clearAdvice(u, b, h) \in Advice
<1>1. RecoveryReady(b, h) \in BOOLEAN
  BY DEF RecoveryReady
<1> QED  BY <1>1 DEF clearAdvice, Advice, None

\* The transcript and what is recorded of it keep their types.
LEMMA LogTypes == TLogOK /\ [Next]_vars => TLogOK'
<1> SUFFICES ASSUME TLogOK, [Next]_vars  PROVE TLogOK'
  OBVIOUS
<1>1. CASE AgentTurns
  BY <1>1, LadderAssumption DEF TLogOK, AgentTurns
<1>2. CASE TailReads
  BY <1>2 DEF TLogOK, TailReads
<1>3. ASSUME NEW n \in DOMAIN transcript, recordAgentUsage(n)
      PROVE  recorded' \in Seq(DOMAIN transcript)
  <2>1. ASSUME NEW S, recorded \in Seq(S), n \in S  PROVE Append(recorded, n) \in Seq(S)
    BY <2>1
  <2>2. Append(recorded, n) \in Seq(DOMAIN transcript)
    BY <2>1 DEF TLogOK
  <2> QED  BY <1>3, <2>2 DEF TLogOK, recordAgentUsage
<1>4. CASE TailIngests
  <2>1. cursor + 1 \in DOMAIN transcript /\ cursor' \in 0..tailed
    BY <1>4 DEF TLogOK, TailIngests
  <2> QED  BY <1>3, <1>4, <2>1 DEF TLogOK, TailIngests
<1>5. ASSUME NEW p \in Process, observeUsage(p)  PROVE TLogOK'
  <2>1. transcript # <<>> => Len(transcript) \in DOMAIN transcript
    BY DEF TLogOK
  <2> QED  BY <1>3, <1>5, <2>1 DEF TLogOK, observeUsage
<1>6. CASE UNCHANGED <<transcript, recorded, cursor, tailed>>
  BY <1>6 DEF TLogOK
<1> QED
  BY <1>1, <1>2, <1>4, <1>5, <1>6 DEF Next, vars, MemoryChanges, Fires, AgentStops, AgentPrompts, AgentCompacts,
     insertEvent, noteHardCompaction, clearAdviceOnce, NotesWhatItSays, Prints, Dies, RequestResolved, RequestForgotten

\* Hooks keep theirs, and so does the last notice.
LEMMA HookTypes == THookOK /\ TRestOK /\ [Next]_vars => THookOK'
<1> SUFFICES ASSUME THookOK, TRestOK, [Next]_vars  PROVE THookOK'
  OBVIOUS
<1>1. Idle \in Hook /\ None \in Advice
  BY DEF Idle, Hook, Advice
<1>2. ASSUME NEW p \in Process, NEW to \in {"done", "observe", "store", "count", "advise", "say", "print"}, Goes(p, to)
      PROVE  hook' \in [Process -> Hook]
  BY <1>2 DEF THookOK, Goes, Hook
<1>3. ASSUME NEW p \in Process, Ends(p)  PROVE hook' \in [Process -> Hook]
  BY <1>1, <1>3 DEF THookOK, Ends
<1>4. ASSUME NEW p \in Process, NEW k \in {"stop", "compact", "prompt"}, NEW t \in Trigger \cup {"none"}, Fires(p, k, t)
      PROVE  THookOK'
  BY <1>1, <1>4 DEF THookOK, Fires, Hook
<1>5. ASSUME NEW p \in Process, AgentStops(p) \/ AgentPrompts(p) \/ AgentCompacts(p)  PROVE THookOK'
  BY <1>4, <1>5 DEF AgentStops, AgentPrompts, AgentCompacts
<1>6. ASSUME NEW p \in Process, observeUsage(p) \/ insertEvent(p) \/ noteHardCompaction(p)  PROVE THookOK'
  <2>1. UNCHANGED said /\ \E to \in {"store", "count", "advise"} : Goes(p, to)
    BY <1>6 DEF observeUsage, insertEvent, noteHardCompaction
  <2> QED  BY <2>1, <1>2 DEF THookOK
<1>7. ASSUME NEW p \in Process, clearAdviceOnce(p)  PROVE THookOK'
  <2>1. CASE Ends(p)
    BY <2>1, <1>3, <1>7 DEF clearAdviceOnce, THookOK
  <2>2. CASE hook' = [hook EXCEPT ![p] = [@ EXCEPT !.at = "say", !.advice = clearAdviceNow]]
    <3>1. clearAdviceNow \in Advice
      BY AdviceIsAdvice DEF clearAdviceNow, TRestOK
    <3> QED  BY <2>2, <3>1, <1>7 DEF clearAdviceOnce, THookOK, Hook
  <2> QED  BY <1>7, <2>1, <2>2 DEF clearAdviceOnce
<1>8. ASSUME NEW p \in Process, NotesWhatItSays(p)  PROVE THookOK'
  <2>1. hook[p].advice \in Advice
    BY DEF THookOK, Hook
  <2> QED  BY <1>2, <1>8, <2>1 DEF THookOK, NotesWhatItSays
<1>9. ASSUME NEW p \in Process, Prints(p) \/ Dies(p)  PROVE THookOK'
  BY <1>3, <1>9 DEF THookOK, Prints, Dies
<1>10. CASE UNCHANGED <<hook, said>>
  BY <1>10 DEF THookOK
<1> QED
  BY <1>5, <1>6, <1>7, <1>8, <1>9, <1>10 DEF Next, vars, AgentTurns, TailReads, TailIngests, MemoryChanges,
     RequestResolved, RequestForgotten

\* And requests, counters and what memory holds.
LEMMA RestTypes == TLogOK /\ TRestOK /\ [Next]_vars => TRestOK'
<1> SUFFICES ASSUME TLogOK, TRestOK, [Next]_vars  PROVE TRestOK'
  OBVIOUS
<1>1. /\ MaxCompactions \in Nat /\ MaxDeaths \in Nat /\ BacklogTokens \in Nat
      /\ Len(recorded) \in Nat
  BY LadderAssumption, PressureAssumption DEF TLogOK
<1>2. \A n \in Nat, at \in {"none", "waiting", "resolved"} : [at |-> at, since |-> n] \in Request
  BY DEF Request
<1>3. ASSUME NEW p \in Process, insertEvent(p)  PROVE TRestOK'
  BY <1>1, <1>2, <1>3 DEF TRestOK, insertEvent
<1>4. ASSUME NEW t \in Trigger, RequestResolved(t)  PROVE TRestOK'
  <2>1. [request[t] EXCEPT !.at = "resolved"] \in Request
    BY DEF TRestOK, Request
  <2> QED  BY <1>4, <2>1 DEF TRestOK, RequestResolved
<1>5. ASSUME NEW t \in Trigger, RequestForgotten(t)  PROVE TRestOK'
  BY <1>2, <1>5 DEF TRestOK, RequestForgotten, NoRequest
<1>6. ASSUME NEW p \in Process, AgentCompacts(p)  PROVE TRestOK'
  BY <1>1, <1>6 DEF TRestOK, AgentCompacts, Fires
<1>7. ASSUME NEW p \in Process, noteHardCompaction(p) \/ Dies(p)  PROVE TRestOK'
  BY <1>1, <1>7 DEF TRestOK, noteHardCompaction, Dies
<1>8. CASE MemoryChanges
  BY <1>8 DEF TRestOK, MemoryChanges
<1>9. CASE UNCHANGED <<request, compactions, hard, backlog, have, deaths, mode>>
  BY <1>9 DEF TRestOK
<1> QED
  BY <1>3, <1>4, <1>5, <1>6, <1>7, <1>8, <1>9 DEF Next, vars, AgentTurns, TailReads, TailIngests, Fires, AgentStops,
     AgentPrompts, observeUsage, clearAdviceOnce, NotesWhatItSays, Prints

-----------------------------------------------------------------------------
(* What is read fits. *)

\* However many turns there are, some turn of any that are looked at was the fullest.
HasPeak ==
  \A S \in SUBSET DOMAIN transcript : S # {} => \E m \in S : \A k \in S : Occupied(k) <= Occupied(m)

\* What a turn occupied is a number.
LEMMA TurnsAreNumbers ==
  ASSUME TLogOK  PROVE \A n \in DOMAIN transcript : Occupied(n) \in Nat
BY LadderAssumption DEF TLogOK, Occupied

\* A new turn is the fullest, or the one before still is.
LEMMA PeakStays == ASSUME TLogOK, HasPeak, [Next]_vars  PROVE HasPeak'
<1>1. CASE AgentTurns
  <2> PICK t \in Turn : transcript' = Append(transcript, t)
    BY <1>1 DEF AgentTurns
  <2> DEFINE new == Len(transcript) + 1
  <2>1. /\ DOMAIN transcript' = DOMAIN transcript \cup {new} /\ new \notin DOMAIN transcript
        /\ \A k \in DOMAIN transcript : transcript'[k] = transcript[k]
        /\ transcript'[new] = t
    BY DEF TLogOK
  <2>2. /\ \A k \in DOMAIN transcript : Occupied(k)' = Occupied(k) /\ Occupied(k) \in Nat
        /\ t.occupied \in Nat
    BY <2>1, TurnsAreNumbers, LadderAssumption DEF Occupied
  <2>3. SUFFICES ASSUME NEW S \in SUBSET (DOMAIN transcript'), S # {}
                 PROVE  \E m \in S : \A k \in S : transcript'[k].occupied <= transcript'[m].occupied
    BY DEF HasPeak, Occupied
  <2> DEFINE Old == S \ {new}
  <2>4. CASE Old = {}
    <3>1. S = {new}
      BY <2>4, <2>3
    <3> QED  BY <3>1, <2>1, <2>2
  <2>5. CASE Old # {}
    <3>1. PICK m \in Old : \A k \in Old : Occupied(k) <= Occupied(m)
      BY <2>5, <2>1 DEF HasPeak
    <3>2. \A k \in Old : transcript'[k].occupied <= transcript'[m].occupied
      BY <3>1, <2>1, <2>2 DEF Occupied
    <3>3. m \in S /\ transcript'[m].occupied \in Nat
      BY <2>1, <2>2 DEF Occupied
    <3>4. CASE t.occupied <= transcript'[m].occupied
      BY <3>2, <3>3, <3>4, <2>1
    <3>5. CASE ~(t.occupied <= transcript'[m].occupied)
      <4>1. CASE new \in S
        <5>1. \A k \in S : transcript'[k].occupied <= transcript'[new].occupied
          <6> SUFFICES ASSUME NEW k \in S  PROVE transcript'[k].occupied <= t.occupied
            BY <2>1
          <6>1. CASE k = new
            BY <6>1, <2>1, <2>2
          <6>2. CASE k # new
            <7>1. k \in Old /\ k \in DOMAIN transcript
              BY <6>2, <2>1
            <7>2. transcript'[k].occupied \in Nat /\ transcript'[k].occupied <= transcript'[m].occupied
              BY <7>1, <3>2, <2>1, <2>2 DEF Occupied
            <7> QED  BY <7>2, <3>3, <3>5, <2>2
          <6> QED  BY <6>1, <6>2
        <5> QED  BY <4>1, <5>1
      <4>2. CASE new \notin S
        BY <4>2, <3>2, <3>3
      <4> QED  BY <4>1, <4>2
    <3> QED  BY <3>4, <3>5
  <2> QED  BY <2>4, <2>5
<1>2. CASE UNCHANGED transcript
  BY <1>2 DEF HasPeak, Occupied
<1> QED
  BY <1>1, <1>2 DEF Next, vars, TailReads, TailIngests, MemoryChanges, Fires, AgentStops, AgentPrompts, AgentCompacts,
     observeUsage, insertEvent, noteHardCompaction, clearAdviceOnce, NotesWhatItSays, Prints, Dies, RequestResolved,
     RequestForgotten

\* The peak of the session's rows is a peak.
LEMMA PeakIsPeak ==
  ASSUME TLogOK, HasPeak, recorded # <<>>
  PROVE  Peak \in Nat /\ \A n \in Known : Occupied(n) <= Peak
<1>1. Known \subseteq DOMAIN transcript /\ Known # {}
  <2>1. 1 \in DOMAIN recorded /\ \A i \in DOMAIN recorded : recorded[i] \in DOMAIN transcript
    BY DEF TLogOK
  <2> QED  BY <2>1 DEF Known
<1> DEFINE S == {Occupied(n) : n \in Known}
<1>2. \E m \in S : \A k \in S : m >= k
  <2> PICK m \in Known : \A k \in Known : Occupied(k) <= Occupied(m)
    BY <1>1 DEF HasPeak
  <2>1. \A k \in Known : Occupied(m) >= Occupied(k)
    BY <1>1, TurnsAreNumbers
  <2> QED  BY <2>1
<1>3. Peak = CHOOSE m \in S : \A k \in S : m >= k
  BY DEF Peak, Max
<1>4. Peak \in S /\ \A k \in S : Peak >= k
  <2> HIDE DEF S
  <2> QED  BY <1>2, <1>3
<1>5. S \subseteq Nat
  BY <1>1, TurnsAreNumbers
<1> QED  BY <1>4, <1>5

\* An assumed window is at least as large as the turn it is assumed for.
LEMMA WindowsGrow ==
  ASSUME NEW u, u.peak \in Nat, Configured = 0
  PROVE  u.peak <= Window(u)
BY PressureAssumption DEF Window, windowForModel, Observed

\* So the latest turn is no fuller than the window it is measured by.
LEMMA Fits == ASSUME TLogOK, HasPeak  PROVE OccupancyFitsWindow
<1> SUFFICES ASSUME Configured = 0  PROVE latestAgentUsage.occupied <= Window(latestAgentUsage)
  BY DEF OccupancyFitsWindow
<1>1. CASE recorded = <<>>
  <2>1. latestAgentUsage = NoUsage
    BY <1>1 DEF latestAgentUsage
  <2> QED  BY <2>1, WindowsGrow DEF NoUsage
<1>2. CASE recorded # <<>>
  <2> DEFINE n == recorded[Len(recorded)]
  <2>1. latestAgentUsage = UsageAt(n) /\ UsageAt(n).occupied = Occupied(n) /\ UsageAt(n).peak = Peak
    BY <1>2 DEF latestAgentUsage, UsageAt
  <2>2. n \in Known /\ n \in DOMAIN transcript
    BY <1>2 DEF TLogOK, Known
  <2>3. Occupied(n) \in Nat /\ Peak \in Nat /\ Occupied(n) <= Peak
    BY <1>2, <2>2, PeakIsPeak, TurnsAreNumbers
  <2>4. Peak <= Window(latestAgentUsage) /\ Window(latestAgentUsage) \in Nat
    BY <2>1, <2>3, WindowsGrow, PressureAssumption DEF Window, windowForModel, Observed
  <2> QED  BY <2>1, <2>3, <2>4
<1> QED  BY <1>1, <1>2

-----------------------------------------------------------------------------
(* What is said is so. *)

Alone == ~mode.shared /\ ~mode.followed
OneAtATime == ~mode.shared => \A p, q \in Process : hook[p] # Idle /\ hook[q] # Idle => p = q
NobodyTails == ~mode.followed => tailed = 0 /\ cursor = 0
InOrder == Alone => \A i, j \in DOMAIN recorded : i < j => recorded[i] < recorded[j]

\* What a hook is about to say is what it would find now.
Speaking(p) == hook[p].at \in {"say", "print"}
Current == Alone => \A p \in Process : Speaking(p) => hook[p].advice = clearAdviceNow /\ recorded # <<>>

\* A hook begins alone, and goes on as the one it was.
LEMMA OneAtATimeStays == ASSUME THookOK, OneAtATime, [Next]_vars  PROVE OneAtATime'
<1>1. CASE UNCHANGED <<hook, mode>>
  BY <1>1 DEF OneAtATime
<1>2. ASSUME NEW p \in Process, mode' = mode, \A q \in Process \ {p} : hook'[q] = hook[q],
             hook[p] # Idle \/ (mode.shared \/ \A q \in Process : hook[q] = Idle)
      PROVE  OneAtATime'
  BY <1>2 DEF OneAtATime
<1>3. ASSUME NEW p \in Process, AgentStops(p) \/ AgentPrompts(p) \/ AgentCompacts(p)  PROVE OneAtATime'
  BY <1>2, <1>3 DEF THookOK, Fires, AgentStops, AgentPrompts, AgentCompacts
<1>4. ASSUME NEW p \in Process,
             observeUsage(p) \/ insertEvent(p) \/ noteHardCompaction(p) \/ clearAdviceOnce(p)
             \/ NotesWhatItSays(p) \/ Prints(p) \/ Dies(p)
      PROVE  OneAtATime'
  <2>1. hook[p] # Idle
    BY <1>4 DEF observeUsage, insertEvent, noteHardCompaction, clearAdviceOnce, NotesWhatItSays, Prints, Dies, Idle
  <2>2. mode' = mode /\ \A q \in Process \ {p} : hook'[q] = hook[q]
    BY <1>4 DEF THookOK, observeUsage, insertEvent, noteHardCompaction, clearAdviceOnce, NotesWhatItSays, Prints, Dies,
       Goes, Ends
  <2> QED  BY <1>2, <2>1, <2>2
<1> QED
  BY <1>1, <1>3, <1>4 DEF Next, vars, AgentTurns, TailReads, TailIngests, MemoryChanges, RequestResolved,
     RequestForgotten

\* What is not followed is not read.
LEMMA NobodyTailsStays == ASSUME TLogOK, NobodyTails, [Next]_vars  PROVE NobodyTails'
<1>1. CASE UNCHANGED <<tailed, cursor, mode>>
  BY <1>1 DEF NobodyTails
<1>2. CASE TailReads
  BY <1>2 DEF NobodyTails, TailReads
<1>3. CASE TailIngests
  BY <1>3 DEF NobodyTails, TailIngests
<1> QED
  BY <1>1, <1>2, <1>3 DEF Next, vars, AgentTurns, MemoryChanges, Fires, AgentStops, AgentPrompts, AgentCompacts,
     observeUsage, insertEvent, noteHardCompaction, clearAdviceOnce, NotesWhatItSays, Prints, Dies, RequestResolved,
     RequestForgotten

\* With nobody else about, only the newest turn is recorded, and only by a hook that
\* has just begun.
LEMMA WhoRecords ==
  ASSUME TLogOK, NobodyTails, Alone, [Next]_vars
  PROVE  \/ UNCHANGED recorded
         \/ \E p \in Process : observeUsage(p) /\ transcript # <<>> /\ recordAgentUsage(Len(transcript))
<1>1. ~TailIngests
  BY DEF TLogOK, NobodyTails, Alone, TailIngests
<1> QED
  BY <1>1 DEF Next, vars, AgentTurns, TailReads, MemoryChanges, Fires, AgentStops, AgentPrompts, AgentCompacts,
     observeUsage, insertEvent, noteHardCompaction, clearAdviceOnce, NotesWhatItSays, Prints, Dies, RequestResolved,
     RequestForgotten

\* Who watches does not change.
LEMMA ModeStays == ASSUME [Next]_vars  PROVE mode' = mode
BY DEF Next, vars, AgentTurns, TailReads, TailIngests, MemoryChanges, Fires, AgentStops, AgentPrompts, AgentCompacts,
   observeUsage, insertEvent, noteHardCompaction, clearAdviceOnce, NotesWhatItSays, Prints, Dies, RequestResolved,
   RequestForgotten

\* Appending keeps what was there.
LEMMA Appended ==
  ASSUME NEW S, NEW s \in Seq(S), NEW x \in S
  PROVE  /\ DOMAIN Append(s, x) = 1..Len(s) + 1
         /\ \A i \in DOMAIN s : i \in DOMAIN Append(s, x) /\ Append(s, x)[i] = s[i]
         /\ Append(s, x)[Len(s) + 1] = x
         /\ Len(Append(s, x)) = Len(s) + 1 /\ Append(s, x) # <<>>
  OBVIOUS

\* What grows still does when something larger follows.
LEMMA AppendedIncreases ==
  ASSUME NEW s \in Seq(Nat), NEW x \in Nat, \A i \in DOMAIN s : s[i] < x,
         \A i, j \in DOMAIN s : i < j => s[i] < s[j]
  PROVE  \A i, j \in DOMAIN Append(s, x) : i < j => Append(s, x)[i] < Append(s, x)[j]
<1> DEFINE t == Append(s, x)
<1>1. /\ DOMAIN t = 1..Len(s) + 1 /\ DOMAIN s = 1..Len(s) /\ Len(s) \in Nat
      /\ \A i \in DOMAIN s : t[i] = s[i]
      /\ t[Len(s) + 1] = x
  BY Appended
<1> HIDE DEF t
<1> SUFFICES ASSUME NEW i \in DOMAIN t, NEW j \in DOMAIN t, i < j PROVE t[i] < t[j]
  BY DEF t
<1>2. i \in DOMAIN s /\ t[i] = s[i]
  BY <1>1
<1>3. CASE j \in DOMAIN s
  BY <1>1, <1>2, <1>3
<1>4. CASE j = Len(s) + 1
  BY <1>1, <1>2, <1>4
<1> QED  BY <1>1, <1>3, <1>4

\* The newest turn comes last.
LEMMA InOrderStays == ASSUME TLogOK, NobodyTails, InOrder, [Next]_vars  PROVE InOrder'
<1> SUFFICES ASSUME Alone  PROVE \A i, j \in DOMAIN recorded' : i < j => recorded'[i] < recorded'[j]
  BY ModeStays DEF InOrder, Alone
<1>1. CASE UNCHANGED recorded
  BY <1>1 DEF InOrder
<1>2. ASSUME recordAgentUsage(Len(transcript))
      PROVE  \A i, j \in DOMAIN recorded' : i < j => recorded'[i] < recorded'[j]
  <2>1. CASE Len(transcript) \in Known
    BY <1>2, <2>1 DEF recordAgentUsage, InOrder
  <2>2. CASE Len(transcript) \notin Known
    <3>1. recorded' = Append(recorded, Len(transcript))
      BY <1>2, <2>2 DEF recordAgentUsage
    <3>2. \A i \in DOMAIN recorded : recorded[i] \in Nat /\ recorded[i] < Len(transcript)
      BY <2>2 DEF TLogOK, Known
    <3>3. recorded \in Seq(Nat) /\ Len(transcript) \in Nat
      BY DEF TLogOK
    <3>4. \A i, j \in DOMAIN recorded : i < j => recorded[i] < recorded[j]
      BY DEF InOrder
    <3> QED  BY <3>1, <3>2, <3>3, <3>4, AppendedIncreases
  <2> QED  BY <2>1, <2>2
<1> QED  BY <1>1, <1>2, WhoRecords

\* The advice depends on the turns recorded, on the requests that are live, on the queue
\* and on what was derived, and on nothing else.
LEMMA SameAdvice ==
  ASSUME TLogOK, UNCHANGED <<recorded, backlog, have>>,
         \A t \in Trigger : Live(t)' = Live(t),
         \A n \in Known : transcript'[n] = transcript[n]
  PROVE  clearAdviceNow' = clearAdviceNow
<1>1. pendingSummary' = pendingSummary
  BY DEF pendingSummary
<1>2. Known' = Known /\ \A n \in Known : Occupied(n)' = Occupied(n)
  BY DEF Known, Occupied
<1>3. Peak' = Peak
  <2>1. {Occupied(n) : n \in Known}' = {Occupied(n) : n \in Known}
    BY <1>2
  <2> QED  BY <2>1 DEF Peak
<1>4. latestAgentUsage' = latestAgentUsage
  <2>1. recorded # <<>> => recorded[Len(recorded)] \in Known
    BY DEF TLogOK, Known
  <2> QED  BY <1>2, <1>3, <2>1 DEF latestAgentUsage, UsageAt
<1> QED  BY <1>1, <1>4 DEF clearAdviceNow

\* A session without turns is never advised to be cleared.
LEMMA AdviceNeedsATurn == recorded = <<>> => clearAdviceNow = None
BY DEF clearAdviceNow, clearAdvice, latestAgentUsage, NoUsage, Reaches

\* Nothing falls between the decision and the printing that would change the decision.
LEMMA CurrentStays ==
  ASSUME TLogOK, THookOK, OneAtATime, NobodyTails, Current, [Next]_vars
  PROVE  Current'
<1> SUFFICES ASSUME Alone, NEW q \in Process, Speaking(q)'
             PROVE  hook'[q].advice = clearAdviceNow' /\ recorded' # <<>>
  BY ModeStays DEF Current, Alone
<1>1. \A p \in Process : hook[p] # Idle => \A r \in Process \ {p} : hook[r] = Idle
  BY DEF OneAtATime, Alone
<1>2. ~mode.shared /\ ~mode.followed /\ Idle.at = "done"
  BY DEF Alone, Idle
<1>3. ASSUME UNCHANGED recorded, clearAdviceNow' = clearAdviceNow, Speaking(q), hook'[q].advice = hook[q].advice
      PROVE  hook'[q].advice = clearAdviceNow' /\ recorded' # <<>>
  BY <1>3 DEF Current
<1>4. CASE UNCHANGED <<transcript, recorded, request, backlog, have, hook>>
  <2>1. \A t \in Trigger : Live(t)' = Live(t)
    BY <1>4 DEF Live
  <2> QED  BY <1>3, <1>4, <2>1, SameAdvice DEF Speaking
<1>5. CASE AgentTurns
  <2>1. \A n \in Known : transcript'[n] = transcript[n]
    BY <1>5 DEF AgentTurns, TLogOK, Known
  <2>2. \A t \in Trigger : Live(t)' = Live(t)
    BY <1>5 DEF AgentTurns, Live
  <2>3. UNCHANGED <<recorded, backlog, have, hook>>
    BY <1>5 DEF AgentTurns
  <2> QED  BY <1>3, <2>1, <2>2, <2>3, SameAdvice DEF Speaking
<1>6. ASSUME NEW t \in Trigger, RequestForgotten(t)
      PROVE  hook'[q].advice = clearAdviceNow' /\ recorded' # <<>>
  <2>1. UNCHANGED <<transcript, recorded, backlog, have, hook>>
    BY <1>6 DEF RequestForgotten
  <2>2. \A u \in Trigger : Live(u)' = Live(u)
    <3> SUFFICES ASSUME NEW u \in Trigger  PROVE Live(u)' = Live(u)
      OBVIOUS
    <3>1. CASE u = t
      <4>1. ~Live(u)
        BY <1>6, <3>1 DEF RequestForgotten, Live
      <4>2. request'[u] = NoRequest \/ request'[u] = request[u]
        BY <1>6, <3>1 DEF RequestForgotten
      <4> QED  BY <4>1, <4>2, <2>1 DEF Live, NoRequest
    <3>2. CASE u # t
      BY <1>6, <2>1, <3>2 DEF RequestForgotten, Live
    <3> QED  BY <3>1, <3>2
  <2> QED  BY <1>3, <2>1, <2>2, SameAdvice DEF Speaking
<1>7. ~MemoryChanges /\ ~TailIngests /\ \A t \in Trigger : ~RequestResolved(t)
  BY <1>2 DEF MemoryChanges, TailIngests, RequestResolved, Uninterrupted, Speaking
<1>8. ASSUME NEW p \in Process, Ends(p) \/ Goes(p, "store") \/ Goes(p, "count") \/ Goes(p, "advise"),
             hook[p] # Idle
      PROVE  FALSE
  <2>1. \A r \in Process \ {p} : hook'[r] = hook[r] /\ hook[r] = Idle
    BY <1>1, <1>8 DEF THookOK, Ends, Goes
  <2>2. hook'[p].at \in {"done", "store", "count", "advise"}
    BY <1>2, <1>8 DEF THookOK, Hook, Ends, Goes
  <2> QED  BY <1>2, <2>1, <2>2 DEF Speaking
<1>9. ASSUME NEW p \in Process, AgentStops(p) \/ AgentPrompts(p) \/ AgentCompacts(p)  PROVE FALSE
  <2>1. /\ \A r \in Process : hook[r] = Idle
        /\ \A r \in Process \ {p} : hook'[r] = hook[r]
        /\ hook'[p].at = "observe"
    BY <1>2, <1>9 DEF THookOK, AgentStops, AgentPrompts, AgentCompacts, Fires
  <2> QED  BY <1>2, <2>1 DEF Speaking
<1>10. ASSUME NEW p \in Process, observeUsage(p) \/ insertEvent(p) \/ noteHardCompaction(p) \/ Prints(p) \/ Dies(p)
       PROVE  FALSE
  <2>1. hook[p] # Idle
    BY <1>2, <1>10 DEF observeUsage, insertEvent, noteHardCompaction, Prints, Dies
  <2> QED  BY <1>8, <1>10, <2>1 DEF observeUsage, insertEvent, noteHardCompaction, Prints, Dies
<1>11. ASSUME NEW p \in Process, clearAdviceOnce(p) \/ NotesWhatItSays(p)
       PROVE  hook'[q].advice = clearAdviceNow' /\ recorded' # <<>>
  <2>1. hook[p] # Idle /\ UNCHANGED <<transcript, recorded, request, backlog, have>>
    BY <1>2, <1>11 DEF clearAdviceOnce, NotesWhatItSays
  <2>2. clearAdviceNow' = clearAdviceNow
    <3>1. \A t \in Trigger : Live(t)' = Live(t)
      BY <2>1 DEF Live
    <3> QED  BY <2>1, <3>1, SameAdvice
  <2>3. CASE Ends(p)
    BY <1>8, <2>1, <2>3
  <2>4. q = p
    <3>1. \A r \in Process \ {p} : hook'[r] = hook[r]
      BY <1>11 DEF THookOK, clearAdviceOnce, NotesWhatItSays, Ends, Goes
    <3> QED  BY <1>1, <1>2, <2>1, <3>1 DEF Speaking
  <2>5. CASE /\ clearAdviceNow \notin {None, said}
             /\ hook' = [hook EXCEPT ![p] = [@ EXCEPT !.at = "say", !.advice = clearAdviceNow]]
    <3>1. hook'[p].advice = clearAdviceNow
      BY <2>5 DEF THookOK, Hook
    <3> QED  BY <2>1, <2>2, <2>4, <2>5, <3>1, AdviceNeedsATurn
  <2>6. CASE NotesWhatItSays(p)
    <3>1. Speaking(p) /\ hook'[p].advice = hook[p].advice
      BY <2>6 DEF THookOK, Hook, NotesWhatItSays, Goes, Speaking
    <3> QED  BY <1>3, <2>1, <2>2, <2>4, <3>1
  <2> QED  BY <1>11, <2>3, <2>5, <2>6 DEF clearAdviceOnce
<1>12. CASE TailReads \/ UNCHANGED vars
  BY <1>4, <1>12 DEF TailReads, vars
<1> QED  BY <1>5, <1>6, <1>7, <1>9, <1>10, <1>11, <1>12 DEF Next

\* Recorded in order, the latest turn is the newest.
LEMMA LatestIsNewest ==
  ASSUME TLogOK, InOrder, Alone, recorded # <<>>
  PROVE  recorded[Len(recorded)] = NewestRecorded
<1> DEFINE n == recorded[Len(recorded)]
<1>1. n \in Known /\ \A k \in Known : n >= k /\ k \in Nat
  <2>1. Len(recorded) \in DOMAIN recorded /\ \A i \in DOMAIN recorded : i \in Nat /\ i <= Len(recorded)
    BY DEF TLogOK
  <2>2. \A i \in DOMAIN recorded : recorded[i] \in Nat
    BY DEF TLogOK
  <2>3. ASSUME NEW i \in DOMAIN recorded  PROVE n >= recorded[i]
    <3>1. i = Len(recorded) \/ i < Len(recorded)
      BY <2>1
    <3> QED  BY <2>1, <2>2, <3>1 DEF InOrder
  <2> QED  BY <2>1, <2>2, <2>3 DEF Known
<1> HIDE DEF n
<1>2. NewestRecorded = CHOOSE x \in Known : \A y \in Known : x >= y
  BY DEF NewestRecorded, Max
<1>3. NewestRecorded \in Known /\ \A y \in Known : NewestRecorded >= y
  BY <1>1, <1>2
<1>4. NewestRecorded = n
  BY <1>1, <1>3
<1> QED  BY <1>4 DEF n

\* So what is said is what the newest turn calls for.
LEMMA Truth == ASSUME TLogOK, InOrder, Current  PROVE TellsTheTruthAlone
<1> SUFFICES ASSUME Alone, NEW p \in Process, Speaking(p)
             PROVE  /\ recorded # <<>>
                    /\ hook[p].advice = clearAdvice(UsageAt(NewestRecorded), pendingSummary, have)
  BY DEF TellsTheTruthAlone, Alone, Speaking
<1>1. recorded # <<>> /\ hook[p].advice = clearAdviceNow
  BY DEF Current
<1> QED  BY <1>1, LatestIsNewest DEF clearAdviceNow, latestAgentUsage

-----------------------------------------------------------------------------
(* What is counted. *)

\* A hook told of a compaction knows what started it, and once it has stored its event
\* the store has a request with that trigger.
Told ==
  \A p \in Process : hook[p].kind = "compact" =>
    /\ hook[p].trigger \in Trigger
    /\ hook[p].at \notin {"observe", "store"} => request[hook[p].trigger].at # "none"

\* What is counted, about to be counted, or may still be stored was announced.
CountsNow == {p \in Process : hook[p].at = "count"}
MayCount ==
  {t \in Trigger : request[t].at = "none" /\ \E p \in Process : hook[p].kind = "compact" /\ hook[p].trigger = t}
Tally == hard + Cardinality(CountsNow) + Cardinality(MayCount) <= compactions

\* What one element more or less does to a size.
LEMMA Sizes ==
  ASSUME NEW S, IsFiniteSet(S), NEW T
  PROVE  /\ Cardinality(S) \in Nat
         /\ T \subseteq S => Cardinality(T) \in Nat /\ Cardinality(T) <= Cardinality(S)
         /\ \A x : T \subseteq S \cup {x} => Cardinality(T) \in Nat /\ Cardinality(T) <= Cardinality(S) + 1
         /\ \A x \in S : T \subseteq S \ {x} => Cardinality(T) \in Nat /\ Cardinality(T) <= Cardinality(S) - 1
<1>1. Cardinality(S) \in Nat
  BY FS_CardinalityType
<1>2. T \subseteq S => Cardinality(T) \in Nat /\ Cardinality(T) <= Cardinality(S)
  BY FS_Subset, FS_CardinalityType
<1>3. ASSUME NEW x, T \subseteq S \cup {x}  PROVE Cardinality(T) \in Nat /\ Cardinality(T) <= Cardinality(S) + 1
  <2>1. IsFiniteSet(S \cup {x}) /\ (Cardinality(S \cup {x}) = Cardinality(S) \/ Cardinality(S \cup {x}) = Cardinality(S) + 1)
    BY FS_AddElement
  <2>2. Cardinality(T) \in Nat /\ Cardinality(T) <= Cardinality(S \cup {x})
    BY <1>3, <2>1, FS_Subset, FS_CardinalityType
  <2> QED  BY <1>1, <2>1, <2>2
<1>4. ASSUME NEW x \in S, T \subseteq S \ {x}  PROVE Cardinality(T) \in Nat /\ Cardinality(T) <= Cardinality(S) - 1
  <2>1. IsFiniteSet(S \ {x}) /\ Cardinality(S \ {x}) = Cardinality(S) - 1
    BY FS_RemoveElement
  <2>2. Cardinality(T) \in Nat /\ Cardinality(T) <= Cardinality(S \ {x})
    BY <1>4, <2>1, FS_Subset, FS_CardinalityType
  <2> QED  BY <1>1, <2>1, <2>2
<1> QED  BY <1>1, <1>2, <1>3, <1>4

\* The two sets of the tally are finite.
LEMMA Finitely ==
  /\ IsFiniteSet(CountsNow) /\ IsFiniteSet(MayCount)
  /\ Cardinality(CountsNow) \in Nat /\ Cardinality(MayCount) \in Nat
<1>1. CountsNow \subseteq Process /\ MayCount \subseteq Trigger
  BY DEF CountsNow, MayCount
<1>2. IsFiniteSet(CountsNow) /\ IsFiniteSet(MayCount)
  BY <1>1, LadderAssumption, FS_Subset
<1> QED  BY <1>2, FS_CardinalityType

\* Where nothing is announced, counted or stored, fewer may count.
LEMMA TallyFalls ==
  ASSUME TRestOK, Tally, UNCHANGED hard, compactions' >= compactions, compactions' \in Nat,
         CountsNow' \subseteq CountsNow, MayCount' \subseteq MayCount
  PROVE  Tally'
<1>1. /\ Cardinality(CountsNow') \in Nat /\ Cardinality(CountsNow') <= Cardinality(CountsNow)
      /\ Cardinality(MayCount') \in Nat /\ Cardinality(MayCount') <= Cardinality(MayCount)
  BY Finitely, Sizes
<1> QED  BY <1>1, Finitely DEF Tally, TRestOK

\* A hook that goes on or ends, without storing anything, may count no more than before.
LEMMA HookGoesOn ==
  ASSUME TRestOK, THookOK, Told, Tally, NEW p \in Process, UNCHANGED <<hard, request, compactions>>,
         \A q \in Process \ {p} : hook'[q] = hook[q],
         hook'[p].at # "count",
         \/ hook'[p].kind # "compact"
         \/ /\ hook'[p].kind = hook[p].kind /\ hook'[p].trigger = hook[p].trigger
            /\ \/ hook[p].at = "observe" /\ hook'[p].at = "store"
               \/ request[hook[p].trigger].at # "none"
  PROVE  Told' /\ Tally'
<1>1. Told'
  BY DEF Told
<1>2. CountsNow' \subseteq CountsNow
  BY DEF CountsNow
<1>3. MayCount' \subseteq MayCount
  BY DEF MayCount
<1>4. compactions' \in Nat /\ compactions' >= compactions
  BY LadderAssumption DEF TRestOK
<1> QED  BY <1>1, <1>2, <1>3, <1>4, TallyFalls

\* Every step keeps the tally: what it adds on one side it takes from another, or was announced.
LEMMA TallyStays ==
  ASSUME TLogOK, TRestOK, TRestOK', THookOK, Told, Tally, [Next]_vars
  PROVE  Told' /\ Tally'
<1>1. Idle.kind = "none" /\ Idle.at = "done"
  BY DEF Idle
<1>2. compactions \in Nat /\ compactions' \in Nat /\ hard \in Nat
  BY LadderAssumption DEF TRestOK
<1>3. CASE UNCHANGED <<hook, request, hard, compactions>>
  <2>1. Told' /\ CountsNow' = CountsNow /\ MayCount' = MayCount
    BY <1>3 DEF Told, CountsNow, MayCount
  <2> QED  BY <1>2, <1>3, <2>1, TallyFalls
<1>4. ASSUME NEW t \in Trigger, RequestResolved(t)  PROVE Told' /\ Tally'
  <2>1. request'[t].at = "resolved" /\ \A u \in Trigger \ {t} : request'[u] = request[u]
    BY <1>4 DEF TRestOK, Request, RequestResolved
  <2>2. UNCHANGED <<hook, hard, compactions>>
    BY <1>4 DEF RequestResolved
  <2>3. Told' /\ CountsNow' = CountsNow /\ MayCount' \subseteq MayCount
    BY <2>1, <2>2 DEF Told, CountsNow, MayCount
  <2> QED  BY <1>2, <2>2, <2>3, TallyFalls
<1>5. ASSUME NEW t \in Trigger, RequestForgotten(t)  PROVE Told' /\ Tally'
  <2>1. UNCHANGED <<hook, hard, compactions>> /\ \A p \in Process : hook[p].kind # "compact"
    BY <1>5 DEF RequestForgotten
  <2>2. Told' /\ CountsNow' = CountsNow /\ MayCount' \subseteq MayCount
    BY <2>1 DEF Told, CountsNow, MayCount
  <2> QED  BY <1>2, <2>1, <2>2, TallyFalls
<1>6. ASSUME NEW p \in Process, AgentStops(p) \/ AgentPrompts(p)  PROVE Told' /\ Tally'
  <2>1. /\ UNCHANGED <<hard, request, compactions>> /\ \A q \in Process \ {p} : hook'[q] = hook[q]
        /\ hook'[p].at # "count" /\ hook'[p].kind # "compact"
    BY <1>6 DEF THookOK, AgentStops, AgentPrompts, Fires
  <2> QED  BY <2>1, HookGoesOn
<1>7. ASSUME NEW p \in Process, observeUsage(p)  PROVE Told' /\ Tally'
  <2>1. /\ UNCHANGED <<hard, request, compactions>> /\ \A q \in Process \ {p} : hook'[q] = hook[q]
        /\ hook[p].at = "observe" /\ hook'[p].at = "store"
        /\ hook'[p].kind = hook[p].kind /\ hook'[p].trigger = hook[p].trigger
    BY <1>7 DEF THookOK, Hook, observeUsage, Goes
  <2> QED  BY <2>1, HookGoesOn
<1>8. ASSUME NEW p \in Process, Ends(p), UNCHANGED <<hard, request, compactions>>  PROVE Told' /\ Tally'
  <2>1. /\ \A q \in Process \ {p} : hook'[q] = hook[q]
        /\ hook'[p].at # "count" /\ hook'[p].kind # "compact"
    BY <1>1, <1>8 DEF THookOK, Ends
  <2> QED  BY <1>8, <2>1, HookGoesOn
<1>9. ASSUME NEW p \in Process, Prints(p) \/ Dies(p)  PROVE Told' /\ Tally'
  BY <1>8, <1>9 DEF Prints, Dies
<1>10. ASSUME NEW p \in Process, clearAdviceOnce(p) \/ NotesWhatItSays(p)  PROVE Told' /\ Tally'
  <2>1. CASE Ends(p)
    BY <1>8, <1>10, <2>1 DEF clearAdviceOnce, NotesWhatItSays
  <2>2. CASE ~Ends(p)
    <3>1. /\ UNCHANGED <<hard, request, compactions>> /\ \A q \in Process \ {p} : hook'[q] = hook[q]
          /\ hook'[p].at # "count" /\ hook[p].at \notin {"observe", "store"}
          /\ hook'[p].kind = hook[p].kind /\ hook'[p].trigger = hook[p].trigger
      BY <1>10, <2>2 DEF THookOK, Hook, clearAdviceOnce, NotesWhatItSays, Goes
    <3> QED  BY <3>1, HookGoesOn DEF Told
  <2> QED  BY <2>1, <2>2
<1>11. ASSUME NEW p \in Process, noteHardCompaction(p)  PROVE Told' /\ Tally'
  <2>1. /\ UNCHANGED <<request, compactions>> /\ hard' = hard + 1 /\ hook[p].at = "count"
        /\ \A q \in Process \ {p} : hook'[q] = hook[q]
        /\ hook'[p].at = "advise" /\ hook'[p].kind = hook[p].kind /\ hook'[p].trigger = hook[p].trigger
    BY <1>11 DEF THookOK, Hook, noteHardCompaction, Goes
  <2>2. Told'
    BY <2>1 DEF Told
  <2>3. p \in CountsNow /\ CountsNow' \subseteq CountsNow \ {p} /\ MayCount' \subseteq MayCount
    BY <2>1 DEF CountsNow, MayCount
  <2>4. /\ Cardinality(CountsNow') \in Nat /\ Cardinality(CountsNow') <= Cardinality(CountsNow) - 1
        /\ Cardinality(MayCount') \in Nat /\ Cardinality(MayCount') <= Cardinality(MayCount)
    BY <2>3, Finitely, Sizes
  <2> QED  BY <1>2, <2>1, <2>2, <2>4, Finitely DEF Tally
<1>12. ASSUME NEW p \in Process, insertEvent(p)  PROVE Told' /\ Tally'
  <2> DEFINE t == hook[p].trigger
  <2>1. UNCHANGED <<hard, compactions>> /\ hook[p].at = "store"
    BY <1>12 DEF insertEvent
  <2>2. CASE ~(hook[p].kind = "compact" /\ request[t].at = "none")
    <3>1. /\ UNCHANGED request /\ \A q \in Process \ {p} : hook'[q] = hook[q]
          /\ hook'[p].at # "count" /\ hook'[p].kind = hook[p].kind /\ hook'[p].trigger = hook[p].trigger
      BY <1>12, <2>2 DEF THookOK, Hook, insertEvent, Goes
    <3> QED  BY <2>1, <2>2, <3>1, HookGoesOn
  <2>3. CASE hook[p].kind = "compact" /\ request[t].at = "none"
    <3>1. t \in Trigger
      BY <2>3 DEF Told
    <3>2. /\ \A q \in Process \ {p} : hook'[q] = hook[q]
          /\ hook'[p].kind = "compact" /\ hook'[p].trigger = t
          /\ request'[t].at = "waiting" /\ \A u \in Trigger \ {t} : request'[u] = request[u]
      BY <1>12, <2>3, <3>1 DEF THookOK, Hook, TRestOK, insertEvent, Goes
    <3>3. Told'
      BY <3>1, <3>2 DEF Told
    <3>4. CountsNow' \subseteq CountsNow \cup {p}
      BY <3>2 DEF CountsNow
    <3>5. t \in MayCount /\ MayCount' \subseteq MayCount \ {t}
      BY <2>3, <3>1, <3>2 DEF MayCount
    <3>6. /\ Cardinality(CountsNow') \in Nat /\ Cardinality(CountsNow') <= Cardinality(CountsNow) + 1
          /\ Cardinality(MayCount') \in Nat /\ Cardinality(MayCount') <= Cardinality(MayCount) - 1
      BY <3>4, <3>5, Finitely, Sizes
    <3> QED  BY <1>2, <2>1, <3>3, <3>6, Finitely DEF Tally
  <2> QED  BY <2>2, <2>3
<1>13. ASSUME NEW p \in Process, AgentCompacts(p)  PROVE Told' /\ Tally'
  <2> PICK t \in Trigger :
        /\ Fires(p, "compact", t)
        /\ \/ compactions' = compactions + 1
           \/ /\ \E q \in Process : hook[q].kind = "compact" /\ hook[q].trigger = t
              /\ UNCHANGED compactions
    BY <1>13 DEF AgentCompacts
  <2>1. /\ UNCHANGED <<hard, request>> /\ \A q \in Process \ {p} : hook'[q] = hook[q]
        /\ hook'[p].at = "observe" /\ hook'[p].kind = "compact" /\ hook'[p].trigger = t
    BY DEF THookOK, Fires
  <2>2. Told'
    BY <2>1 DEF Told
  <2>3. CountsNow' \subseteq CountsNow /\ MayCount' \subseteq MayCount \cup {t}
    BY <2>1 DEF CountsNow, MayCount
  <2>4. CASE compactions' = compactions + 1
    <3>1. /\ Cardinality(CountsNow') \in Nat /\ Cardinality(CountsNow') <= Cardinality(CountsNow)
          /\ Cardinality(MayCount') \in Nat /\ Cardinality(MayCount') <= Cardinality(MayCount) + 1
      BY <2>3, Finitely, Sizes
    <3> QED  BY <1>2, <2>1, <2>2, <2>4, <3>1, Finitely DEF Tally
  <2>5. CASE UNCHANGED compactions /\ \E q \in Process : hook[q].kind = "compact" /\ hook[q].trigger = t
    <3>1. MayCount' \subseteq MayCount
      BY <2>1, <2>3, <2>5 DEF MayCount
    <3> QED  BY <1>2, <2>1, <2>2, <2>3, <2>5, <3>1, TallyFalls
  <2> QED  BY <2>4, <2>5
<1> QED
  BY <1>3, <1>4, <1>5, <1>6, <1>7, <1>9, <1>10, <1>11, <1>12, <1>13 DEF Next, vars, AgentTurns, TailReads, TailIngests,
     MemoryChanges

\* What is counted is no more than all of it.
LEMMA FewerCounted == ASSUME TRestOK, Tally  PROVE CountedAtMostOnce
BY Finitely, LadderAssumption DEF Tally, TRestOK, CountedAtMostOnce

-----------------------------------------------------------------------------
(* Theorems. *)

LadderInv ==
  /\ TLogOK /\ THookOK /\ TRestOK
  /\ HasPeak
  /\ OneAtATime /\ NobodyTails /\ InOrder /\ Current
  /\ Told /\ Tally

\* It holds at first, and every step keeps it.
LEMMA InvInitially == Init => LadderInv
<1> SUFFICES ASSUME Init  PROVE LadderInv
  OBVIOUS
<1>1. Idle \in Hook /\ None \in Advice /\ Idle.kind = "none" /\ Idle.at = "done"
  BY DEF Idle, Hook, Advice
<1>2. TLogOK /\ HasPeak /\ NobodyTails /\ InOrder
  BY DEF Init, TLogOK, HasPeak, NobodyTails, InOrder
<1>3. THookOK /\ OneAtATime /\ Current
  BY <1>1 DEF Init, THookOK, OneAtATime, Current, Speaking
<1>4. TRestOK
  BY LadderAssumption, PressureAssumption DEF Init, TRestOK, Request, NoRequest
<1>5. CountsNow = {} /\ MayCount = {} /\ Told
  BY <1>1 DEF Init, CountsNow, MayCount, Told
<1>6. Tally
  BY <1>5, FS_EmptySet DEF Tally, Init
<1> QED  BY <1>2, <1>3, <1>4, <1>5, <1>6 DEF LadderInv

LEMMA InvStays == LadderInv /\ [Next]_vars => LadderInv'
<1> SUFFICES ASSUME LadderInv, [Next]_vars  PROVE LadderInv'
  OBVIOUS
<1>1. TLogOK' /\ THookOK' /\ TRestOK'
  BY LogTypes, HookTypes, RestTypes DEF LadderInv
<1>2. HasPeak' /\ OneAtATime' /\ NobodyTails' /\ InOrder' /\ Current'
  BY PeakStays, OneAtATimeStays, NobodyTailsStays, InOrderStays, CurrentStays DEF LadderInv
<1>3. Told' /\ Tally'
  BY <1>1, TallyStays DEF LadderInv
<1> QED  BY <1>1, <1>2, <1>3 DEF LadderInv

\* The inductive invariant of those who watch a session: types, what a hook about to
\* speak has found, and what has been announced against what may still be counted.
THEOREM LadderInvariant == Spec => []LadderInv
BY InvInitially, InvStays, PTL DEF Spec

\* Every variable keeps its type, whatever turns are seen, by whom and how often.
THEOREM TypeCorrect == Spec => []TypeOK
<1>1. LadderInv => TypeOK
  BY DEF LadderInv, TLogOK, THookOK, TRestOK, TypeOK
<1> QED  BY <1>1, LadderInvariant, PTL

\* Whatever a model is called and however few of the turns were seen, the turn the ladder
\* reads (latestAgentUsage) fits the window it is measured by.
THEOREM WindowHolds == Spec => []OccupancyFitsWindow
<1>1. LadderInv => OccupancyFitsWindow
  BY Fits DEF LadderInv
<1> QED  BY <1>1, LadderInvariant, PTL

\* What clearAdviceOnce is about to tell a person, with nobody else watching, is what the
\* newest turn any hook saw, the queue and memory call for when it is said.
THEOREM AdviceIsTrue == Spec => []TellsTheTruthAlone
<1>1. LadderInv => TellsTheTruthAlone
  BY Truth DEF LadderInv
<1> QED  BY <1>1, LadderInvariant, PTL

\* noteHardCompaction never counts more compactions than the agent announced, however
\* many hooks are told of each and wherever one of them dies.
THEOREM NeverCountedTwice == Spec => []CountedAtMostOnce
<1>1. LadderInv => CountedAtMostOnce
  BY FewerCounted DEF LadderInv
<1> QED  BY <1>1, LadderInvariant, PTL

=============================================================================
