------------------------------ MODULE CycleProofs ------------------------------
(***************************************************************************)
(* Theorems of Cycle: its types, that nobody asks a model who must not,    *)
(* that the state machine comes back to rest, and that the budget is       *)
(* overrun by one run a process at most.                                   *)
(*                                                                         *)
(* What each process does and where its machine stands go together: Good   *)
(* says how, of one process, and is all the first three need.  The budget  *)
(* needs what is not recorded yet: each process past the gate may still    *)
(* start a row, and spend (Reserved).                                      *)
(***************************************************************************)
EXTENDS Cycle, FiniteSetTheorems, TLAPS

\* Where the machine of a process stands that no store has thrown under.
Expected(d) ==
  IF d.does # "watch" \/ d.at = "rest" THEN "IDLE"
  ELSE IF d.at = "ingest" THEN "INGEST"
  ELSE IF d.at = "decide" THEN "CLASSIFY" ELSE "SPAWN_WORKER"

Good(d, m) ==
  /\ d \in Doing /\ m \in MACHINE_STATES
  /\ d.at = "decide" => d.does = "watch"
  /\ d.does = "watch" => d.at \notin {"assess", "ladder"}
  /\ d.at \in {"gate", "start", "ask"} => d.does # "hook" /\ d.task \in Task
  /\ d.does = "hook" => d.todo \subseteq {"fold"}
  /\ d.at \in {"start", "ask"} /\ setting.localOnly => d.task \in LocalTasks
  /\ setting.calm => m = Expected(d)

AllGood == \A p \in Process : Good(process[p], machine[p])

Inv == TypeOK /\ AllGood

Moves(p) ==
  \E d \in Doing, m \in MACHINE_STATES :
    /\ Becomes(p, d) /\ Turns(p, m) /\ Good(d, m)
    /\ d.at = "ask" => process[p].at = "start"
    /\ d.at = "start" => process[p].at = "gate" /\ check

-----------------------------------------------------------------------------
(* What the machine reaches. *)

LEMMA Reaching ==
  /\ \A m \in MACHINE_STATES : Reached3(m, "APPLY_RESULT", "PERSIST", "IDLE") \in MACHINE_STATES
  /\ \A m \in MACHINE_STATES : Reached3(m, "FAILED", "PERSIST", "IDLE") \in MACHINE_STATES
  /\ \A m \in MACHINE_STATES : Reached3(m, "UPDATE_STATE", "PERSIST", "IDLE") \in MACHINE_STATES
  /\ \A m \in MACHINE_STATES : Reached3(m, "DISCARD", "PERSIST", "IDLE") \in MACHINE_STATES
  /\ \A m \in MACHINE_STATES : Reached2(m, "NEED_LLM", "SPAWN_WORKER") \in MACHINE_STATES
  /\ Reached3("SPAWN_WORKER", "APPLY_RESULT", "PERSIST", "IDLE") = "IDLE"
  /\ Reached3("CLASSIFY", "UPDATE_STATE", "PERSIST", "IDLE") = "IDLE"
  /\ Reached3("CLASSIFY", "DISCARD", "PERSIST", "IDLE") = "IDLE"
  /\ Reached2("CLASSIFY", "NEED_LLM", "SPAWN_WORKER") = "SPAWN_WORKER"
  /\ Can("INGEST", "CLASSIFY")
<1>1. ASSUME NEW m \in MACHINE_STATES, NEW a \in MACHINE_STATES, NEW b \in MACHINE_STATES
      PROVE  Reached2(m, a, b) \in MACHINE_STATES
  BY DEF Reached2
<1>2. ASSUME NEW m \in MACHINE_STATES, NEW a \in MACHINE_STATES, NEW b \in MACHINE_STATES,
             NEW c \in MACHINE_STATES
      PROVE  Reached3(m, a, b, c) \in MACHINE_STATES
  BY <1>1 DEF Reached3
<1>3. /\ {"APPLY_RESULT", "PERSIST", "IDLE", "FAILED", "UPDATE_STATE", "DISCARD", "NEED_LLM",
          "SPAWN_WORKER", "CLASSIFY"} \subseteq MACHINE_STATES
  BY DEF MACHINE_STATES
<1>4. /\ Can("SPAWN_WORKER", "APPLY_RESULT") /\ Can("APPLY_RESULT", "PERSIST") /\ Can("PERSIST", "IDLE")
      /\ Can("CLASSIFY", "UPDATE_STATE") /\ Can("UPDATE_STATE", "PERSIST")
      /\ Can("CLASSIFY", "DISCARD") /\ Can("DISCARD", "PERSIST")
      /\ Can("CLASSIFY", "NEED_LLM") /\ Can("NEED_LLM", "SPAWN_WORKER") /\ Can("INGEST", "CLASSIFY")
  BY DEF Can, TRANSITIONS
<1>5. /\ Reached3("SPAWN_WORKER", "APPLY_RESULT", "PERSIST", "IDLE") = "IDLE"
      /\ Reached3("CLASSIFY", "UPDATE_STATE", "PERSIST", "IDLE") = "IDLE"
      /\ Reached3("CLASSIFY", "DISCARD", "PERSIST", "IDLE") = "IDLE"
      /\ Reached2("CLASSIFY", "NEED_LLM", "SPAWN_WORKER") = "SPAWN_WORKER"
  BY <1>4 DEF Reached3, Reached2
<1> QED  BY <1>1, <1>2, <1>3, <1>4, <1>5

LEMMA Idling ==
  /\ Gone \in Doing /\ Watching \in Doing /\ Good(Gone, "IDLE")
  /\ Good(Watching, "IDLE") /\ Gone.at = "rest" /\ Watching.at = "rest"
  /\ \A m \in MACHINE_STATES : (setting.calm => m = "IDLE") => Good(Watching, m)
<1>1. NoTask \in Task \cup {NoTask} /\ "IDLE" \in MACHINE_STATES
  BY DEF MACHINE_STATES
<1>2. Gone \in Doing /\ Watching \in Doing
  BY <1>1 DEF Gone, Watching, Doing, Command
<1> QED  BY <1>1, <1>2 DEF Gone, Watching, Good, Expected

-----------------------------------------------------------------------------
(* What each action makes of its process. *)

LEMMA OpenMoves ==
  ASSUME Inv, NEW p \in Process, NEW c \in Command, Opens(p, c)
  PROVE  Moves(p)
<1>1. PICK d \in Begins(c) : Becomes(p, d)
  BY DEF Opens
<1>2. process[p] = Gone /\ machine \in [Process -> MACHINE_STATES] /\ Good(Gone, machine[p])
  BY DEF Opens, Inv, AllGood, TypeOK
<1>3. setting.calm => machine[p] = "IDLE"
  BY <1>2 DEF Good, Expected, Gone
<1>4. MaxRuns \in Nat /\ 1 \in Nat /\ Gone \in Doing
  BY CycleAssumption, Idling
<1>5. /\ d \in Doing /\ d.at \in {"rest", "ingest", "assess", "gate"} /\ d.todo = {}
      /\ d.does = "watch" => d.at = "rest"
      /\ d.at = "gate" => d.does # "hook" /\ d.task \in Task
  <2>1. CASE c = "watch"
    BY <2>1, Idling DEF Begins, Watching, Gone
  <2>2. CASE c = "hook"
    <3>1. d = [Gone EXCEPT !.does = "hook", !.at = "ingest"]
      BY <2>2 DEF Begins
    <3> QED  BY <3>1, <1>4 DEF Gone, Doing, Command
  <2>3. CASE c = "act"
    <3>1. d = [Gone EXCEPT !.does = "act", !.at = "assess"]
      BY <2>3 DEF Begins
    <3> QED  BY <3>1, <1>4 DEF Gone, Doing, Command
  <2>4. CASE c = "learn"
    <3>1. d = Asking([Gone EXCEPT !.does = "learn"], "learn", 1)
      BY <2>4 DEF Begins
    <3> QED  BY <3>1, <1>4 DEF Gone, Doing, Command, Asking, Task
  <2>5. CASE c = "compact"
    <3>1. PICK t \in Task \ {"learn"} : d = Asking([Gone EXCEPT !.does = "compact"], t, MaxRuns)
      BY <2>5 DEF Begins
    <3> QED  BY <3>1, <1>4 DEF Gone, Doing, Command, Asking
  <2> QED  BY <2>1, <2>2, <2>3, <2>4, <2>5 DEF Command
<1>6. Good(d, machine[p])
  BY <1>2, <1>3, <1>5 DEF Good, Expected
<1>7. Turns(p, machine[p]) /\ machine[p] \in MACHINE_STATES
  BY <1>2 DEF Opens, Turns, Good
<1> QED  BY <1>1, <1>5, <1>6, <1>7 DEF Moves

\* What a thrown error makes of a process and its machine.
LEMMA ThrowMoves ==
  ASSUME Inv, NEW p \in Process, NEW m \in MACHINE_STATES, Throws(p, m),
         setting.calm /\ process[p].does = "watch" => m = "IDLE"
  PROVE  Moves(p)
<1>1. CASE process[p].does = "watch"
  BY <1>1, Idling DEF Throws, Moves
<1>2. CASE process[p].does # "watch"
  BY <1>2, Idling DEF Throws, Moves, MACHINE_STATES
<1> QED  BY <1>1, <1>2

LEMMA FailMoves ==
  ASSUME Inv, NEW p \in Process, Fails(p), ~setting.calm
  PROVE  Moves(p)
<1>1. machine[p] \in MACHINE_STATES
  BY DEF Inv, TypeOK
<1>2. Reached3(machine[p], "FAILED", "PERSIST", "IDLE") \in MACHINE_STATES
  BY <1>1, Reaching
<1> QED  BY <1>2, ThrowMoves DEF Fails

\* What the end of a run makes of who started it.
LEMMA AfterMoves ==
  ASSUME Inv, NEW p \in Process, process[p].at \in {"gate", "ask"},
         NEW s, NEW e, NEW c, After(p, s, e, c)
  PROVE  Moves(p)
<1>1. /\ process[p] \in Doing /\ machine[p] \in MACHINE_STATES /\ Good(process[p], machine[p])
      /\ machine \in [Process -> MACHINE_STATES]
  BY DEF Inv, TypeOK, AllGood
<1>2. CASE process[p].does = "watch"
  <2>1. Becomes(p, Watching) /\ Turns(p, Reached3(machine[p], "APPLY_RESULT", "PERSIST", "IDLE"))
    BY <1>2 DEF After
  <2>2. setting.calm => machine[p] = "SPAWN_WORKER"
    BY <1>1, <1>2 DEF Good, Expected
  <2> QED  BY <2>1, <2>2, <1>1, Reaching, Idling DEF Moves
<1>3. CASE process[p].does # "watch"
  <2>1. setting.calm => machine[p] = "IDLE"
    BY <1>1, <1>3 DEF Good, Expected
  <2>2. Turns(p, machine[p])
    BY <1>1, <1>3 DEF After, Turns
  <2>3. PICK d : Becomes(p, d) /\ d = IF GoesOn(process[p], s, e, c)
                   THEN Asking(process[p], process[p].task, process[p].left - 1)
                   ELSE IF process[p].does = "act"
                   THEN [process[p] EXCEPT !.at = "ladder", !.todo = Later(@)] ELSE Gone
    BY <1>3 DEF After
  <2>4. CASE GoesOn(process[p], s, e, c)
    <3>1. d = Asking(process[p], process[p].task, process[p].left - 1)
      BY <2>3, <2>4
    <3>2. process[p].left \in Nat /\ process[p].left > 1
      BY <1>1, <2>4 DEF GoesOn, Doing
    <3>3. d \in Doing /\ d.at = "gate" /\ d.does = process[p].does /\ d.task = process[p].task
          /\ d.todo = process[p].todo
      <4>1. PICK n \in Nat : n = process[p].left - 1
        BY <3>2
      <4>2. d = [[process[p] EXCEPT !.at = "gate", !.task = process[p].task] EXCEPT !.left = n]
        BY <3>1, <4>1 DEF Asking
      <4>3. d = [[[process[p] EXCEPT !.at = "gate"] EXCEPT !.task = process[p].task] EXCEPT !.left = n]
        BY <4>2
      <4> QED  BY <4>1, <4>3, <1>1 DEF Doing
    <3>4. Good(d, machine[p])
      BY <3>3, <1>1, <1>3, <2>1 DEF Good, Expected
    <3> QED  BY <3>3, <3>4, <2>2, <2>3, <1>1 DEF Moves
  <2>5. CASE ~GoesOn(process[p], s, e, c) /\ process[p].does = "act"
    <3>1. d = [process[p] EXCEPT !.at = "ladder", !.todo = Later(@)]
      BY <2>3, <2>5
    <3>2. Later(process[p].todo) \subseteq Action
      BY <1>1 DEF Later, Doing
    <3>3. d \in Doing /\ d.at = "ladder" /\ d.does = "act"
      BY <3>1, <3>2, <1>1, <2>5 DEF Doing
    <3>4. Good(d, machine[p])
      BY <3>3, <1>1, <2>1 DEF Good, Expected
    <3> QED  BY <3>3, <3>4, <2>2, <2>3, <1>1 DEF Moves
  <2>6. CASE ~GoesOn(process[p], s, e, c) /\ process[p].does # "act"
    <3>1. d = Gone
      BY <2>3, <2>6
    <3>2. Good(d, machine[p])
      BY <3>1, <1>1, <2>1, Idling DEF Good, Expected, Gone
    <3> QED  BY <3>1, <3>2, <2>2, <2>3, <1>1, Idling DEF Moves
  <2> QED  BY <2>4, <2>5, <2>6
<1> QED  BY <1>2, <1>3

LEMMA StartsCycleMoves ==
  ASSUME Inv, NEW p \in Process, StartsCycle(p)
  PROVE  Moves(p)
<1>1. /\ [Watching EXCEPT !.at = "ingest"] \in Doing /\ "INGEST" \in MACHINE_STATES
      /\ [Watching EXCEPT !.at = "ingest"].at = "ingest"
  BY Idling DEF Watching, Gone, Doing, MACHINE_STATES
<1>2. Good([Watching EXCEPT !.at = "ingest"], "INGEST")
  BY <1>1 DEF Good, Expected, Watching, Gone
<1> QED  BY <1>1, <1>2 DEF StartsCycle, Moves

LEMMA CycleIngestMoves ==
  ASSUME Inv, NEW p \in Process, CycleIngests(p)
  PROVE  Moves(p)
<1>1. process[p] \in Doing /\ machine[p] \in MACHINE_STATES /\ Good(process[p], machine[p])
  BY DEF Inv, TypeOK, AllGood
<1>2. setting.calm => machine[p] = "INGEST"
  BY <1>1 DEF CycleIngests, Good, Expected
<1>3. CASE Can(machine[p], "CLASSIFY")
  <2>1. /\ [process[p] EXCEPT !.at = "decide"] \in Doing /\ "CLASSIFY" \in MACHINE_STATES
        /\ [process[p] EXCEPT !.at = "decide"].at = "decide"
    BY <1>1 DEF Doing, MACHINE_STATES
  <2>2. Good([process[p] EXCEPT !.at = "decide"], "CLASSIFY")
    BY <1>1, <2>1 DEF CycleIngests, Good, Expected, Doing
  <2> QED  BY <1>3, <2>1, <2>2 DEF CycleIngests, Moves
<1>4. CASE ~Can(machine[p], "CLASSIFY")
  <2>1. ~setting.calm
    BY <1>2, <1>4, Reaching
  <2> QED  BY <1>1, <1>4, <2>1, ThrowMoves DEF CycleIngests
<1> QED  BY <1>3, <1>4

LEMMA HookIngestMoves ==
  ASSUME Inv, NEW p \in Process, HookIngests(p)
  PROVE  Moves(p)
<1>1. /\ process[p] \in Doing /\ machine[p] \in MACHINE_STATES /\ Good(process[p], machine[p])
      /\ machine \in [Process -> MACHINE_STATES]
  BY DEF Inv, TypeOK, AllGood
<1>2. setting.calm => machine[p] = "IDLE"
  BY <1>1 DEF HookIngests, Good, Expected
<1>3. Turns(p, machine[p])
  BY <1>1 DEF HookIngests, Turns
<1>4. [process[p] EXCEPT !.at = "assess"] \in Doing /\ [process[p] EXCEPT !.at = "assess"].at = "assess"
  BY <1>1 DEF Doing
<1>5. Good([process[p] EXCEPT !.at = "assess"], machine[p])
  BY <1>1, <1>2, <1>4 DEF HookIngests, Good, Expected, Doing
<1>6. Good(Gone, machine[p])
  BY <1>1, <1>2, Idling DEF Good, Expected, Gone
<1> QED  BY <1>1, <1>3, <1>4, <1>5, <1>6, Idling DEF HookIngests, Moves

LEMMA DecideMoves ==
  ASSUME Inv, NEW p \in Process, Decides(p)
  PROVE  Moves(p)
<1>1. process[p] \in Doing /\ machine[p] \in MACHINE_STATES /\ Good(process[p], machine[p])
  BY DEF Inv, TypeOK, AllGood
<1>2. process[p].does = "watch" /\ (setting.calm => machine[p] = "CLASSIFY")
  BY <1>1 DEF Decides, Good, Expected
<1>3. PICK stored \in BOOLEAN, wanted \in BOOLEAN, elapsed \in BOOLEAN, total \in Totals :
        IF wanted /\ evaluateTriggers(total, elapsed)
        THEN IF Reached2(machine[p], "NEED_LLM", "SPAWN_WORKER") = "SPAWN_WORKER"
             THEN Becomes(p, Asking(process[p], "extraction", 1)) /\ Turns(p, "SPAWN_WORKER")
             ELSE Throws(p, Reached2(machine[p], "NEED_LLM", "SPAWN_WORKER"))
        ELSE Becomes(p, Watching) /\
             Turns(p, Reached3(machine[p], IF stored THEN "UPDATE_STATE" ELSE "DISCARD",
                               "PERSIST", "IDLE"))
  BY DEF Decides
<1>4. CASE Becomes(p, Asking(process[p], "extraction", 1)) /\ Turns(p, "SPAWN_WORKER")
  <2> DEFINE d == Asking(process[p], "extraction", 1)
  <2>1. d \in Doing /\ d.at = "gate" /\ d.does = "watch" /\ d.task = "extraction"
    BY <1>1, <1>2 DEF Asking, Doing, Task
  <2>2. "SPAWN_WORKER" \in MACHINE_STATES /\ "extraction" \in Task
    BY DEF MACHINE_STATES, Task
  <2>3. Good(d, "SPAWN_WORKER")
    BY <2>1, <2>2 DEF Good, Expected
  <2> QED  BY <1>4, <2>1, <2>2, <2>3 DEF Moves
<1>5. CASE /\ Reached2(machine[p], "NEED_LLM", "SPAWN_WORKER") # "SPAWN_WORKER"
           /\ Throws(p, Reached2(machine[p], "NEED_LLM", "SPAWN_WORKER"))
  <2>1. ~setting.calm
    BY <1>2, <1>5, Reaching
  <2> QED  BY <1>1, <1>5, <2>1, Reaching, ThrowMoves
<1>6. CASE Becomes(p, Watching) /\
           \E a \in {"UPDATE_STATE", "DISCARD"} : Turns(p, Reached3(machine[p], a, "PERSIST", "IDLE"))
  BY <1>1, <1>2, <1>6, Reaching, Idling DEF Moves
<1> QED  BY <1>3, <1>4, <1>5, <1>6

LEMMA DecideFailMoves ==
  ASSUME Inv, NEW p \in Process, DecideFails(p)
  PROVE  Moves(p)
<1>1. machine[p] \in MACHINE_STATES
  BY DEF Inv, TypeOK
<1> QED  BY <1>1, ThrowMoves DEF DecideFails

LEMMA GateMoves ==
  ASSUME Inv, NEW p \in Process, Gate(p)
  PROVE  Moves(p)
<1>1. /\ process[p] \in Doing /\ machine[p] \in MACHINE_STATES /\ Good(process[p], machine[p])
      /\ machine \in [Process -> MACHINE_STATES]
  BY DEF Inv, TypeOK, AllGood
<1>2. CASE /\ Permitted(process[p].task) /\ check
           /\ Becomes(p, [process[p] EXCEPT !.at = "start"]) /\ UNCHANGED machine
  <2>1. [process[p] EXCEPT !.at = "start"] \in Doing /\ [process[p] EXCEPT !.at = "start"].at = "start"
    BY <1>1 DEF Doing
  <2>2. Good([process[p] EXCEPT !.at = "start"], machine[p])
    BY <1>1, <1>2, <2>1 DEF Gate, Good, Expected, Permitted, Doing
  <2>3. Turns(p, machine[p])
    BY <1>1, <1>2 DEF Turns
  <2> QED  BY <1>1, <1>2, <2>1, <2>2, <2>3 DEF Moves, Gate
<1>3. CASE \E s \in {"deferred", "skipped"} : After(p, s, PendingEvents, pairs)
  BY <1>3, AfterMoves DEF Gate
<1> QED  BY <1>2, <1>3 DEF Gate

LEMMA StartsRunMoves ==
  ASSUME Inv, NEW p \in Process, StartsRun(p)
  PROVE  Moves(p)
<1>1. /\ process[p] \in Doing /\ machine[p] \in MACHINE_STATES /\ Good(process[p], machine[p])
      /\ machine \in [Process -> MACHINE_STATES]
  BY DEF Inv, TypeOK, AllGood
<1>2. [process[p] EXCEPT !.at = "ask"] \in Doing /\ [process[p] EXCEPT !.at = "ask"].at = "ask"
  BY <1>1 DEF Doing
<1>3. Good([process[p] EXCEPT !.at = "ask"], machine[p])
  BY <1>1, <1>2 DEF StartsRun, Good, Expected, Doing
<1>4. Turns(p, machine[p])
  BY <1>1 DEF StartsRun, Turns
<1> QED  BY <1>1, <1>2, <1>3, <1>4 DEF StartsRun, Moves

LEMMA AnswerMoves ==
  ASSUME Inv, NEW p \in Process, Answers(p)
  PROVE  Moves(p)
<1>1. \E s, e, c : After(p, s, e, c)
  BY DEF Answers
<1> QED  BY <1>1, AfterMoves DEF Answers

LEMMA AssessMoves ==
  ASSUME Inv, NEW p \in Process, Assesses(p)
  PROVE  Moves(p)
<1>1. /\ process[p] \in Doing /\ machine[p] \in MACHINE_STATES /\ Good(process[p], machine[p])
      /\ machine \in [Process -> MACHINE_STATES]
  BY DEF Inv, TypeOK, AllGood
<1>2. PICK u \in Usages :
        Becomes(p, [process[p] EXCEPT !.at = "ladder",
                      !.todo = WithLearning(IF process[p].does = "hook"
                                            THEN {a \in Actions(u) : ~needsProvider(a)}
                                            ELSE Actions(u)) \cap Action])
  BY DEF Assesses
<1> DEFINE allowed == IF process[p].does = "hook"
                      THEN {a \in Actions(u) : ~needsProvider(a)} ELSE Actions(u)
           todo == WithLearning(allowed) \cap Action
           d == [process[p] EXCEPT !.at = "ladder", !.todo = todo]
<1>3. Action = {"fold", "extract", "resolve_conflicts", "reconcile", "learn"}
  BY DEF Action, Place
<1>4. process[p].does = "hook" => todo \subseteq {"fold"}
  <2> SUFFICES ASSUME process[p].does = "hook", NEW a \in todo
               PROVE  a = "fold"
    OBVIOUS
  <2>1. allowed = {b \in Actions(u) : ~needsProvider(b)}
    OBVIOUS
  <2>2. "extract" \notin allowed
    BY <2>1 DEF needsProvider
  <2>3. a \in allowed /\ a \in Action
    BY <2>2 DEF WithLearning
  <2>4. ~needsProvider(a)
    BY <2>1, <2>3
  <2> QED  BY <1>3, <2>3, <2>4 DEF needsProvider
<1> HIDE DEF todo
<1>5. todo \subseteq Action
  BY DEF todo
<1>6. d \in Doing /\ d.at = "ladder"
  BY <1>1, <1>5 DEF Doing
<1>7. Good(d, machine[p])
  BY <1>1, <1>4, <1>6 DEF Assesses, Good, Expected, Doing
<1>8. Turns(p, machine[p]) /\ Becomes(p, d)
  BY <1>1, <1>2 DEF Assesses, Turns, todo
<1> QED  BY <1>1, <1>6, <1>7, <1>8 DEF Moves

LEMMA RungMoves ==
  ASSUME Inv, NEW p \in Process, NEW a \in Action, Rung(p, a)
  PROVE  Moves(p)
<1> DEFINE d == process[p]
           next == [d EXCEPT !.todo = Later(@)]
<1>1. /\ d \in Doing /\ machine[p] \in MACHINE_STATES /\ Good(d, machine[p])
      /\ machine \in [Process -> MACHINE_STATES]
  BY DEF Inv, TypeOK, AllGood
<1>2. d.does # "watch" /\ d.at = "ladder" /\ a \in d.todo /\ Turns(p, machine[p])
  BY <1>1 DEF Rung, Good, Turns
<1>3. setting.calm => machine[p] = "IDLE"
  BY <1>1, <1>2 DEF Good, Expected
<1>4. Later(d.todo) \subseteq d.todo
  BY DEF Later
<1>5. next \in Doing /\ Good(next, machine[p]) /\ next.at = "ladder"
  <2>1. next \in Doing /\ next.at = "ladder" /\ next.does = d.does /\ next.todo \subseteq d.todo
    BY <1>1, <1>2, <1>4 DEF Doing
  <2>2. Good(next, machine[p])
    BY <2>1, <1>1, <1>2, <1>3 DEF Good, Expected
  <2> QED  BY <2>1, <2>2
<1>6. ASSUME NEW t \in Task, NEW n \in Nat, a # "fold"
      PROVE  /\ Asking(d, t, n) \in Doing /\ Good(Asking(d, t, n), machine[p])
             /\ Asking(d, t, n).at = "gate"
  <2>1. /\ Asking(d, t, n) \in Doing /\ Asking(d, t, n).at = "gate" /\ Asking(d, t, n).task = t
        /\ Asking(d, t, n).does = d.does
    BY <1>1 DEF Asking, Doing
  <2>2. d.does # "hook"
    BY <1>1, <1>2, <1>6 DEF Good
  <2>3. Good(Asking(d, t, n), machine[p])
    BY <2>1, <2>2, <1>1, <1>2, <1>3 DEF Good, Expected
  <2> QED  BY <2>1, <2>3
<1>7. LadderRuns \in Nat /\ 1 \in Nat
      /\ {"extraction", "conflict_resolution", "complex_reconciliation", "learn"} = Task
  BY CycleAssumption DEF Task
<1>8. Becomes(p, next) \/ (a # "fold" /\ \E t \in Task, n \in Nat : Becomes(p, Asking(d, t, n)))
  <2>1. CASE a = "fold"
    BY <2>1 DEF Rung
  <2>2. CASE a = "extract"
    BY <2>2, <1>7 DEF Rung
  <2>3. CASE a = "resolve_conflicts"
    BY <2>3, <1>7 DEF Rung
  <2>4. CASE a = "reconcile"
    BY <2>4, <1>7 DEF Rung
  <2>5. CASE a = "learn"
    BY <2>5, <1>7 DEF Rung
  <2> QED  BY <2>1, <2>2, <2>3, <2>4, <2>5 DEF Action, Place
<1> HIDE DEF d, next
<1> QED  BY <1>1, <1>2, <1>5, <1>6, <1>8 DEF Moves

\* Also what is left of a process that ends by itself, dies or throws.
LEMMA GoneMoves ==
  ASSUME Inv, NEW p \in Process, Becomes(p, Gone),
         Turns(p, "IDLE") \/ (machine' = machine /\ process[p].at = "ladder")
  PROVE  Moves(p)
<1>1. /\ process[p] \in Doing /\ machine[p] \in MACHINE_STATES /\ Good(process[p], machine[p])
      /\ machine \in [Process -> MACHINE_STATES]
  BY DEF Inv, TypeOK, AllGood
<1>2. CASE Turns(p, "IDLE")
  BY <1>2, Idling DEF Moves, MACHINE_STATES
<1>3. CASE machine' = machine /\ process[p].at = "ladder"
  <2>1. setting.calm => machine[p] = "IDLE"
    BY <1>1, <1>3 DEF Good, Expected
  <2>2. Good(Gone, machine[p]) /\ Turns(p, machine[p])
    BY <1>1, <1>3, <2>1, Idling DEF Good, Expected, Gone, Turns
  <2> QED  BY <1>1, <2>2, Idling DEF Moves
<1> QED  BY <1>2, <1>3

LEMMA FlushMoves ==
  ASSUME Inv, NEW p \in Process, Flushes(p)
  PROVE  Moves(p)
<1> DEFINE d == Asking([Gone EXCEPT !.does = "compact"], "extraction", MaxRuns)
<1>1. /\ process[p] = Watching /\ machine[p] \in MACHINE_STATES /\ Good(Watching, machine[p])
      /\ machine \in [Process -> MACHINE_STATES]
  BY DEF Flushes, Inv, TypeOK, AllGood
<1>2. setting.calm => machine[p] = "IDLE"
  BY <1>1 DEF Good, Expected, Watching, Gone
<1>3. MaxRuns \in Nat
  BY CycleAssumption
<1>4. d \in Doing /\ d.at = "gate" /\ d.does = "compact" /\ d.task = "extraction"
  BY <1>3, Idling DEF Gone, Doing, Command, Asking, Task
<1>5. Good(d, machine[p])
  BY <1>1, <1>2, <1>4 DEF Good, Expected, Task
<1>6. Turns(p, machine[p]) /\ Becomes(p, d)
  BY <1>1 DEF Flushes, Turns
<1> QED  BY <1>1, <1>4, <1>5, <1>6 DEF Moves

-----------------------------------------------------------------------------
(* Who moves, and what that does to everybody. *)

\* What a process does, as against the clock.
Own(p) ==
  (\E c \in Command : Opens(p, c)) \/ Step(p) \/ StartsCycle(p) \/ Flushes(p) \/ Exits(p)

LEMMA SomebodyOrTheClock ==
  ASSUME Next
  PROVE  (\E p \in Process : Own(p)) \/ \E n \in Spending : HourPasses(n)
BY DEF Next, Own

\* Every step but the clock's moves one process.
LEMMA OwnMoves ==
  ASSUME Inv, NEW p \in Process, Own(p)
  PROVE  Moves(p)
<1>1. ASSUME NEW c \in Command, Opens(p, c)  PROVE Moves(p)
  BY <1>1, OpenMoves
<1>2. ASSUME Step(p)  PROVE Moves(p)
  <2>1. CASE CycleIngests(p)
    BY <2>1, CycleIngestMoves
  <2>2. CASE CycleIngestFails(p)
    BY <2>2, FailMoves DEF CycleIngestFails
  <2>3. CASE HookIngests(p)
    BY <2>3, HookIngestMoves
  <2>4. CASE Decides(p)
    BY <2>4, DecideMoves
  <2>5. CASE DecideFails(p)
    BY <2>5, DecideFailMoves
  <2>6. CASE Gate(p)
    BY <2>6, GateMoves
  <2>7. CASE StartsRun(p)
    BY <2>7, StartsRunMoves
  <2>8. CASE Answers(p)
    BY <2>8, AnswerMoves
  <2>9. CASE RunFails(p)
    BY <2>9, FailMoves DEF RunFails
  <2>10. CASE Assesses(p)
    BY <2>10, AssessMoves
  <2>11. CASE \E a \in Action : Rung(p, a)
    BY <2>11, RungMoves
  <2>12. CASE LadderEnds(p)
    BY <2>12, GoneMoves DEF LadderEnds
  <2> QED  BY <1>2, <2>1, <2>2, <2>3, <2>4, <2>5, <2>6, <2>7, <2>8, <2>9, <2>10, <2>11, <2>12 DEF Step
<1>3. ASSUME StartsCycle(p)  PROVE Moves(p)
  BY <1>3, StartsCycleMoves
<1>4. ASSUME Flushes(p)  PROVE Moves(p)
  BY <1>4, FlushMoves
<1>5. ASSUME Exits(p)  PROVE Moves(p)
  BY <1>5, GoneMoves DEF Exits
<1> QED  BY <1>1, <1>2, <1>3, <1>4, <1>5 DEF Own

\* Only the start of a run and its end write a row.
LEMMA OwnRows ==
  ASSUME NEW p \in Process, Own(p)
  PROVE  UNCHANGED rows \/ StartsRun(p) \/ Answers(p)
<1>1. ASSUME Step(p)  PROVE UNCHANGED rows \/ StartsRun(p) \/ Answers(p)
  BY <1>1 DEF Step, CycleIngests, CycleIngestFails, HookIngests, Decides, DecideFails, Gate,
     RunFails, Assesses, Rung, LadderEnds
<1> QED  BY <1>1 DEF Own, Opens, Exits, StartsCycle, Flushes

LEMMA SettingStays ==
  ASSUME Next
  PROVE  setting' = setting
<1>1. ASSUME NEW p \in Process, Step(p)  PROVE setting' = setting
  BY <1>1 DEF Step, CycleIngests, CycleIngestFails, HookIngests, Decides, DecideFails, Gate, StartsRun,
     Answers, RunFails, Assesses, Rung, LadderEnds
<1> QED  BY <1>1 DEF Next, Opens, Exits, StartsCycle, Flushes, HourPasses

LEMMA AllStayGood ==
  ASSUME Inv, [Next]_vars
  PROVE  /\ AllGood'
         /\ process' \in [Process -> Doing] /\ machine' \in [Process -> MACHINE_STATES]
<1>1. process \in [Process -> Doing] /\ machine \in [Process -> MACHINE_STATES]
  BY DEF Inv, TypeOK
<1>2. ASSUME UNCHANGED <<process, machine, setting>>
      PROVE  /\ AllGood'
             /\ process' \in [Process -> Doing] /\ machine' \in [Process -> MACHINE_STATES]
  BY <1>1, <1>2 DEF Inv, AllGood, Good
<1>3. ASSUME NEW p \in Process, Moves(p), setting' = setting
      PROVE  /\ AllGood'
             /\ process' \in [Process -> Doing] /\ machine' \in [Process -> MACHINE_STATES]
  <2>1. PICK d \in Doing, m \in MACHINE_STATES : Becomes(p, d) /\ Turns(p, m) /\ Good(d, m)
    BY <1>3 DEF Moves
  <2>2. ASSUME NEW q \in Process  PROVE Good(process[q], machine[q])'
    <3>1. CASE q = p
      <4>1. process'[q] = d /\ machine'[q] = m
        BY <1>1, <2>1, <3>1 DEF Becomes, Turns
      <4> QED  BY <4>1, <2>1, <1>3 DEF Good
    <3>2. CASE q # p
      <4>1. process'[q] = process[q] /\ machine'[q] = machine[q] /\ Good(process[q], machine[q])
        BY <1>1, <2>1, <2>2, <3>2 DEF Becomes, Turns, Inv, AllGood
      <4> QED  BY <4>1, <1>3 DEF Good
    <3> QED  BY <3>1, <3>2
  <2>3. process' \in [Process -> Doing] /\ machine' \in [Process -> MACHINE_STATES]
    BY <1>1, <2>1 DEF Becomes, Turns
  <2> QED  BY <2>2, <2>3 DEF AllGood
<1>4. CASE UNCHANGED vars
  BY <1>2, <1>4 DEF vars
<1>5. CASE Next
  <2>1. setting' = setting
    BY <1>5, SettingStays
  <2>2. CASE \E n \in Spending : HourPasses(n)
    BY <2>2, <1>2 DEF HourPasses
  <2>3. CASE \E p \in Process : Own(p)
    BY <2>1, <2>3, <1>3, OwnMoves
  <2> QED  BY <1>5, <2>2, <2>3, SomebodyOrTheClock
<1> QED  BY <1>4, <1>5

-----------------------------------------------------------------------------
(* Types. *)

LEMMA WaitingKeepsItsType ==
  ASSUME Inv, [Next]_vars
  PROVE  waiting' \in [Kind -> 0..MaxWaiting] /\ answered' \in BOOLEAN /\ pairs' \in BOOLEAN
<1> DEFINE W == waiting' \in [Kind -> 0..MaxWaiting]
           Typed == W /\ answered' \in BOOLEAN /\ pairs' \in BOOLEAN
<1>1. /\ waiting \in [Kind -> 0..MaxWaiting] /\ answered \in BOOLEAN /\ pairs \in BOOLEAN
      /\ MaxWaiting \in Nat
  BY CycleAssumption DEF Inv, TypeOK
<1>2. ASSUME Ingests  PROVE W /\ answered' \in BOOLEAN
  <2>1. PICK added \in [Kind -> {0, 1}], turn \in BOOLEAN : Stores(added, turn)
    BY <1>2 DEF Ingests
  <2>2. \A k \in Kind : waiting[k] + added[k] \in 0..MaxWaiting
    BY <1>1, <2>1 DEF Stores
  <2> QED  BY <1>1, <2>1, <2>2 DEF Stores
<1>3. ASSUME NEW s, NEW t, Resolves(s, t)  PROVE W
  BY <1>1, <1>3 DEF Resolves
<1>4. ASSUME NEW p \in Process, Step(p)  PROVE Typed
  <2>1. CASE CycleIngests(p) \/ HookIngests(p)
    BY <1>1, <1>2, <2>1 DEF CycleIngests, HookIngests
  <2>2. CASE \/ CycleIngestFails(p) \/ Decides(p) \/ DecideFails(p) \/ Gate(p) \/ StartsRun(p)
             \/ RunFails(p) \/ Assesses(p) \/ LadderEnds(p)
    BY <1>1, <2>2 DEF CycleIngestFails, Decides, DecideFails, Gate, StartsRun, RunFails, Assesses,
       LadderEnds
  <2>3. CASE Answers(p)
    <3>1. PICK s \in {"ok", "noop", "invalid", "error"} :
            Resolves(s, process[p].task) /\ pairs' \in IF s \in {"ok", "noop"} THEN BOOLEAN ELSE {pairs}
      BY <2>3 DEF Answers
    <3> QED  BY <1>1, <1>3, <2>3, <3>1 DEF Answers
  <2>4. CASE \E a \in Action : Rung(p, a)
    <3>1. W
      BY <1>1, <1>3, <2>4 DEF Rung
    <3> QED  BY <1>1, <2>4, <3>1 DEF Rung
  <2> QED  BY <1>4, <2>1, <2>2, <2>3, <2>4 DEF Step
<1>5. CASE UNCHANGED vars
  BY <1>1, <1>5 DEF vars
<1>6. CASE Next
  <2>1. ASSUME NEW p \in Process, NEW c \in Command, Opens(p, c)  PROVE Typed
    BY <1>1, <2>1 DEF Opens
  <2>2. ASSUME NEW p \in Process, StartsCycle(p) \/ Flushes(p) \/ Exits(p)  PROVE Typed
    BY <1>1, <2>2 DEF StartsCycle, Flushes, Exits
  <2>3. ASSUME NEW n \in Spending, HourPasses(n)  PROVE Typed
    BY <1>1, <2>3 DEF HourPasses
  <2> QED  BY <1>4, <1>6, <2>1, <2>2, <2>3 DEF Next
<1> QED  BY <1>5, <1>6

LEMMA RunningIsNatural == Running \in Nat
<1>1. {p \in Process : process[p].at = "ask"} \subseteq Process /\ IsFiniteSet(Process)
  BY CycleAssumption
<1> QED  BY <1>1, FS_Subset, FS_CardinalityType DEF Running

LEMMA RowsKeepTheirTypes ==
  ASSUME Inv, [Next]_vars
  PROVE  calls' \in Nat /\ tokens' \in Nat /\ spent' \in Nat
<1>1. calls \in Nat /\ tokens \in Nat /\ spent \in Nat /\ Spending \subseteq Nat
  BY CycleAssumption DEF Inv, TypeOK, Spending
<1>2. CASE UNCHANGED rows
  BY <1>1, <1>2 DEF rows
<1>3. ASSUME NEW p \in Process, StartsRun(p) \/ Answers(p)
      PROVE  calls' \in Nat /\ tokens' \in Nat /\ spent' \in Nat
  BY <1>1, <1>3 DEF StartsRun, Answers, finishWorkerRun
<1>4. ASSUME NEW n \in Spending, HourPasses(n)
      PROVE  calls' \in Nat /\ tokens' \in Nat /\ spent' \in Nat
  BY <1>1, <1>4, RunningIsNatural DEF HourPasses
<1>5. CASE UNCHANGED vars
  BY <1>2, <1>5 DEF vars
<1> QED  BY <1>2, <1>3, <1>4, <1>5, SomebodyOrTheClock, OwnRows

LEMMA InvInitially ==
  ASSUME Init  PROVE Inv
<1>1. "IDLE" \in MACHINE_STATES
  BY DEF MACHINE_STATES
<1>2. Gone \in Doing /\ Good(Gone, "IDLE") /\ Gone.at = "rest"
  BY Idling
<1>3. TypeOK
  <2>1. [k \in Kind |-> 0] \in [Kind -> 0..MaxWaiting]
    BY CycleAssumption
  <2>2. [p \in Process |-> Gone] \in [Process -> Doing]
    BY <1>2
  <2>3. [p \in Process |-> "IDLE"] \in [Process -> MACHINE_STATES]
    BY <1>1
  <2> QED  BY <2>1, <2>2, <2>3 DEF Init, TypeOK
<1>4. AllGood
  BY <1>2 DEF Init, AllGood
<1> QED  BY <1>3, <1>4 DEF Inv

LEMMA InvStays ==
  ASSUME Inv, [Next]_vars  PROVE Inv'
<1>1. AllGood' /\ process' \in [Process -> Doing] /\ machine' \in [Process -> MACHINE_STATES]
  BY AllStayGood
<1>2. setting' \in Settings
  <2>1. setting' = setting
    BY SettingStays DEF vars
  <2> QED  BY <2>1 DEF Inv, TypeOK
<1>3. TypeOK'
  BY <1>1, <1>2, WaitingKeepsItsType, RowsKeepTheirTypes DEF TypeOK
<1> QED  BY <1>1, <1>3 DEF Inv

\* Always: the types, and where every machine stands given what its process does.
THEOREM CycleInvariant == Spec => []Inv
<1> QED  BY InvInitially, InvStays, PTL DEF Spec

-----------------------------------------------------------------------------
(* The budget: what is past the gate and not recorded yet is reserved. *)

\* Processes that will still start a row, and that will still record what they use.
Before == {p \in Process : process[p].at = "start"}
Paying == {p \in Process : process[p].at \in {"start", "ask"}}

Due(S) == Cardinality(S) * MaxSpend

\* With one process at a time, nobody is at work beside another.
Alone ==
  ~setting.shared => \A p, q \in Process : process[p] # Gone /\ process[q] # Gone => p = q

Reserved ==
  /\ calls + Cardinality(Before) <= AtLeast0(MaxCalls - 1 + Concurrent)
  /\ tokens + Due(Paying) <= AtLeast0(MaxTokens - Estimate + Concurrent * MaxSpend)
  /\ spent + Due(Paying) <= AtLeast0(SessionCap - 1 + Concurrent * MaxSpend)

SpendInv == Inv /\ Alone /\ Reserved

\* Multiplication keeps the order, and takes off one factor at a time.
LEMMA Products ==
  ASSUME NEW k \in Nat, NEW n \in Nat, NEW m \in Nat
  PROVE  n * k \in Nat /\ (n <= m => n * k <= m * k) /\ (n - 1) * k = n * k - k
<1>1. n * k \in Nat
  OBVIOUS
<1>2. (n - 1) * k = n * k - k
  OBVIOUS
<1>3. ASSUME n <= m  PROVE n * k <= m * k
  BY <1>3
<1> QED  BY <1>1, <1>2, <1>3

\* How many processes there are to pay for.
LEMMA Counting ==
  ASSUME NEW S \in SUBSET Process, NEW T \in SUBSET S
  PROVE  /\ IsFiniteSet(S) /\ Cardinality(S) \in Nat /\ Cardinality(T) \in Nat
         /\ Cardinality(T) <= Cardinality(S) /\ Cardinality(S) <= Cardinality(Process)
         /\ Due(S) \in Nat /\ Due(T) \in Nat /\ Due(T) <= Due(S)
<1>1. IsFiniteSet(S) /\ Cardinality(S) <= Cardinality(Process)
  BY CycleAssumption, FS_Subset
<1>2. IsFiniteSet(T) /\ Cardinality(T) <= Cardinality(S)
  BY <1>1, FS_Subset
<1>3. Cardinality(S) \in Nat /\ Cardinality(T) \in Nat /\ MaxSpend \in Nat
  BY <1>1, <1>2, FS_CardinalityType, CycleAssumption
<1> QED  BY <1>1, <1>2, <1>3, Products DEF Due

LEMMA OneLess ==
  ASSUME NEW S \in SUBSET Process, NEW p \in S
  PROVE  /\ Cardinality(S \ {p}) = Cardinality(S) - 1
         /\ Due(S \ {p}) = Due(S) - MaxSpend
<1>1. IsFiniteSet(S) /\ Cardinality(S) \in Nat
  BY Counting
<1>2. Cardinality(S \ {p}) = Cardinality(S) - 1 /\ Cardinality(S) > 0
  BY <1>1, FS_RemoveElement, FS_EmptySet
<1> QED  BY <1>1, <1>2, Products, CycleAssumption DEF Due

\* As many processes may be past the gate as may be at work.
LEMMA FewAtWork ==
  ASSUME NEW S \in SUBSET Process, NEW n, n = Cardinality(Process) \/ (n = 1 /\ \A p, q \in S : p = q)
  PROVE  n \in Nat /\ Cardinality(S) <= n /\ Due(S) <= n * MaxSpend
<1>1. Cardinality(S) \in Nat /\ Cardinality(S) <= Cardinality(Process) /\ Cardinality(Process) \in Nat
  BY Counting, CycleAssumption, FS_CardinalityType
<1>2. n \in Nat /\ Cardinality(S) <= n
  <2>1. CASE n = Cardinality(Process)
    BY <1>1, <2>1
  <2>2. CASE n = 1 /\ \A p, q \in S : p = q
    <3>1. S = {} \/ \E p \in S : S = {p}
      BY <2>2
    <3>2. Cardinality(S) = 0 \/ Cardinality(S) = 1
      BY <3>1, FS_EmptySet, FS_Singleton
    <3> QED  BY <2>2, <3>2
  <2> QED  BY <2>1, <2>2
<1> QED  BY <1>1, <1>2, Products, CycleAssumption DEF Due

LEMMA AtMostConcurrent ==
  /\ Alone => /\ Concurrent \in Nat /\ Cardinality(Paying) <= Concurrent
              /\ Due(Paying) <= Concurrent * MaxSpend
  /\ Alone' => /\ Concurrent' \in Nat /\ Cardinality(Paying') <= Concurrent'
               /\ Due(Paying') <= Concurrent' * MaxSpend
<1>1. ASSUME Alone
      PROVE  /\ Concurrent \in Nat /\ Cardinality(Paying) <= Concurrent
             /\ Due(Paying) <= Concurrent * MaxSpend
  <2>1. Concurrent = Cardinality(Process) \/ (Concurrent = 1 /\ \A p, q \in Paying : p = q)
    <3>1. CASE setting.shared
      BY <3>1 DEF Concurrent
    <3>2. CASE ~setting.shared
      <4>1. \A q \in Paying : q \in Process /\ process[q] # Gone
        BY DEF Paying, Gone
      <4>2. \A p, q \in Process : process[p] # Gone /\ process[q] # Gone => p = q
        BY <1>1, <3>2 DEF Alone
      <4> QED  BY <3>2, <4>1, <4>2 DEF Concurrent
    <3> QED  BY <3>1, <3>2
  <2>2. Paying \subseteq Process
    BY DEF Paying
  <2> QED  BY <2>1, <2>2, FewAtWork
<1>2. ASSUME Alone'
      PROVE  /\ Concurrent' \in Nat /\ Cardinality(Paying') <= Concurrent'
             /\ Due(Paying') <= Concurrent' * MaxSpend
  <2>1. Concurrent' = Cardinality(Process) \/ (Concurrent' = 1 /\ \A p, q \in Paying' : p = q)
    <3>1. CASE setting'.shared
      BY <3>1 DEF Concurrent
    <3>2. CASE ~setting'.shared
      <4>1. \A q \in Paying' : q \in Process /\ process'[q] # Gone
        BY DEF Paying, Gone
      <4>2. \A p, q \in Process : process'[p] # Gone /\ process'[q] # Gone => p = q
        BY <1>2, <3>2 DEF Alone
      <4> QED  BY <3>2, <4>1, <4>2 DEF Concurrent
    <3> QED  BY <3>1, <3>2
  <2>2. Paying' \subseteq Process
    BY DEF Paying
  <2> QED  BY <2>1, <2>2, FewAtWork
<1> QED  BY <1>1, <1>2

\* Who is at work was at work before, or has just begun.
LEMMA OwnIsAwake ==
  ASSUME NEW p \in Process, Own(p)
  PROVE  process[p] # Gone \/ \E c \in Command : Opens(p, c)
<1>1. ASSUME Step(p)  PROVE process[p] # Gone
  <2>1. process[p].at # "rest"
    BY <1>1 DEF Step, CycleIngests, CycleIngestFails, HookIngests, Decides, DecideFails, Gate, StartsRun,
       Answers, RunFails, Assesses, Rung, LadderEnds
  <2> QED  BY <2>1 DEF Gone
<1>2. Watching # Gone
  BY DEF Watching, Gone
<1> QED  BY <1>1, <1>2 DEF Own, StartsCycle, Flushes, Exits

LEMMA AloneStays ==
  ASSUME Inv, Alone, [Next]_vars
  PROVE  Alone'
<1>1. process \in [Process -> Doing]
  BY DEF Inv, TypeOK
<1>2. CASE UNCHANGED <<process, setting>>
  BY <1>2 DEF Alone
<1>3. ASSUME NEW p \in Process, Own(p), Next  PROVE Alone'
  <2>1. PICK d \in Doing : Becomes(p, d)
    BY <1>3, OwnMoves DEF Moves
  <2>2. \A q \in Process : q # p => process'[q] = process[q]
    BY <1>1, <2>1 DEF Becomes
  <2>3. setting' = setting
    BY <1>3, SettingStays
  <2>4. setting.shared \/ \A q \in Process : q # p => process[q] = Gone
    BY <1>3, OwnIsAwake DEF Opens, Alone
  <2> QED  BY <2>2, <2>3, <2>4 DEF Alone
<1>4. ASSUME NEW n \in Spending, HourPasses(n)  PROVE Alone'
  BY <1>2, <1>4 DEF HourPasses
<1>5. CASE UNCHANGED vars
  BY <1>2, <1>5 DEF vars
<1> QED  BY <1>3, <1>4, <1>5, SomebodyOrTheClock

\* A row is started by who was past the gate.
LEMMA StartReserves ==
  ASSUME SpendInv, NEW p \in Process, StartsRun(p), setting' = setting
  PROVE  Reserved'
<1>1. process \in [Process -> Doing] /\ calls \in Nat
  BY DEF SpendInv, Inv, TypeOK
<1>2. [process[p] EXCEPT !.at = "ask"].at = "ask" /\ process[p].at = "start"
  BY <1>1 DEF StartsRun, Doing
<1>3. Before' = Before \ {p} /\ Paying' = Paying /\ p \in Before /\ Before \subseteq Process
  BY <1>1, <1>2 DEF StartsRun, Becomes, Before, Paying
<1>4. Cardinality(Before') = Cardinality(Before) - 1 /\ Due(Paying)' = Due(Paying)
  BY <1>3, OneLess DEF Due
<1>5. calls' + Cardinality(Before') = calls + Cardinality(Before)
  <2>1. Cardinality(Before) \in Nat
    BY <1>3, Counting
  <2> QED  BY <1>1, <1>4, <2>1 DEF StartsRun
<1>6. tokens' = tokens /\ spent' = spent /\ Concurrent' = Concurrent
  BY DEF StartsRun, Concurrent
<1> QED  BY <1>4, <1>5, <1>6 DEF SpendInv, Reserved

\* What a run uses was reserved for it.
LEMMA AnswerReserves ==
  ASSUME SpendInv, NEW p \in Process, Answers(p), setting' = setting
  PROVE  Reserved'
<1>1. /\ process \in [Process -> Doing] /\ tokens \in Nat /\ spent \in Nat /\ MaxSpend \in Nat
      /\ Inv
  BY CycleAssumption DEF SpendInv, Inv, TypeOK
<1>2. process[p].at = "ask"
  BY DEF Answers
<1>3. PICK d \in Doing : Becomes(p, d) /\ d.at \notin {"start", "ask"}
  <2>1. Moves(p)
    BY <1>1, AnswerMoves
  <2> QED  BY <1>2, <2>1 DEF Moves
<1>4. Before' = Before /\ Paying' = Paying \ {p} /\ p \in Paying /\ Paying \subseteq Process
  BY <1>1, <1>2, <1>3 DEF Becomes, Before, Paying
<1>5. Due(Paying)' = Due(Paying) - MaxSpend /\ Due(Paying) \in Nat
  BY <1>4, OneLess, Counting DEF Due
<1>6. PICK n \in Nat : n <= MaxSpend /\ tokens' = tokens + n /\ spent' = spent + n /\ calls' = calls
  BY <1>1 DEF Answers, finishWorkerRun, Spending
<1>7. tokens' + Due(Paying)' <= tokens + Due(Paying) /\ spent' + Due(Paying)' <= spent + Due(Paying)
  BY <1>1, <1>5, <1>6
<1>8. Concurrent' = Concurrent /\ Concurrent \in Nat
  BY AtMostConcurrent DEF Concurrent, SpendInv
<1>9. /\ tokens' + Due(Paying)' \in Int /\ spent' + Due(Paying)' \in Int
      /\ tokens + Due(Paying) \in Int /\ spent + Due(Paying) \in Int
  BY <1>1, <1>5, <1>6
<1>10. /\ AtLeast0(MaxTokens - Estimate + Concurrent * MaxSpend) \in Int
       /\ AtLeast0(SessionCap - 1 + Concurrent * MaxSpend) \in Int
  BY <1>1, <1>8, Products, CycleAssumption DEF AtLeast0
<1> QED  BY <1>4, <1>6, <1>7, <1>8, <1>9, <1>10 DEF SpendInv, Reserved

\* What the gate reads leaves room for one more run of each process.
LEMMA GateReserves ==
  ASSUME SpendInv, Alone', check, UNCHANGED rows, setting' = setting,
         process' \in [Process -> Doing]
  PROVE  Reserved'
<1>1. /\ calls \in Nat /\ tokens \in Nat /\ spent \in Nat /\ MaxSpend \in Nat
      /\ MaxCalls \in Nat /\ MaxTokens \in Nat /\ Estimate \in Nat /\ SessionCap \in Nat
  BY CycleAssumption DEF SpendInv, Inv, TypeOK
<1>2. /\ Concurrent' \in Nat /\ Cardinality(Paying') <= Concurrent'
      /\ Due(Paying') <= Concurrent' * MaxSpend
  BY AtMostConcurrent
<1>3. /\ Before' \subseteq Paying' /\ Paying' \subseteq Process
  BY DEF Before, Paying
<1>4. /\ Cardinality(Before') <= Cardinality(Paying') /\ Cardinality(Before') \in Nat
      /\ Cardinality(Paying') \in Nat /\ Due(Paying') \in Nat
  BY <1>3, Counting
<1>5. Due(Paying') = Due(Paying)'
  BY DEF Due
<1>6. Concurrent' * MaxSpend \in Nat
  BY <1>1, <1>2, Products
<1>7. calls <= MaxCalls - 1 /\ tokens <= MaxTokens - Estimate /\ spent <= SessionCap - 1
  BY <1>1 DEF check
<1>8. /\ calls + Cardinality(Before') <= MaxCalls - 1 + Concurrent'
      /\ tokens + Due(Paying)' <= MaxTokens - Estimate + Concurrent' * MaxSpend
      /\ spent + Due(Paying)' <= SessionCap - 1 + Concurrent' * MaxSpend
  BY <1>1, <1>2, <1>4, <1>5, <1>6, <1>7
<1>9. \A x, y \in Int : x <= y => x <= AtLeast0(y)
  BY DEF AtLeast0
<1>10. /\ calls + Cardinality(Before') \in Int /\ tokens + Due(Paying)' \in Int
       /\ spent + Due(Paying)' \in Int /\ MaxCalls - 1 + Concurrent' \in Int
       /\ MaxTokens - Estimate + Concurrent' * MaxSpend \in Int
       /\ SessionCap - 1 + Concurrent' * MaxSpend \in Int
  BY <1>1, <1>2, <1>4, <1>5, <1>6
<1>11. /\ calls + Cardinality(Before') <= AtLeast0(MaxCalls - 1 + Concurrent')
       /\ tokens + Due(Paying)' <= AtLeast0(MaxTokens - Estimate + Concurrent' * MaxSpend)
       /\ spent + Due(Paying)' <= AtLeast0(SessionCap - 1 + Concurrent' * MaxSpend)
  BY <1>8, <1>9, <1>10
<1> QED  BY <1>11 DEF Reserved, rows

\* What nobody comes to owe stays within what was reserved, and time gives back.
LEMMA LessReserves ==
  ASSUME SpendInv, Before' \subseteq Before, Paying' \subseteq Paying, setting' = setting,
         calls' \in Nat, tokens' \in Nat, spent' \in Nat,
         calls' <= calls, tokens' <= tokens, spent' <= spent
  PROVE  Reserved'
<1>1. calls \in Nat /\ tokens \in Nat /\ spent \in Nat /\ MaxSpend \in Nat
  BY CycleAssumption DEF SpendInv, Inv, TypeOK
<1>2. Before \subseteq Process /\ Paying \subseteq Process
  BY DEF Before, Paying
<1>3. /\ Cardinality(Before') <= Cardinality(Before) /\ Cardinality(Before') \in Nat
      /\ Cardinality(Before) \in Nat
      /\ Due(Paying') <= Due(Paying) /\ Due(Paying') \in Nat /\ Due(Paying) \in Nat
  BY <1>2, Counting
<1>4. Due(Paying') = Due(Paying)' /\ Concurrent' = Concurrent /\ Concurrent \in Nat
  BY AtMostConcurrent DEF Due, Concurrent, SpendInv
<1>5. /\ AtLeast0(MaxCalls - 1 + Concurrent) \in Int
      /\ AtLeast0(MaxTokens - Estimate + Concurrent * MaxSpend) \in Int
      /\ AtLeast0(SessionCap - 1 + Concurrent * MaxSpend) \in Int
  BY <1>1, <1>4, Products, CycleAssumption DEF AtLeast0
<1>6. /\ calls' + Cardinality(Before') <= calls + Cardinality(Before)
      /\ tokens' + Due(Paying)' <= tokens + Due(Paying)
      /\ spent' + Due(Paying)' <= spent + Due(Paying)
  BY <1>1, <1>3, <1>4
<1>7. /\ calls + Cardinality(Before) <= AtLeast0(MaxCalls - 1 + Concurrent)
      /\ tokens + Due(Paying) <= AtLeast0(MaxTokens - Estimate + Concurrent * MaxSpend)
      /\ spent + Due(Paying) <= AtLeast0(SessionCap - 1 + Concurrent * MaxSpend)
  BY DEF SpendInv, Reserved
<1>8. /\ calls' + Cardinality(Before') <= AtLeast0(MaxCalls - 1 + Concurrent)
      /\ tokens' + Due(Paying)' <= AtLeast0(MaxTokens - Estimate + Concurrent * MaxSpend)
      /\ spent' + Due(Paying)' <= AtLeast0(SessionCap - 1 + Concurrent * MaxSpend)
  BY <1>1, <1>3, <1>4, <1>5, <1>6, <1>7
<1> QED  BY <1>4, <1>8 DEF Reserved

LEMMA SpendInvInitially ==
  ASSUME Init  PROVE SpendInv
<1>1. Inv
  BY InvInitially
<1>2. Alone
  BY DEF Init, Alone
<1>3. Before = {} /\ Paying = {} /\ Due({}) = 0
  <2>1. Gone.at = "rest"
    BY Idling
  <2> QED  BY <2>1, FS_EmptySet, CycleAssumption DEF Init, Before, Paying, Due
<1>4. Concurrent \in Nat
  BY <1>2, AtMostConcurrent
<1>5. /\ AtLeast0(MaxCalls - 1 + Concurrent) >= 0
      /\ AtLeast0(MaxTokens - Estimate + Concurrent * MaxSpend) >= 0
      /\ AtLeast0(SessionCap - 1 + Concurrent * MaxSpend) >= 0
  BY <1>4, Products, CycleAssumption DEF AtLeast0
<1>6. Reserved
  BY <1>3, <1>5, FS_EmptySet DEF Init, Reserved
<1> QED  BY <1>1, <1>2, <1>6 DEF SpendInv

LEMMA SpendInvStays ==
  ASSUME SpendInv, [Next]_vars  PROVE SpendInv'
<1>1. /\ Inv /\ Inv' /\ Alone'
      /\ calls \in Nat /\ tokens \in Nat /\ spent \in Nat
      /\ calls' \in Nat /\ tokens' \in Nat /\ spent' \in Nat
      /\ process \in [Process -> Doing] /\ process' \in [Process -> Doing]
  BY InvStays, AloneStays DEF SpendInv, Inv, TypeOK
<1>2. CASE UNCHANGED vars
  BY <1>1, <1>2, LessReserves DEF SpendInv, vars, rows, Before, Paying
<1>3. ASSUME NEW n \in Spending, HourPasses(n)  PROVE Reserved'
  <2>1. n \in Nat /\ calls' <= calls /\ tokens' <= tokens /\ spent' = spent
    BY <1>1, <1>3, CycleAssumption DEF HourPasses, Spending
  <2> QED  BY <1>1, <1>3, <2>1, LessReserves DEF HourPasses, Before, Paying
<1>4. ASSUME Next, NEW p \in Process, Own(p)  PROVE Reserved'
  <2>1. setting' = setting
    BY <1>4, SettingStays
  <2>2. CASE StartsRun(p)
    BY <2>1, <2>2, StartReserves
  <2>3. CASE Answers(p)
    BY <2>1, <2>3, AnswerReserves
  <2>4. CASE UNCHANGED rows
    <3>1. PICK d \in Doing : /\ Becomes(p, d)
                             /\ d.at = "ask" => process[p].at = "start"
                             /\ d.at = "start" => check
      BY <1>1, <1>4, OwnMoves DEF Moves
    <3>2. CASE d.at = "start"
      BY <1>1, <2>1, <2>4, <3>1, <3>2, GateReserves
    <3>3. CASE d.at # "start"
      <4>1. Before' \subseteq Before /\ Paying' \subseteq Paying
        BY <1>1, <3>1, <3>3 DEF Becomes, Before, Paying
      <4> QED  BY <1>1, <2>1, <2>4, <4>1, LessReserves DEF rows
    <3> QED  BY <3>2, <3>3
  <2> QED  BY <1>4, <2>2, <2>3, <2>4, OwnRows
<1> QED  BY <1>1, <1>2, <1>3, <1>4, SomebodyOrTheClock DEF SpendInv

-----------------------------------------------------------------------------
(* Theorems. *)

\* Every variable keeps its type, whatever the commands, the answers and the crashes
\* are; in particular the rows of an hour never count below those under way.
THEOREM TypeCorrect == Spec => []TypeOK
<1>1. Inv => TypeOK
  BY DEF Inv
<1> QED  BY <1>1, CycleInvariant, PTL

\* A hook never has a model asked, however high the pressure (cli/index.ts), and under
\* privacy.local_only no process asks a provider that is not on this machine.
THEOREM NobodyAsks == Spec => []NobodyAsksUnasked
<1>1. Inv => NobodyAsksUnasked
  BY DEF Inv, AllGood, Good, NobodyAsksUnasked
<1> QED  BY <1>1, CycleInvariant, PTL

\* Every way out of ContextManager.cycle leaves the state machine at IDLE, as long as
\* no call of the store throws.
THEOREM MachineRests == Spec => []AtRestWhenCalm
<1>1. Inv => AtRestWhenCalm
  BY DEF Inv, AllGood, Good, Expected, AtRestWhenCalm
<1> QED  BY <1>1, CycleInvariant, PTL

\* Whatever answers cost and however processes interleave and die, calls and tokens of an
\* hour and the cost of the session stay within the budget and one run for each process
\* that may be at work: what the gate (CostController.check) does not see yet is bounded.
THEOREM BudgetHolds == Spec => []SpendingIsBounded
<1>1. SpendInv => SpendingIsBounded
  <2> SUFFICES ASSUME SpendInv  PROVE SpendingIsBounded
    OBVIOUS
  <2>1. Before \subseteq Process /\ Paying \subseteq Process
    BY DEF Before, Paying
  <2>2. Cardinality(Before) \in Nat /\ Due(Paying) \in Nat
    BY <2>1, Counting
  <2>3. calls \in Nat /\ tokens \in Nat /\ spent \in Nat /\ MaxSpend \in Nat
    BY CycleAssumption DEF SpendInv, Inv, TypeOK
  <2>4. Concurrent \in Nat
    BY AtMostConcurrent DEF SpendInv
  <2>5. /\ AtLeast0(MaxCalls - 1 + Concurrent) \in Int
        /\ AtLeast0(MaxTokens - Estimate + Concurrent * MaxSpend) \in Int
        /\ AtLeast0(SessionCap - 1 + Concurrent * MaxSpend) \in Int
    BY <2>3, <2>4, Products, CycleAssumption DEF AtLeast0
  <2> QED  BY <2>2, <2>3, <2>5 DEF SpendInv, Reserved, SpendingIsBounded
<1> QED  BY <1>1, SpendInvInitially, SpendInvStays, PTL DEF Spec

=============================================================================
