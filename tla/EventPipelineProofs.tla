------------------------- MODULE EventPipelineProofs -------------------------
(***************************************************************************)
(* The safety of the pipeline for any number of records, processes and     *)
(* workers, whatever the engine and the fold decide, and whoever dies; and *)
(* of what is made of a session's traffic that came in by it: the known    *)
(* issues it leaves, and that the loops status shows are all there are.    *)
(***************************************************************************)
EXTENDS EventPipeline, Traffic, FiniteSetTheorems, SequenceTheorems, TLAPS

-----------------------------------------------------------------------------
(* The inductive invariant. *)

\* What a process holds agrees with how far it is: only a process that still screens
\* has records to do, one that marks has marks, and a cursor is on a line's start.
LineStart(offset) == offset <= 2 * Records /\ \E k \in Nat : offset = 2 * k
WellFormed(run) ==
  \/ run = Idle
  \/ /\ run \in Busy
     /\ run.pc = "insert" => run.todo # {}
     /\ run.pc \in {"mark", "shed", "cursor"} => run.todo = {}
     /\ run.pc = "mark" => run.marks # <<>>
     /\ run.pc = "cursor" => run.offset # None
     /\ run.offset # None => LineStart(run.offset)
Shape == LineStart(cursor) /\ \A p \in Process : WellFormed(proc[p])

TypeInv == TypeOK /\ Shape

\* The history agrees with the table, and what a process accepted was stored.
Known(r) == r \in Stored \/ r \in closed
TableIsTrue ==
  /\ \A r \in Stored : events[r].done => r \in closed
  /\ \A p \in Process : proc[p] # Idle => \A r \in proc[p].accepted : Known(r)

\* The cursor a tailer is about to write is as safe as the one there is: what is
\* before it is accounted for, or is what the tailer still has to do.
Accounted(r) == r \in Stored \/ Action[r] = "discard" \/ r \in closed
OffsetIsSafe ==
  \A p \in Process : proc[p] # Idle /\ proc[p].offset # None =>
    \A r \in Record : 2 * r <= proc[p].offset => r \in proc[p].todo \/ Accounted(r)

\* A worker that is to close its batch has committed a patch built from it.
MarkedIsDerived ==
  \A w \in Worker : worker[w].pc = "mark" => worker[w].batch \subseteq derived

Inv == TypeInv /\ TableIsTrue /\ NothingLost /\ OffsetIsSafe /\ FoldedByOne /\ MarkedIsDerived

-----------------------------------------------------------------------------
\* Some record of any non-empty set is the oldest, so Min picks one of the set:
\* among the non-empty subsets with no least member, a smallest one would lose a
\* member and still have none.
LEMMA OldestIsAMember ==
  ASSUME NEW S \in SUBSET Record, S # {}
  PROVE  Min(S) \in S
<1> DEFINE NoLeast == {A \in SUBSET S : A # {} /\ ~ \E i \in A : \A j \in A : i <= j}
<1>1. Records \in Nat /\ S \subseteq Nat /\ IsFiniteSet(S)
  <2>1. Records \in Nat
    BY PipelineAssumption
  <2>2. IsFiniteSet(1 .. Records)
    BY <2>1, FS_Interval
  <2>3. S \in SUBSET (1 .. Records)
    BY DEF Record
  <2>4. IsFiniteSet(S)
    BY <2>2, <2>3, FS_Subset
  <2>5. S \subseteq Nat
    BY <2>1, <2>3
  <2>. QED BY <2>1, <2>4, <2>5
<1>2. CASE NoLeast = {}
  BY <1>2 DEF Min
<1>3. CASE NoLeast # {}
  <2>1. PICK A \in NoLeast : \A B \in NoLeast : ~(<<B, A>> \in StrictSubsetOrdering(S))
    <3>1. NoLeast \subseteq FiniteSubsetsOf(S)
      BY <1>1, FS_Subset DEF FiniteSubsetsOf
    <3>. QED BY <1>3, <3>1, WFMin, FS_StrictSubsetOrderingWellFounded
  <2>2. PICK a \in A : TRUE
    OBVIOUS
  <2>3. A \ {a} \notin NoLeast
    BY <2>1, <2>2 DEF StrictSubsetOrdering
  <2>4. PICK m \in A \ {a} : \A j \in A \ {a} : m <= j
    <3>1. A \ {a} # {}
      BY <1>1, <2>2
    <3>. QED BY <2>3, <3>1
  <2>5. a \in Nat /\ m \in Nat /\ \A j \in A : j \in Nat
    BY <1>1, <2>2, <2>4
  <2>6. \E i \in A : \A j \in A : i <= j
    BY <2>2, <2>4, <2>5
  <2>. QED BY <2>6
<1>. QED BY <1>2, <1>3

-----------------------------------------------------------------------------
(* Types. *)

\* The states start well typed, with no cursor but the one at the start of the file.
LEMMA TypeInvInit == Init => TypeInv
<1> SUFFICES ASSUME Init PROVE TypeInv
  OBVIOUS
<1>1. Records \in Nat /\ MaxStarts \in Nat
  BY PipelineAssumption
<1>2. TypeOK
  BY <1>1 DEF Init, TypeOK
<1>3. LineStart(cursor)
  <2>1. cursor = 2 * 0 /\ cursor <= 2 * Records
    BY <1>1 DEF Init
  <2>. QED BY <2>1 DEF LineStart
<1>4. \A p \in Process : proc[p] = Idle
  BY DEF Init
<1>. QED BY <1>2, <1>3, <1>4 DEF TypeInv, Shape, WellFormed

\* A process that is past its start is busy.
LEMMA NotIdle ==
  ASSUME TypeOK, NEW p \in Process, proc[p].pc # "idle"
  PROVE  proc[p] \in Busy /\ proc[p] # Idle
BY DEF TypeOK, Idle

\* When one process moves to a well-formed state, all are well formed.
LEMMA OneProcessMoves ==
  ASSUME TypeInv, NEW p \in Process, NEW run, WellFormed(run), proc' = [proc EXCEPT ![p] = run]
  PROVE  /\ proc' \in [Process -> {Idle} \cup Busy]
         /\ \A q \in Process : WellFormed(proc'[q])
BY DEF TypeInv, TypeOK, Shape, WellFormed

\* Folding and marking leave a process closing the marks there are, or going on
\* past them.
LEMMA ClosingWellFormed ==
  ASSUME NEW run \in Busy, WellFormed(run), NEW marks \in Seq(Mark), run.todo = {}
  PROVE  LET next == Closing(run, marks)
         IN  /\ WellFormed(next)
             /\ next # Idle => /\ next.todo = {} /\ next.accepted = {}
                               /\ next.offset = run.offset /\ next.refold = run.refold
<1>1. run # Idle
  BY DEF Busy, Idle
<1>2. run.offset # None => LineStart(run.offset)
  BY <1>1 DEF WellFormed
<1>3. CASE marks # <<>>
  <2> DEFINE next == [run EXCEPT !.pc = "mark", !.accepted = {}, !.marks = marks]
  <2>1. next \in Busy /\ next.pc = "mark" /\ next.marks = marks /\ next.todo = {} /\ next.accepted = {}
        /\ next.offset = run.offset /\ next.refold = run.refold
    BY DEF Busy
  <2>2. Closing(run, marks) = next
    BY <1>3 DEF Closing
  <2>. QED BY <1>2, <1>3, <2>1, <2>2 DEF WellFormed
<1>4. CASE marks = <<>> /\ ~run.refold
  <2> DEFINE next == [run EXCEPT !.pc = "shed", !.accepted = {}, !.marks = <<>>]
  <2>0. <<>> \in Seq(Mark)
    OBVIOUS
  <2>1. next \in Busy /\ next.pc = "shed" /\ next.todo = {} /\ next.accepted = {}
        /\ next.offset = run.offset /\ next.refold = run.refold
    BY <2>0 DEF Busy
  <2>2. Closing(run, marks) = next
    BY <1>4 DEF Closing
  <2>. QED BY <1>2, <2>1, <2>2 DEF WellFormed
<1>5. CASE marks = <<>> /\ run.refold
  BY <1>5 DEF Closing, WellFormed
<1>. QED BY <1>3, <1>4, <1>5 DEF Busy

\* Closing rows keeps the table's rows, types and history.
LEMMA CloseTyped ==
  ASSUME TypeOK, NEW ids \in SUBSET Record, NEW inert \in BOOLEAN, Close(ids, inert)
  PROVE  /\ DOMAIN events' = Stored /\ events' \in [Stored -> Event]
         /\ closed' = closed \cup (ids \cap Stored) /\ closed' \subseteq Record
         /\ \A r \in Stored : r \in ids => events'[r].done
         /\ \A r \in Stored : r \in ids => events'[r].inert = (events[r].inert \/ inert)
         /\ \A r \in Stored : r \notin ids => events'[r] = events[r]
BY DEF TypeOK, Close, Stored, Event

\* What there is to close is a sequence of sets of records.
LEMMA MarksTyped ==
  ASSUME NEW ids \in SUBSET Record, NEW inert \in BOOLEAN
  PROVE  MarkAll(ids, inert) \in Seq(Mark)
<1>1. [inert |-> inert, ids |-> ids] \in Mark
  BY DEF Mark
<1>. QED BY <1>1 DEF MarkAll

\* No step leaves the table, a process or a worker malformed.
LEMMA TypeInvStep == TypeInv /\ [Next]_vars => TypeInv'
<1> SUFFICES ASSUME TypeInv, [Next]_vars PROVE TypeInv'
  OBVIOUS
<1>a. Records \in Nat /\ MaxStarts \in Nat /\ None \notin Nat
  BY PipelineAssumption
<1>b. TypeOK /\ Shape /\ LineStart(cursor)
  BY DEF TypeInv, Shape
<1>1. CASE AgentWrites
  BY <1>a, <1>b, <1>1 DEF AgentWrites, TypeInv, TypeOK, Shape, Stored
<1>2. ASSUME NEW p \in Process, NEW todo \in SUBSET Record, NEW accepted \in SUBSET Record,
             NEW offset \in Nat \cup {None}, NEW refold \in BOOLEAN,
             offset # None => LineStart(offset),
             Starts(p, todo, accepted, offset, refold)
      PROVE  TypeInv'
  <2> DEFINE run == [pc |-> "screen", refold |-> refold, todo |-> todo, accepted |-> accepted,
                     marks |-> <<>>, offset |-> offset]
  <2>1. run \in Busy
    BY DEF Busy
  <2>2. WellFormed(run)
    BY <1>2, <2>1 DEF WellFormed
  <2>3. proc' = [proc EXCEPT ![p] = run] /\ starts' \in 0 .. MaxStarts
    BY <1>a, <1>b, <1>2 DEF Starts, TypeOK
  <2>. QED BY <1>2, <1>b, <2>2, <2>3, OneProcessMoves DEF Starts, TypeInv, TypeOK, Shape, Stored
<1>3. ASSUME NEW p \in Process, NEW r \in Record, HookStarts(p, r) PROVE TypeInv'
  BY <1>2, <1>3 DEF HookStarts
<1>4. ASSUME NEW p \in Process, NEW from \in {0, cursor}, TailStarts(p, from) PROVE TypeInv'
  <2>1. LineStart(from)
    <3>1. 0 = 2 * 0 /\ 0 <= 2 * Records
      BY <1>a
    <3>. QED BY <1>b, <3>1 DEF LineStart
  <2>2. ReadUpTo(from) \in Nat /\ LineStart(ReadUpTo(from))
    <3>1. size \in Nat /\ size <= 2 * Records
      BY <1>a, <1>b DEF TypeOK
    <3>2. size \div 2 \in Nat /\ 2 * (size \div 2) <= size
      BY <3>1
    <3>3. from \in Nat
      BY <1>a, <1>b DEF TypeOK
    <3>. QED BY <1>a, <2>1, <3>1, <3>2, <3>3 DEF ReadUpTo, LineStart
  <2>3. {r \in Record : 2 * (r - 1) >= from /\ 2 * r <= size} \in SUBSET Record
    OBVIOUS
  <2>. QED BY <1>2, <1>4, <2>2, <2>3 DEF TailStarts
<1>5. ASSUME NEW p \in Process, RefoldStarts(p) PROVE TypeInv'
  <2>1. Pending \in SUBSET Record
    BY <1>b DEF Pending, Stored, TypeOK
  <2>. QED BY <1>2, <1>5, <2>1 DEF RefoldStarts
<1>6. ASSUME NEW p \in Process, Screens(p) PROVE TypeInv'
  <2> DEFINE r == Min(proc[p].todo)
  <2>1. proc[p] \in Busy /\ proc[p] # Idle /\ WellFormed(proc[p]) /\ proc[p].pc = "screen"
    BY <1>b, <1>6, NotIdle DEF Screens, Shape
  <2>2. PICK run : /\ run = [proc[p] EXCEPT !.todo = @ \ {r}] \/ run = [proc[p] EXCEPT !.pc = "insert"]
                   /\ proc' = [proc EXCEPT ![p] = run]
    BY <1>6 DEF Screens, Advances
  <2>3. WellFormed(run)
    <3>1. run \in Busy /\ run.offset = proc[p].offset /\ run.pc \in {"screen", "insert"}
      BY <2>1, <2>2 DEF Busy
    <3>2. run.pc = "insert" => run.todo # {}
      BY <1>6, <2>1, <2>2 DEF Busy, Screens
    <3>. QED BY <2>1, <3>1, <3>2 DEF WellFormed
  <2>. QED BY <1>6, <1>b, <2>2, <2>3, OneProcessMoves DEF Screens, TypeInv, TypeOK, Shape, Stored
<1>7. ASSUME NEW p \in Process, Inserts(p) PROVE TypeInv'
  <2> DEFINE r == Min(proc[p].todo)
             run == [proc[p] EXCEPT !.todo = @ \ {r}, !.accepted = @ \cup Takes(r), !.pc = "screen"]
  <2>1. proc[p] \in Busy /\ proc[p] # Idle /\ WellFormed(proc[p]) /\ proc[p].pc = "insert"
    BY <1>b, <1>7, NotIdle DEF Inserts, Shape
  <2>2. r \in Record
    BY <2>1, OldestIsAMember DEF WellFormed, Busy
  <2>3. WellFormed(run) /\ proc' = [proc EXCEPT ![p] = run]
    <3>1. run \in Busy /\ run.offset = proc[p].offset /\ run.pc = "screen"
      BY <2>1, <2>2 DEF Busy, Takes
    <3>. QED BY <1>7, <2>1, <3>1 DEF WellFormed, Inserts
  <2>4. DOMAIN events' \subseteq Record /\ events' \in [DOMAIN events' -> Event]
    BY <1>7, <1>b, <2>2 DEF Inserts, TypeOK, Stored, Fresh, Event
  <2>. QED BY <1>7, <1>b, <2>3, <2>4, OneProcessMoves DEF Inserts, TypeInv, TypeOK, Shape, Stored
<1>8. ASSUME NEW p \in Process, FoldsSomehow(p) PROVE TypeInv'
  <2>1. PICK consumed \in SUBSET Record, inert \in SUBSET Record, accepted \in BOOLEAN :
          Folds(p, consumed, inert, accepted)
    BY <1>8 DEF FoldsSomehow
  <2>2. proc[p] \in Busy /\ WellFormed(proc[p]) /\ proc[p].todo = {}
    BY <1>b, <2>1, NotIdle DEF Folds, Shape
  <2>3. Leftover(p, consumed \cup inert) \in SUBSET Record
    BY <2>2 DEF Leftover, Busy
  <2> DEFINE marks == MarkAll(consumed, FALSE) \o MarkAll(inert, TRUE) \o MarkAll(Leftover(p, consumed \cup inert), TRUE)
  <2>4. marks \in Seq(Mark)
    <3>1. MarkAll(consumed, FALSE) \in Seq(Mark) /\ MarkAll(inert, TRUE) \in Seq(Mark)
          /\ MarkAll(Leftover(p, consumed \cup inert), TRUE) \in Seq(Mark)
      BY <2>3, MarksTyped
    <3>. QED BY <3>1, ConcatProperties
  <2>5. WellFormed(Closing(proc[p], marks)) /\ proc' = [proc EXCEPT ![p] = Closing(proc[p], marks)]
    BY <2>1, <2>2, <2>4, ClosingWellFormed DEF Folds
  <2>. QED BY <1>b, <2>1, <2>5, OneProcessMoves DEF Folds, TypeInv, TypeOK, Shape, Stored
<1>9. ASSUME NEW p \in Process, Marks(p) PROVE TypeInv'
  <2>1. proc[p] \in Busy /\ proc[p] # Idle /\ WellFormed(proc[p]) /\ proc[p].pc = "mark"
    BY <1>b, <1>9, NotIdle DEF Marks, Shape
  <2>2. proc[p].todo = {} /\ proc[p].marks \in Seq(Mark) /\ proc[p].marks # <<>>
    BY <2>1 DEF WellFormed, Busy
  <2>3. Head(proc[p].marks) \in Mark /\ Tail(proc[p].marks) \in Seq(Mark)
    BY <2>2
  <2>4. Close(Head(proc[p].marks).ids, Head(proc[p].marks).inert)
    BY <1>9 DEF Marks
  <2>5. DOMAIN events' = Stored /\ events' \in [Stored -> Event] /\ closed' \subseteq Record
    <3>1. Head(proc[p].marks).ids \in SUBSET Record /\ Head(proc[p].marks).inert \in BOOLEAN
      BY <2>3 DEF Mark
    <3>. QED BY <1>b, <2>4, <3>1, CloseTyped
  <2>6. WellFormed(Closing(proc[p], Tail(proc[p].marks)))
        /\ proc' = [proc EXCEPT ![p] = Closing(proc[p], Tail(proc[p].marks))]
    BY <1>9, <2>1, <2>2, <2>3, ClosingWellFormed DEF Marks
  <2>. QED BY <1>9, <1>b, <2>5, <2>6, OneProcessMoves DEF Marks, TypeInv, TypeOK, Shape, Stored
<1>10. ASSUME NEW p \in Process, Sheds(p) PROVE TypeInv'
  <2>1. proc[p] \in Busy /\ proc[p] # Idle /\ WellFormed(proc[p]) /\ proc[p].pc = "shed"
    BY <1>b, <1>10, NotIdle DEF Sheds, Shape
  <2>2. First(Cardinality(Pending) - MaxQueue, Pending \cap Low) \in SUBSET Record
    BY <1>b DEF First, Pending, Stored, TypeOK
  <2>3. DOMAIN events' = Stored /\ events' \in [Stored -> Event] /\ closed' \subseteq Record
    <3>1. Close(First(Cardinality(Pending) - MaxQueue, Pending \cap Low), FALSE)
      BY <1>10 DEF Sheds
    <3>. QED BY <1>b, <2>2, <3>1, CloseTyped
  <2>4. WellFormed(AfterShedding(proc[p]))
    <3>1. CASE proc[p].offset = None
      BY <3>1 DEF AfterShedding, WellFormed
    <3>2. CASE proc[p].offset # None
      <4> DEFINE run == [proc[p] EXCEPT !.pc = "cursor"]
      <4>1. run \in Busy /\ run.pc = "cursor" /\ run.offset = proc[p].offset /\ run.todo = proc[p].todo
        BY <2>1 DEF Busy
      <4>. QED BY <2>1, <3>2, <4>1 DEF AfterShedding, WellFormed
    <3>. QED BY <3>1, <3>2
  <2>5. proc' = [proc EXCEPT ![p] = AfterShedding(proc[p])]
    BY <1>10 DEF Sheds
  <2>. QED BY <1>10, <1>b, <2>3, <2>4, <2>5, OneProcessMoves DEF Sheds, TypeInv, TypeOK, Shape, Stored
<1>11. ASSUME NEW p \in Process, SetsCursor(p) \/ Crashes(p) PROVE TypeInv'
  <2>1. proc' = [proc EXCEPT ![p] = Idle] /\ WellFormed(Idle)
    BY <1>11 DEF SetsCursor, Crashes, WellFormed
  <2>2. cursor' \in 0 .. 2 * Records /\ LineStart(cursor')
    <3>1. CASE Crashes(p)
      BY <1>b, <3>1 DEF Crashes, TypeOK
    <3>2. CASE SetsCursor(p)
      <4>1. proc[p] \in Busy /\ WellFormed(proc[p]) /\ proc[p] # Idle /\ proc[p].pc = "cursor"
        BY <1>b, <3>2, NotIdle DEF SetsCursor, Shape
      <4>2. proc[p].offset \in Nat /\ LineStart(proc[p].offset)
        BY <4>1 DEF WellFormed, Busy
      <4>. QED BY <1>a, <3>2, <4>2 DEF SetsCursor, LineStart
    <3>. QED BY <1>11, <3>1, <3>2
  <2>. QED BY <1>11, <1>b, <2>1, <2>2, OneProcessMoves DEF SetsCursor, Crashes, TypeInv, TypeOK, Shape, Stored
<1>12. ASSUME NEW w \in Worker, WorkerReads(w) PROVE TypeInv'
  <2>1. First(MaxBatch, Pending) \in SUBSET Record
    BY <1>b DEF First, Pending, Stored, TypeOK
  <2>2. [pc |-> "asking", batch |-> First(MaxBatch, Pending)] \in Run
    BY <2>1 DEF Run
  <2>. QED BY <1>12, <1>b, <2>2 DEF WorkerReads, TypeInv, TypeOK, Shape, Stored
<1>13. ASSUME NEW w \in Worker, WorkerCommits(w) PROVE TypeInv'
  <2>1. worker[w] \in Run
    BY <1>13, <1>b DEF WorkerCommits, TypeOK, Idle
  <2>2. [worker[w] EXCEPT !.pc = "mark"] \in Run /\ worker[w].batch \subseteq Record
    BY <2>1 DEF Run
  <2>. QED BY <1>13, <1>b, <2>2 DEF WorkerCommits, TypeInv, TypeOK, Shape, Stored
<1>14. ASSUME NEW w \in Worker, WorkerMarks(w) \/ WorkerFindsNothing(w) PROVE TypeInv'
  <2>1. worker[w] \in Run
    <3>1. worker[w].pc # "idle"
      BY <1>14 DEF WorkerMarks, WorkerFindsNothing
    <3>. QED BY <3>1, <1>b DEF TypeOK, Idle
  <2>2. worker[w].batch \in SUBSET Record
    BY <2>1 DEF Run
  <2>3. Close(worker[w].batch, FALSE) \/ Close(worker[w].batch, TRUE)
    BY <1>14 DEF WorkerMarks, WorkerFindsNothing, ClosesEmptyHanded
  <2>4. DOMAIN events' = Stored /\ events' \in [Stored -> Event] /\ closed' \subseteq Record
    BY <1>b, <2>2, <2>3, CloseTyped
  <2>5. worker' = [worker EXCEPT ![w] = Idle]
        /\ size' = size /\ cursor' = cursor /\ proc' = proc /\ starts' = starts /\ derived' = derived
    BY <1>14 DEF WorkerMarks, WorkerFindsNothing
  <2>. QED BY <1>b, <2>4, <2>5 DEF TypeInv, TypeOK, Shape, Stored
<1>15. ASSUME NEW w \in Worker, WorkerFails(w) PROVE TypeInv'
  BY <1>15, <1>b DEF WorkerFails, TypeInv, TypeOK, Shape, Stored
<1>16. ASSUME NEW horizon \in 2 .. Records + 1, PruneRawEvents(horizon) PROVE TypeInv'
  <2>1. DOMAIN events' \subseteq Stored /\ events' \in [DOMAIN events' -> Event]
    BY <1>16, <1>b DEF PruneRawEvents, Restrict, TypeOK, Stored
  <2>. QED BY <1>16, <1>b, <2>1 DEF PruneRawEvents, TypeInv, TypeOK, Shape, Stored
<1>17. CASE UNCHANGED vars
  BY <1>17, <1>b DEF vars, TypeInv, TypeOK, Shape, Stored
<1>. QED
  BY <1>1, <1>3, <1>4, <1>5, <1>6, <1>7, <1>8, <1>9, <1>10, <1>11, <1>12, <1>13, <1>14, <1>15, <1>16, <1>17
  DEF Next, Continues, WorkerAnswers

\* Every reachable state of the pipeline is well typed: no row, process or worker
\* is left malformed by any interleaving of their steps, or by a crash among them.
THEOREM TypeCorrect == Spec => []TypeOK
<1>1. TypeInv => TypeOK
  BY DEF TypeInv
<1>. QED BY <1>1, TypeInvInit, TypeInvStep, PTL DEF Spec

-----------------------------------------------------------------------------
(* What a step can do to the table, and to one process. *)

StoresRow(r) ==
  /\ events' = [e \in Stored \cup {r} |-> IF e \in Stored THEN events[e] ELSE Fresh]
  /\ closed' = closed

\* A step stores one row, closes some, prunes some, or leaves the table alone.
LEMMA TableMoves ==
  ASSUME TypeInv, [Next]_vars
  PROVE  \/ events' = events /\ closed' = closed
         \/ \E r \in Record : StoresRow(r)
         \/ \E ids \in SUBSET Record, inert \in BOOLEAN : Close(ids, inert)
         \/ \E horizon \in 2 .. Records + 1 : PruneRawEvents(horizon)
<1> DEFINE Goal == \/ events' = events /\ closed' = closed
                   \/ \E r \in Record : StoresRow(r)
                   \/ \E ids \in SUBSET Record, inert \in BOOLEAN : Close(ids, inert)
                   \/ \E horizon \in 2 .. Records + 1 : PruneRawEvents(horizon)
<1>b. TypeOK /\ Shape
  BY DEF TypeInv
<1>1. CASE AgentWrites \/ UNCHANGED vars
  BY <1>1 DEF AgentWrites, vars
<1>2. ASSUME NEW p \in Process, \/ \E r \in Record : HookStarts(p, r)
                                \/ \E from \in {0, cursor} : TailStarts(p, from)
                                \/ RefoldStarts(p)
      PROVE  Goal
  BY <1>2 DEF HookStarts, TailStarts, RefoldStarts, Starts
<1>3. ASSUME NEW p \in Process, Screens(p) \/ SetsCursor(p) \/ Crashes(p) \/ FoldsSomehow(p) PROVE Goal
  BY <1>3 DEF Screens, SetsCursor, Crashes, FoldsSomehow, Folds
<1>4. ASSUME NEW p \in Process, Inserts(p) PROVE Goal
  <2>1. WellFormed(proc[p]) /\ proc[p] # Idle /\ proc[p].pc = "insert"
    BY <1>b, <1>4, NotIdle DEF Inserts, Shape
  <2>2. Min(proc[p].todo) \in Record
    BY <2>1, OldestIsAMember DEF WellFormed, Busy
  <2>3. StoresRow(Min(proc[p].todo))
    BY <1>4 DEF Inserts, StoresRow
  <2>. QED BY <2>2, <2>3
<1>5. ASSUME NEW p \in Process, Marks(p) PROVE Goal
  <2>1. WellFormed(proc[p]) /\ proc[p] \in Busy /\ proc[p] # Idle /\ proc[p].pc = "mark"
    BY <1>b, <1>5, NotIdle DEF Marks, Shape
  <2>2. Head(proc[p].marks) \in Mark
    <3>1. proc[p].marks \in Seq(Mark) /\ proc[p].marks # <<>>
      BY <2>1 DEF WellFormed, Busy
    <3>. QED BY <3>1
  <2>3. Head(proc[p].marks).ids \in SUBSET Record /\ Head(proc[p].marks).inert \in BOOLEAN
    BY <2>2 DEF Mark
  <2>. QED BY <1>5, <2>3 DEF Marks
<1>6. ASSUME NEW p \in Process, Sheds(p) PROVE Goal
  <2>1. First(Cardinality(Pending) - MaxQueue, Pending \cap Low) \in SUBSET Record
    BY <1>b DEF First, Pending, Stored, TypeOK
  <2>. QED BY <1>6, <2>1 DEF Sheds
<1>7. ASSUME NEW w \in Worker, WorkerReads(w) \/ WorkerCommits(w) \/ WorkerFails(w) PROVE Goal
  BY <1>7 DEF WorkerReads, WorkerCommits, WorkerFails
<1>8. ASSUME NEW w \in Worker, WorkerMarks(w) \/ WorkerFindsNothing(w) PROVE Goal
  <2>1. worker[w] \in Run
    <3>1. worker[w].pc # "idle"
      BY <1>8 DEF WorkerMarks, WorkerFindsNothing
    <3>. QED BY <3>1, <1>b DEF TypeOK, Idle
  <2>2. worker[w].batch \in SUBSET Record
    BY <2>1 DEF Run
  <2>3. Close(worker[w].batch, FALSE) \/ Close(worker[w].batch, TRUE)
    BY <1>8 DEF WorkerMarks, WorkerFindsNothing, ClosesEmptyHanded
  <2>. QED BY <2>2, <2>3
<1>9. CASE \E horizon \in 2 .. Records + 1 : PruneRawEvents(horizon)
  BY <1>9
<1> HIDE DEF Goal
<1>10. Goal
  BY <1>1, <1>2, <1>3, <1>4, <1>5, <1>6, <1>7, <1>8, <1>9 DEF Next, Continues, WorkerAnswers, Goal
<1>. QED BY <1>10 DEF Goal

ProcessSteps(p) ==
  \/ \E r \in Record : HookStarts(p, r)
  \/ \E from \in {0, cursor} : TailStarts(p, from)
  \/ RefoldStarts(p) \/ Continues(p) \/ FoldsSomehow(p) \/ Crashes(p)

\* A process moves by a step of its own, and alone.
LEMMA OneAtATime ==
  ASSUME TypeInv, [Next]_vars, NEW p \in Process, proc'[p] # proc[p]
  PROVE  ProcessSteps(p) /\ \A q \in Process \ {p} : proc'[q] = proc[q]
<1>1. proc' # proc
  OBVIOUS
<1>2. ~AgentWrites /\ ~UNCHANGED vars
  BY <1>1 DEF AgentWrites, vars
<1>3. \A w \in Worker : ~WorkerReads(w) /\ ~WorkerAnswers(w) /\ ~WorkerMarks(w) /\ ~WorkerFails(w)
  BY <1>1 DEF WorkerReads, WorkerAnswers, WorkerCommits, WorkerFindsNothing, WorkerMarks, WorkerFails
<1>4. \A horizon : ~PruneRawEvents(horizon)
  BY <1>1 DEF PruneRawEvents
<1>5. PICK q \in Process : ProcessSteps(q)
  BY <1>2, <1>3, <1>4 DEF Next, ProcessSteps
<1>6. \A x \in Process \ {q} : proc'[x] = proc[x]
  <2>1. proc \in [Process -> {Idle} \cup Busy]
    BY DEF TypeInv, TypeOK
  <2>2. \E run : proc' = [proc EXCEPT ![q] = run]
    BY <1>5 DEF ProcessSteps, HookStarts, TailStarts, RefoldStarts, Starts, Continues, Screens, Advances,
                Inserts, Marks, Sheds, SetsCursor, Crashes, FoldsSomehow, Folds
  <2>. QED BY <2>1, <2>2
<1>7. q = p
  BY <1>6
<1>. QED BY <1>5, <1>6, <1>7

-----------------------------------------------------------------------------
(* The rest of the invariant. *)

\* A row goes only once it has been resolved, and what was resolved is remembered.
LEMMA RowsAreKnown ==
  ASSUME TypeInv, TableIsTrue, [Next]_vars
  PROVE  /\ closed \subseteq closed'
         /\ Stored \subseteq Stored' \cup closed'
         /\ \A r \in Stored' : events'[r].done => r \in closed'
<1>b. TypeOK
  BY DEF TypeInv
<1>1. CASE events' = events /\ closed' = closed
  BY <1>1 DEF TableIsTrue, Stored
<1>2. ASSUME NEW r \in Record, StoresRow(r)
      PROVE  /\ closed \subseteq closed'
             /\ Stored \subseteq Stored' \cup closed'
             /\ \A x \in Stored' : events'[x].done => x \in closed'
  BY <1>2 DEF StoresRow, TableIsTrue, Stored, Fresh
<1>3. ASSUME NEW ids \in SUBSET Record, NEW inert \in BOOLEAN, Close(ids, inert)
      PROVE  /\ closed \subseteq closed'
             /\ Stored \subseteq Stored' \cup closed'
             /\ \A x \in Stored' : events'[x].done => x \in closed'
  <2>1. /\ DOMAIN events' = Stored
        /\ closed' = closed \cup (ids \cap Stored)
        /\ \A r \in Stored : r \notin ids => events'[r] = events[r]
    BY <1>b, <1>3, CloseTyped
  <2>. QED BY <2>1 DEF TableIsTrue, Stored
<1>4. ASSUME NEW horizon \in 2 .. Records + 1, PruneRawEvents(horizon)
      PROVE  /\ closed \subseteq closed'
             /\ Stored \subseteq Stored' \cup closed'
             /\ \A x \in Stored' : events'[x].done => x \in closed'
  BY <1>4 DEF PruneRawEvents, Restrict, Prunable, Pending, TableIsTrue, Stored
<1>. QED BY <1>1, <1>2, <1>3, <1>4, TableMoves

\* What a process holds after a step it took: nothing yet if it has just started
\* (a refold, the queue), else what it had, but for an event it has just stored and a
\* record it has just accounted for.
Started(p) ==
  /\ proc'[p].accepted \subseteq (IF proc'[p].refold THEN Stored ELSE {})
  /\ proc'[p].offset # None =>
       \A r \in Record : 2 * r <= proc'[p].offset => r \in proc'[p].todo \/ 2 * r <= cursor
GoesOn(p) ==
  /\ proc[p] # Idle
  /\ proc'[p].refold = proc[p].refold /\ proc'[p].offset = proc[p].offset
  /\ \A r \in proc'[p].accepted : r \in proc[p].accepted \/ (r \in Stored' /\ r \notin Stored)
  /\ \A r \in proc[p].todo : r \in proc'[p].todo \/ Action[r] = "discard" \/ r \in Stored'

\* A process that is under way has just started, or goes on with what it held.
LEMMA ProcessMoves ==
  ASSUME TypeInv, [Next]_vars, NEW p \in Process, proc'[p] # Idle
  PROVE  Started(p) \/ GoesOn(p)
<1>b. TypeOK /\ Shape /\ proc \in [Process -> {Idle} \cup Busy] /\ WellFormed(proc[p])
  BY DEF TypeInv, TypeOK, Shape
<1>1. CASE proc'[p] = proc[p]
  BY <1>1 DEF GoesOn
<1>2. CASE RefoldStarts(p)
  BY <1>2, <1>b DEF RefoldStarts, Starts, Started, Pending, Stored
<1>3. CASE \E r \in Record : HookStarts(p, r)
  BY <1>3, <1>b DEF HookStarts, Starts, Started
<1>4. ASSUME NEW from \in {0, cursor}, TailStarts(p, from) PROVE Started(p)
  <2> DEFINE todo == {r \in Record : 2 * (r - 1) >= from /\ 2 * r <= size}
  <2>1. proc'[p].todo = todo /\ proc'[p].offset = ReadUpTo(from)
        /\ proc'[p].accepted = {} /\ proc'[p].refold = FALSE
    BY <1>4, <1>b DEF TailStarts, Starts
  <2>2. ASSUME NEW r \in Record, 2 * r <= ReadUpTo(from) PROVE r \in todo \/ 2 * r <= cursor
    <3>1. Records \in Nat /\ r \in Nat /\ r >= 1 /\ size \in Nat /\ cursor \in Nat
      BY <1>b, PipelineAssumption DEF TypeOK, Record
    <3>2. PICK k \in Nat : cursor = 2 * k
      BY <1>b DEF Shape, LineStart
    <3>3. 2 * (size \div 2) <= size /\ size \div 2 \in Nat
      BY <3>1
    <3>4. CASE 2 * r <= from
      BY <3>1, <3>4
    <3>5. CASE ~(2 * r <= from)
      <4>1. 2 * r <= size
        BY <2>2, <3>1, <3>3, <3>5 DEF ReadUpTo
      <4>2. 2 * (r - 1) >= from
        BY <3>1, <3>2, <3>5
      <4>. QED BY <4>1, <4>2
    <3>. QED BY <3>4, <3>5
  <2>. QED BY <2>1, <2>2 DEF Started
<1>5. CASE Screens(p)
  <2>1. proc[p] \in Busy /\ proc[p] # Idle
    BY <1>b, <1>5, NotIdle DEF Screens
  <2> DEFINE r == Min(proc[p].todo)
  <2>2. CASE proc' = [proc EXCEPT ![p].todo = @ \ {r}] /\ (r \in Stored \/ Action[r] = "discard")
    BY <1>5, <1>b, <2>1, <2>2 DEF GoesOn, Screens, Stored, Busy
  <2>3. CASE proc' = [proc EXCEPT ![p].pc = "insert"]
    BY <1>b, <2>1, <2>3 DEF GoesOn, Busy
  <2>. QED BY <1>5, <2>2, <2>3 DEF Screens, Advances
<1>6. CASE Inserts(p)
  <2>1. proc[p] \in Busy /\ proc[p] # Idle
    BY <1>b, <1>6, NotIdle DEF Inserts
  <2> DEFINE r == Min(proc[p].todo)
             run == [proc[p] EXCEPT !.todo = @ \ {r}, !.accepted = @ \cup Takes(r), !.pc = "screen"]
  <2>2. proc'[p] = run
    BY <1>6, <1>b, <2>1 DEF Inserts
  <2>3. run.refold = proc[p].refold /\ run.offset = proc[p].offset
        /\ run.todo = proc[p].todo \ {r} /\ run.accepted = proc[p].accepted \cup Takes(r)
    BY <2>1 DEF Busy
  <2>4. Stored' = Stored \cup {r}
    BY <1>6 DEF Inserts, Stored
  <2>. QED BY <2>1, <2>2, <2>3, <2>4 DEF GoesOn, Takes
<1>7. ASSUME NEW marks \in Seq(Mark), proc' = [proc EXCEPT ![p] = Closing(proc[p], marks)],
             proc[p] \in Busy, proc[p].todo = {}
      PROVE  GoesOn(p)
  <2>1. proc'[p] = Closing(proc[p], marks) /\ proc[p] # Idle
    BY <1>7, <1>b DEF Busy, Idle
  <2>2. LET next == Closing(proc[p], marks)
        IN  next.todo = {} /\ next.accepted = {} /\ next.offset = proc[p].offset /\ next.refold = proc[p].refold
    BY <1>7, <1>b, <2>1, ClosingWellFormed
  <2>. QED BY <1>7, <2>1, <2>2 DEF GoesOn
<1>8. CASE FoldsSomehow(p)
  <2>1. PICK consumed \in SUBSET Record, inert \in SUBSET Record, accepted \in BOOLEAN :
          Folds(p, consumed, inert, accepted)
    BY <1>8 DEF FoldsSomehow
  <2>2. proc[p] \in Busy /\ proc[p].todo = {}
    BY <1>b, <2>1, NotIdle DEF Folds
  <2>3. Leftover(p, consumed \cup inert) \in SUBSET Record
    BY <2>2 DEF Leftover, Busy
  <2> DEFINE marks == MarkAll(consumed, FALSE) \o MarkAll(inert, TRUE) \o MarkAll(Leftover(p, consumed \cup inert), TRUE)
  <2>4. marks \in Seq(Mark)
    <3>1. MarkAll(consumed, FALSE) \in Seq(Mark) /\ MarkAll(inert, TRUE) \in Seq(Mark)
          /\ MarkAll(Leftover(p, consumed \cup inert), TRUE) \in Seq(Mark)
      BY <2>3, MarksTyped
    <3>. QED BY <3>1, ConcatProperties
  <2>. QED BY <1>7, <2>1, <2>2, <2>4 DEF Folds
<1>9. CASE Marks(p)
  <2>1. proc[p] \in Busy /\ proc[p] # Idle /\ proc[p].pc = "mark"
    BY <1>b, <1>9, NotIdle DEF Marks
  <2>2. proc[p].todo = {} /\ proc[p].marks \in Seq(Mark) /\ proc[p].marks # <<>>
    BY <1>b, <2>1 DEF WellFormed, Busy
  <2>3. Tail(proc[p].marks) \in Seq(Mark)
    BY <2>2
  <2>. QED BY <1>7, <1>9, <2>1, <2>2, <2>3 DEF Marks
<1>10. CASE Sheds(p)
  <2>1. proc[p] \in Busy /\ proc[p] # Idle
    BY <1>b, <1>10, NotIdle DEF Sheds
  <2>2. proc'[p] = [proc[p] EXCEPT !.pc = "cursor"]
    BY <1>10, <1>b DEF Sheds, AfterShedding
  <2>. QED BY <2>1, <2>2 DEF GoesOn, Busy
<1>11. CASE SetsCursor(p) \/ Crashes(p)
  BY <1>11, <1>b DEF SetsCursor, Crashes
<1>. QED
  BY <1>1, <1>2, <1>3, <1>4, <1>5, <1>6, <1>8, <1>9, <1>10, <1>11, OneAtATime
  DEF ProcessSteps, Continues, Started

WorkerSteps(w) == WorkerReads(w) \/ WorkerAnswers(w) \/ WorkerMarks(w) \/ WorkerFails(w)

\* A worker moves by a step of a worker.
LEMMA OneWorkerAtATime ==
  ASSUME TypeInv, [Next]_vars, worker' # worker
  PROVE  \E w \in Worker : WorkerSteps(w)
<1>1. ~AgentWrites /\ ~UNCHANGED vars
  BY DEF AgentWrites, vars
<1>2. \A p \in Process : ~ProcessSteps(p)
  BY DEF ProcessSteps, HookStarts, TailStarts, RefoldStarts, Starts, Continues, Screens, Inserts, Marks,
         Sheds, SetsCursor, Crashes, FoldsSomehow, Folds
<1>3. \A horizon : ~PruneRawEvents(horizon)
  BY DEF PruneRawEvents
<1>. QED BY <1>1, <1>2, <1>3 DEF Next, ProcessSteps, WorkerSteps

\* A worker that marks has derived, and what was derived is remembered.
LEMMA MarkedStep ==
  ASSUME TypeInv, MarkedIsDerived, [Next]_vars
  PROVE  MarkedIsDerived'
<1>b. worker \in [Worker -> {Idle} \cup Run]
  BY DEF TypeInv, TypeOK
<1>1. derived \subseteq derived'
  <2>1. \A p \in Process : FoldsSomehow(p) => derived \subseteq derived'
    BY DEF FoldsSomehow, Folds
  <2>2. \A w \in Worker : WorkerCommits(w) => derived \subseteq derived'
    BY DEF WorkerCommits
  <2>3. \/ \E p \in Process : FoldsSomehow(p)
        \/ \E w \in Worker : WorkerCommits(w)
        \/ derived' = derived
    BY DEF Next, AgentWrites, HookStarts, TailStarts, RefoldStarts, Starts, Continues, Screens, Inserts, Marks,
           Sheds, SetsCursor, Crashes, WorkerReads, WorkerAnswers,
           WorkerFindsNothing, WorkerMarks, WorkerFails, PruneRawEvents, vars
  <2>. QED BY <2>1, <2>2, <2>3
<1>2. CASE worker' = worker
  BY <1>1, <1>2 DEF MarkedIsDerived
<1>3. ASSUME NEW w \in Worker, WorkerSteps(w) PROVE MarkedIsDerived'
  <2>1. CASE WorkerCommits(w)
    BY <2>1, <1>b, <1>1 DEF WorkerCommits, MarkedIsDerived, Run, Idle
  <2>2. CASE WorkerReads(w)
    BY <2>2, <1>b, <1>1 DEF WorkerReads, MarkedIsDerived
  <2>3. CASE WorkerFindsNothing(w) \/ WorkerMarks(w) \/ WorkerFails(w)
    <3>1. worker' = [worker EXCEPT ![w] = Idle]
      BY <2>3 DEF WorkerFindsNothing, WorkerMarks, WorkerFails
    <3>. QED BY <3>1, <1>b, <1>1 DEF MarkedIsDerived, Idle
  <2>. QED BY <1>3, <2>1, <2>2, <2>3 DEF WorkerSteps, WorkerAnswers
<1>. QED BY <1>2, <1>3, OneWorkerAtATime

\* The invariant holds of an empty queue.
LEMMA InvInit == Init => Inv
<1> SUFFICES ASSUME Init PROVE Inv
  OBVIOUS
<1>1. TypeInv
  BY TypeInvInit
<1>2. \A r \in Record : ~(2 * r <= cursor)
  BY PipelineAssumption DEF Init, Record
<1>3. Stored = {} /\ (\A p \in Process : proc[p] = Idle) /\ \A w \in Worker : worker[w] = Idle
  BY DEF Init, Stored
<1>. QED BY <1>1, <1>2, <1>3 DEF Inv, TableIsTrue, NothingLost, OffsetIsSafe, FoldedByOne, MarkedIsDerived, Idle

\* Every step keeps the invariant: a tailer's offset inherits its safety from the cursor
\* it started at, and hands it to the cursor when nothing is left to do.
LEMMA InvStep == Inv /\ [Next]_vars => Inv'
<1> SUFFICES ASSUME Inv, [Next]_vars PROVE Inv'
  OBVIOUS
<1>a. TypeInv /\ TableIsTrue /\ NothingLost /\ OffsetIsSafe /\ FoldedByOne /\ MarkedIsDerived
  BY DEF Inv
<1>1. TypeInv' /\ MarkedIsDerived'
  BY <1>a, TypeInvStep, MarkedStep
<1>2. closed \subseteq closed' /\ Stored \subseteq Stored' \cup closed'
  BY <1>a, RowsAreKnown
<1>3. \A r \in Record : Accounted(r) => r \in Stored' \/ Action[r] = "discard" \/ r \in closed'
  BY <1>2 DEF Accounted
<1>4. \A p \in Process : proc'[p] # Idle => Started(p) \/ GoesOn(p)
  BY <1>a, ProcessMoves
<1>5. TableIsTrue'
  <2>1. ASSUME NEW p \in Process, proc'[p] # Idle, NEW r \in proc'[p].accepted
        PROVE  r \in Stored' \/ r \in closed'
    BY <1>a, <1>2, <1>4, <2>1 DEF Started, GoesOn, TableIsTrue, Known
  <2>2. \A r \in Stored' : events'[r].done => r \in closed'
    BY <1>a, RowsAreKnown
  <2>. QED BY <2>1, <2>2 DEF TableIsTrue, Known
<1>6. OffsetIsSafe'
  <2>1. ASSUME NEW p \in Process, proc'[p] # Idle, proc'[p].offset # None,
               NEW r \in Record, 2 * r <= proc'[p].offset
        PROVE  r \in proc'[p].todo \/ r \in Stored' \/ Action[r] = "discard" \/ r \in closed'
    <3>1. CASE Started(p)
      <4>1. r \in proc'[p].todo \/ 2 * r <= cursor
        BY <2>1, <3>1 DEF Started
      <4>. QED BY <1>a, <1>3, <4>1 DEF NothingLost, Accounted
    <3>2. CASE GoesOn(p)
      <4>1. r \in proc[p].todo \/ Accounted(r)
        BY <1>a, <2>1, <3>2 DEF GoesOn, OffsetIsSafe
      <4>. QED BY <1>3, <3>2, <4>1 DEF GoesOn
    <3>. QED BY <1>4, <2>1, <3>1, <3>2
  <2>. QED BY <2>1 DEF OffsetIsSafe, Accounted
<1>7. NothingLost'
  <2>1. CASE cursor' = cursor
    BY <1>a, <1>3, <2>1 DEF NothingLost, Accounted
  <2>2. ASSUME NEW p \in Process, SetsCursor(p) PROVE NothingLost'
    <3>1. proc[p] # Idle /\ proc[p] \in Busy /\ proc[p].pc = "cursor" /\ cursor' = proc[p].offset
      BY <1>a, <2>2, NotIdle DEF SetsCursor, TypeInv
    <3>2. proc[p].todo = {} /\ proc[p].offset # None
      BY <1>a, <3>1 DEF TypeInv, Shape, WellFormed
    <3>. QED BY <1>a, <1>3, <3>1, <3>2 DEF OffsetIsSafe, NothingLost, Accounted
  <2>3. cursor' = cursor \/ \E p \in Process : SetsCursor(p)
    BY DEF Next, AgentWrites, HookStarts, TailStarts, RefoldStarts, Starts, Continues, Screens, Inserts, Marks,
           Sheds, Crashes, FoldsSomehow, Folds, WorkerReads, WorkerAnswers, WorkerCommits,
           WorkerFindsNothing, WorkerMarks, WorkerFails, PruneRawEvents, vars
  <2>. QED BY <2>1, <2>2, <2>3
<1>8. FoldedByOne'
  <2>1. ASSUME NEW p \in Process, NEW q \in Process, p # q, proc'[p] # Idle, proc'[q] # Idle,
               ~proc'[p].refold, ~proc'[q].refold,
               NEW r \in proc'[p].accepted, r \in proc'[q].accepted, proc'[p] = proc[p]
        PROVE  r \in closed'
    <3>1. GoesOn(q)
      BY <1>4, <2>1 DEF Started
    <3>2. CASE r \in proc[q].accepted
      BY <1>a, <1>2, <2>1, <3>1, <3>2 DEF FoldedByOne, GoesOn
    <3>3. CASE r \notin Stored
      BY <1>a, <1>2, <2>1, <3>3 DEF TableIsTrue, Known
    <3>. QED BY <2>1, <3>1, <3>2, <3>3 DEF GoesOn
  <2>2. \A p, q \in Process : p # q => proc'[p] = proc[p] \/ proc'[q] = proc[q]
    BY <1>a, OneAtATime
  <2>. QED BY <2>1, <2>2 DEF FoldedByOne
<1>. QED BY <1>1, <1>5, <1>6, <1>7, <1>8 DEF Inv

-----------------------------------------------------------------------------
(* The theorems. *)

\* The cursor is safe to resume from, for any transcript: whoever died and however the
\* last line was cut, every record before it was stored, discarded or resolved.
THEOREM CursorIsSafe == Spec => []NothingLost
<1>1. Inv => NothingLost
  BY DEF Inv
<1>. QED BY <1>1, InvInit, InvStep, PTL DEF Spec

\* However many hooks, tailers and refolds see an event, one ingest folds it.
THEOREM OneFold == Spec => []FoldedByOne
<1>1. Inv => FoldedByOne
  BY DEF Inv
<1>. QED BY <1>1, InvInit, InvStep, PTL DEF Spec

\* An event a worker brings into the coverage count is one a patch was built from.
LEMMA EarnedStep ==
  ASSUME Inv, [Next]_vars, worker' # worker
  PROVE  Counted' \ Counted \subseteq derived
<1>b. TypeInv /\ TypeOK /\ MarkedIsDerived
  BY DEF Inv, TypeInv
<1>1. PICK w \in Worker : WorkerSteps(w)
  BY <1>b, OneWorkerAtATime
<1>2. CASE WorkerReads(w) \/ WorkerCommits(w) \/ WorkerFails(w)
  BY <1>2 DEF WorkerReads, WorkerCommits, WorkerFails, Counted, Stored
<1>3. CASE WorkerMarks(w) \/ WorkerFindsNothing(w)
  <2>1. worker[w] \in Run
    <3>1. worker[w].pc # "idle"
      BY <1>3 DEF WorkerMarks, WorkerFindsNothing
    <3>. QED BY <3>1, <1>b DEF TypeOK, Idle
  <2>2. worker[w].batch \in SUBSET Record
    BY <2>1 DEF Run
  <2>3. CASE WorkerMarks(w)
    <3>1. Close(worker[w].batch, FALSE) /\ worker[w].batch \subseteq derived
      BY <1>b, <2>3 DEF WorkerMarks, MarkedIsDerived
    <3>2. DOMAIN events' = Stored /\ \A r \in Stored : r \notin worker[w].batch => events'[r] = events[r]
      BY <1>b, <2>2, <3>1, CloseTyped
    <3>. QED BY <3>1, <3>2 DEF Counted, Stored
  <2>4. CASE WorkerFindsNothing(w)
    <3>1. Close(worker[w].batch, TRUE)
      BY <2>4 DEF WorkerFindsNothing, ClosesEmptyHanded
    <3>2. DOMAIN events' = Stored
          /\ \A r \in Stored : r \in worker[w].batch => events'[r].inert = (events[r].inert \/ TRUE)
      BY <1>b, <2>2, <3>1, CloseTyped
    <3>3. \A r \in Stored : r \notin worker[w].batch => events'[r] = events[r]
      BY <1>b, <2>2, <3>1, CloseTyped
    <3>. QED BY <3>2, <3>3 DEF Counted, Stored
  <2>. QED BY <1>3, <2>3, <2>4
<1>. QED BY <1>1, <1>2, <1>3 DEF WorkerSteps, WorkerAnswers

\* Workers drive coverage up only by what they recorded, in every behaviour.
THEOREM CoverageIsEarned == Spec => WorkersEarnCoverage
<1>1. Inv /\ [Next]_vars => [worker' # worker => Counted' \ Counted \subseteq derived]_vars
  BY EarnedStep
<1>. QED BY <1>1, InvInit, InvStep, PTL DEF Spec, WorkersEarnCoverage

\* Each step of the pipeline is a step of the life of some events, or no step at all.
LEMMA LifeStep ==
  ASSUME TypeInv, [Next]_vars
  PROVE  [Life!Next]_LifeOf
<1>b. TypeOK
  BY DEF TypeInv
<1>1. CASE events' = events
  BY <1>1 DEF LifeOf, Stored
<1>2. ASSUME NEW r \in Record, StoresRow(r) PROVE [Life!Next]_LifeOf
  <2>1. CASE r \in Stored
    <3>1. events' = events
      BY <1>2, <1>b, <2>1 DEF StoresRow, TypeOK, Stored
    <3>. QED BY <3>1, <1>1
  <2>2. CASE r \notin Stored
    <3>1. Life!Store({r})
      BY <1>2, <2>2 DEF StoresRow, Life!Store, Life!Move, LifeOf, Stored, Fresh
    <3>. QED BY <3>1 DEF Life!Next
  <2>. QED BY <2>1, <2>2
<1>3. ASSUME NEW ids \in SUBSET Record, NEW inert \in BOOLEAN, Close(ids, inert) PROVE [Life!Next]_LifeOf
  <2> DEFINE S == ids \cap Pending
  <2>1. /\ DOMAIN events' = Stored
        /\ \A r \in Stored : r \in ids => events'[r].done
        /\ \A r \in Stored : r \notin ids => events'[r] = events[r]
    BY <1>b, <1>3, CloseTyped
  <2>2. CASE S = {}
    BY <2>1, <2>2 DEF LifeOf, Pending, Stored
  <2>3. CASE S # {}
    <3>1. \A r \in S : LifeOf[r] = "waiting"
      BY DEF LifeOf, Pending
    <3>2. ASSUME NEW r \in Record PROVE LifeOf'[r] = IF r \in S THEN "resolved" ELSE LifeOf[r]
      <4>1. CASE r \in ids /\ r \in Stored
        BY <2>1, <4>1 DEF LifeOf, Pending, Stored
      <4>2. CASE ~(r \in ids /\ r \in Stored)
        BY <2>1, <4>2 DEF LifeOf, Pending, Stored
      <4>. QED BY <4>1, <4>2
    <3>3. LifeOf' = [r \in Record |-> IF r \in S THEN "resolved" ELSE LifeOf[r]]
      BY <3>2 DEF LifeOf
    <3>4. Life!Resolve(S)
      BY <2>3, <3>1, <3>3 DEF Life!Resolve, Life!Move
    <3>. QED BY <3>4 DEF Life!Next
  <2>. QED BY <2>2, <2>3
<1>4. ASSUME NEW horizon \in 2 .. Records + 1, PruneRawEvents(horizon) PROVE [Life!Next]_LifeOf
  <2> DEFINE S == {r \in Stored : r < horizon /\ r \in Prunable}
  <2>1. S # {} /\ S \in SUBSET Record
    BY <1>4, <1>b DEF PruneRawEvents, Prunable, Stored, TypeOK
  <2>2. \A r \in S : LifeOf[r] = "resolved"
    BY <2>1 DEF LifeOf, Prunable, Pending
  <2>3. /\ DOMAIN events' = Stored \ S
        /\ \A r \in Stored \ S : events'[r] = events[r]
    BY <1>4 DEF PruneRawEvents, Restrict, Stored
  <2>4. LifeOf' = [r \in Record |-> IF r \in S THEN "absent" ELSE LifeOf[r]]
    BY <2>1, <2>3 DEF LifeOf, Stored
  <2>5. Life!Forget(S)
    BY <2>1, <2>2, <2>4 DEF Life!Forget, Life!Move
  <2>. QED BY <2>1, <2>5 DEF Life!Next
<1>. QED BY <1>1, <1>2, <1>3, <1>4, TableMoves

\* The pipeline implements the queue's promise: no interleaving and no crash drops a
\* waiting event or makes a resolved one wait again.
THEOREM ImplementsEventLife == Spec => KeepsTheQueue
<1>1. Init => Life!Init
  BY DEF Init, Life!Init, LifeOf, Stored
<1>2. TypeInv /\ [Next]_vars => [Life!Next]_LifeOf
  BY LifeStep
<1>. QED BY <1>1, <1>2, TypeInvInit, TypeInvStep, PTL DEF Spec, KeepsTheQueue, Life!Spec

-----------------------------------------------------------------------------
(* Numbers, and what a recursion over them defines. *)

\* Of finitely many integers one is the least.
LEMMA LeastOfFinite ==
  ASSUME NEW S \in SUBSET Int, S # {}, IsFiniteSet(S)
  PROVE  \E m \in S : \A n \in S : m <= n
<1> DEFINE Without == {A \in SUBSET S : A # {} /\ ~ \E m \in A : \A n \in A : m <= n}
<1>1. CASE Without = {}
  BY <1>1
<1>2. CASE Without # {}
  <2>1. PICK A \in Without : \A B \in Without : ~(<<B, A>> \in StrictSubsetOrdering(S))
    <3>1. Without \subseteq FiniteSubsetsOf(S)
      BY FS_Subset DEF FiniteSubsetsOf
    <3>. QED BY <1>2, <3>1, WFMin, FS_StrictSubsetOrderingWellFounded
  <2>2. PICK a \in A : TRUE
    OBVIOUS
  <2>3. A \ {a} \notin Without
    BY <2>1, <2>2 DEF StrictSubsetOrdering
  <2>4. CASE A \ {a} = {}
    BY <2>2, <2>4
  <2>5. CASE A \ {a} # {}
    <3>1. PICK m \in A \ {a} : \A n \in A \ {a} : m <= n
      BY <2>3, <2>5
    <3>2. a \in Int /\ m \in Int /\ \A n \in A : n \in Int
      BY <2>2
    <3>3. \E i \in A : \A n \in A : i <= n
      BY <2>2, <3>1, <3>2
    <3>. QED BY <3>3
  <2>. QED BY <2>4, <2>5
<1>. QED BY <1>1, <1>2

\* Of a set of naturals that is not empty, one is the least.
LEMMA Least ==
  ASSUME NEW S \in SUBSET Nat, S # {}
  PROVE  \E m \in S : \A n \in S : m <= n
<1>1. PICK s \in S : TRUE
  OBVIOUS
<1> DEFINE Below == {n \in S : n <= s}
<1>2. IsFiniteSet(Below) /\ Below \in SUBSET Int /\ s \in Below
  <2>0. s \in Nat /\ \A n \in S : n \in Nat
    BY <1>1
  <2>1. Below \in SUBSET (0 .. s) /\ Below \in SUBSET Int /\ s \in Below
    <3>1. \A n \in Below : n \in 0 .. s /\ n \in Int
      BY <2>0
    <3>2. s \in Below
      BY <2>0
    <3>. HIDE DEF Below
    <3>. QED BY <3>1, <3>2
  <2>2. IsFiniteSet(0 .. s)
    BY <1>1, FS_Interval
  <2>3. IsFiniteSet(Below)
    <3>. HIDE DEF Below
    <3>. QED BY <2>1, <2>2, FS_Subset
  <2>. QED BY <2>1, <2>3
<1>3. PICK m \in Below : \A n \in Below : m <= n
  BY <1>2, LeastOfFinite
<1>4. \A n \in S : m <= n
  BY <1>1, <1>3
<1>. QED BY <1>3, <1>4

\* Min and Max are members, of finitely many integers.
LEMMA MinIsLeast ==
  ASSUME NEW S \in SUBSET Int, S # {}, IsFiniteSet(S)
  PROVE  Min(S) \in S /\ \A n \in S : Min(S) <= n
BY LeastOfFinite DEF Min

\* The greatest of finitely many integers is one of them.
LEMMA MaxIsGreatest ==
  ASSUME NEW S \in SUBSET Int, S # {}, IsFiniteSet(S)
  PROVE  Max(S) \in S /\ \A n \in S : n <= Max(S)
<1> DEFINE Mirror == {-n : n \in S}
           turned == [n \in S |-> -n]
<1>1. IsFiniteSet(Mirror) /\ Mirror \in SUBSET Int /\ Mirror # {}
  <2>1. turned \in Surjection(S, Mirror)
    BY DEF Surjection
  <2>2. IsFiniteSet(Mirror)
    <3>. HIDE DEF turned, Mirror
    <3>. QED BY <2>1, FS_Surjection
  <2>3. Mirror \in SUBSET Int
    OBVIOUS
  <2>4. PICK n \in S : TRUE
    OBVIOUS
  <2>5. -n \in Mirror
    BY <2>4
  <2>. HIDE DEF Mirror
  <2>. QED BY <2>2, <2>3, <2>5
<1>2. PICK m \in Mirror : \A n \in Mirror : m <= n
  <2>. HIDE DEF Mirror
  <2>. QED BY <1>1, LeastOfFinite
<1>3. -m \in S /\ \A n \in S : -n \in Mirror
  BY <1>2
<1>4. \A n \in S : n <= -m
  BY <1>2, <1>3
<1>5. \A n \in S : -m >= n
  BY <1>3, <1>4
<1>6. Max(S) \in S /\ \A n \in S : Max(S) >= n
  BY <1>3, <1>5 DEF Max
<1>. QED BY <1>6

\* What holds at the start, and of each position after the one before, holds of all.
LEMMA UpTo ==
  ASSUME NEW N \in Nat, NEW Good \in SUBSET (0 .. N), 0 \in Good,
         \A n \in 1 .. N : n - 1 \in Good => n \in Good
  PROVE  Good = 0 .. N
<1> DEFINE Bad == (0 .. N) \ Good
<1>1. CASE Bad = {}
  BY <1>1
<1>2. CASE Bad # {}
  <2>1. Bad \in SUBSET Nat
    OBVIOUS
  <2>2. PICK n \in Bad : \A k \in Bad : n <= k
    <3>. HIDE DEF Bad
    <3>. QED BY <1>2, <2>1, Least
  <2>3. n \in 1 .. N /\ n - 1 \in 0 .. N
    BY <2>2
  <2>4. n - 1 \in Good
    BY <2>2, <2>3
  <2>. QED BY <2>2, <2>3, <2>4
<1>. QED BY <1>1, <1>2

\* A state for each position, made by F from the one before.
Runs(F, S, start, N) ==
  \E f \in [0 .. N -> S] : f[0] = start /\ \A n \in 1 .. N : f[n] = F[n][f[n - 1]]

\* A start and what each position does to a state define the states in between.
LEMMA RecursionExists ==
  ASSUME NEW N \in Nat, NEW S, NEW start \in S, NEW F \in [1 .. N -> [S -> S]]
  PROVE  Runs(F, S, start, N)
<1> DEFINE Good == {k \in 0 .. N : Runs(F, S, start, k)}
<1>1. 0 \in Good
  <2> DEFINE f == [n \in 0 .. 0 |-> start]
  <2>1. f \in [0 .. 0 -> S] /\ f[0] = start /\ \A n \in 1 .. 0 : f[n] = F[n][f[n - 1]]
    OBVIOUS
  <2>. HIDE DEF f
  <2>2. Runs(F, S, start, 0)
    BY <2>1 DEF Runs
  <2>. QED BY <2>2
<1>2. ASSUME NEW n \in 1 .. N, n - 1 \in Good
      PROVE  n \in Good
  <2>1. PICK f \in [0 .. (n - 1) -> S] :
          f[0] = start /\ \A k \in 1 .. (n - 1) : f[k] = F[k][f[k - 1]]
    BY <1>2 DEF Runs
  <2> DEFINE g == [k \in 0 .. n |-> IF k = n THEN F[n][f[n - 1]] ELSE f[k]]
  <2>2. F[n][f[n - 1]] \in S
    BY <2>1
  <2>3. g \in [0 .. n -> S] /\ g[0] = start
    BY <2>1, <2>2
  <2>4. ASSUME NEW k \in 1 .. n
        PROVE  g[k] = F[k][g[k - 1]]
    <3>1. g[k - 1] = f[k - 1]
      OBVIOUS
    <3>2. CASE k = n
      BY <3>1, <3>2
    <3>3. CASE k # n
      BY <2>1, <3>1, <3>3
    <3>. QED BY <3>2, <3>3
  <2>. HIDE DEF g
  <2>5. Runs(F, S, start, n)
    BY <2>3, <2>4 DEF Runs
  <2>. QED BY <2>5
<1>3. Good \in SUBSET (0 .. N)
  OBVIOUS
<1>4. N \in Good
  <2>. HIDE DEF Good
  <2>1. Good = 0 .. N
    BY <1>1, <1>2, <1>3, UpTo
  <2>. QED BY <2>1
<1>. QED BY <1>4

\* Nothing appended changes nothing.
LEMMA AsItIs ==
  ASSUME NEW N \in Nat, NEW S, NEW f \in [1 .. N -> S]
  PROVE  /\ f \o <<>> = f /\ f \in Seq(S) /\ Len(f) = N /\ DOMAIN f = 1 .. N
<1>1. f \in Seq(S) /\ Len(f) = N
  OBVIOUS
<1>2. f \o <<>> \in Seq(S) /\ Len(f \o <<>>) = N /\ \A n \in 1 .. N : (f \o <<>>)[n] = f[n]
  BY <1>1
<1>3. f \o <<>> = [n \in 1 .. N |-> (f \o <<>>)[n]]
  BY <1>2
<1>4. f = [n \in 1 .. N |-> f[n]]
  OBVIOUS
<1>5. f \o <<>> = f
  BY <1>2, <1>3, <1>4
<1>. QED BY <1>1, <1>5

-----------------------------------------------------------------------------
(* Positions, and the events at some of them.                              *)

\* The positions among the first n that are in a set, each once, ascending.
Places(order, positions, n) ==
  /\ order \in Seq(1 .. n)
  /\ \A k \in DOMAIN order : order[k] \in positions
  /\ \A j, k \in DOMAIN order : j < k => order[j] < order[k]
  /\ \A m \in 1 .. n : m \in positions => \E k \in DOMAIN order : order[k] = m

\* One more position, if it is of the set, comes last.
LEMMA PlacesGrow ==
  ASSUME NEW n \in Nat \ {0}, NEW positions, NEW order, Places(order, positions, n - 1)
  PROVE  Places(IF n \in positions THEN Append(order, n) ELSE order, positions, n)
<1>1. /\ order \in Seq(1 .. (n - 1)) /\ Len(order) \in Nat /\ DOMAIN order = 1 .. Len(order)
      /\ \A k \in 1 .. Len(order) : order[k] \in 1 .. (n - 1)
  BY DEF Places
<1>2. \A m \in 1 .. (n - 1) : m \in 1 .. n /\ m < n
  OBVIOUS
<1>3. order \in Seq(1 .. n)
  <2>1. order \in [1 .. Len(order) -> 1 .. n]
    BY <1>1, <1>2
  <2>. QED BY <1>1, <2>1
<1>4. \A m \in 1 .. n : m = n \/ m \in 1 .. (n - 1)
  OBVIOUS
<1>5. CASE n \notin positions
  BY <1>1, <1>3, <1>4, <1>5 DEF Places
<1>6. CASE n \in positions
  <2> DEFINE longer == Append(order, n)
  <2>1. /\ longer \in Seq(1 .. n) /\ DOMAIN longer = 1 .. (Len(order) + 1) /\ longer[Len(order) + 1] = n
        /\ \A k \in 1 .. Len(order) : longer[k] = order[k]
    BY <1>1, <1>3
  <2>. HIDE DEF longer
  <2>2. \A k \in 1 .. (Len(order) + 1) : k = Len(order) + 1 \/ k \in 1 .. Len(order)
    BY <1>1
  <2>3. \A k \in DOMAIN longer : longer[k] \in positions
    BY <1>1, <1>6, <2>1, <2>2 DEF Places
  <2>4. ASSUME NEW j \in DOMAIN longer, NEW k \in DOMAIN longer, j < k
        PROVE  longer[j] < longer[k]
    <3>1. j \in 1 .. Len(order)
      BY <1>1, <2>1, <2>4
    <3>2. CASE k \in 1 .. Len(order)
      BY <1>1, <2>1, <2>4, <3>1, <3>2 DEF Places
    <3>3. CASE k = Len(order) + 1
      BY <1>1, <1>2, <2>1, <3>1, <3>3
    <3>. QED BY <2>1, <2>2, <3>2, <3>3
  <2>5. ASSUME NEW m \in 1 .. n, m \in positions
        PROVE  \E k \in DOMAIN longer : longer[k] = m
    <3>1. CASE m = n
      <4>1. Len(order) + 1 \in DOMAIN longer
        BY <1>1, <2>1
      <4>. QED BY <2>1, <3>1, <4>1
    <3>2. CASE m \in 1 .. (n - 1)
      <4>1. PICK k \in DOMAIN order : order[k] = m
        BY <2>5, <3>2 DEF Places
      <4>2. k \in DOMAIN longer /\ longer[k] = m
        BY <1>1, <2>1, <4>1
      <4>. QED BY <4>2
    <3>. QED BY <1>4, <3>1, <3>2
  <2>6. Places(longer, positions, n)
    BY <2>1, <2>3, <2>4, <2>5 DEF Places
  <2>. QED BY <1>6, <2>6 DEF longer
<1>. QED BY <1>5, <1>6

\* InTurn is what its name says.
LEMMA InTurnIs ==
  ASSUME NEW n \in Nat, NEW positions
  PROVE  Places(InTurn(positions, n), positions, n)
<1> DEFINE add(s, m) == IF m \in positions THEN Append(s, m) ELSE s
           Fold(f) == f = [m \in 0 .. n |-> IF m = 0 THEN <<>> ELSE add(f[m - 1], m)]
           upTo == CHOOSE f : Fold(f)
           S == Seq(Nat)
           start == <<>>
           F == [m \in 1 .. n |-> [s \in S |-> add(s, m)]]
<1>1. InTurn(positions, n) = upTo[n]
  BY DEF InTurn
<1>2. F \in [1 .. n -> [S -> S]] /\ start \in S
  <2>1. ASSUME NEW m \in 1 .. n
        PROVE  [s \in S |-> add(s, m)] \in [S -> S]
    OBVIOUS
  <2>. QED BY <2>1
<1>. HIDE DEF add, S
<1>3. Fold(upTo)
  <2>1. PICK f \in [0 .. n -> S] : f[0] = start /\ \A m \in 1 .. n : f[m] = F[m][f[m - 1]]
    <3>. HIDE DEF F, start
    <3>1. Runs(F, S, start, n)
      BY <1>2, RecursionExists
    <3>. QED BY <3>1 DEF Runs
  <2>2. ASSUME NEW m \in 0 .. n
        PROVE  f[m] = IF m = 0 THEN start ELSE add(f[m - 1], m)
    <3>1. CASE m = 0
      <4>. HIDE DEF F
      <4>. QED BY <2>1, <3>1
    <3>2. CASE m # 0
      <4>1. m \in 1 .. n /\ m - 1 \in 0 .. n
        BY <3>2
      <4>2. f[m - 1] \in S /\ f[m] = F[m][f[m - 1]]
        <5>. HIDE DEF F
        <5>. QED BY <2>1, <4>1
      <4>3. F[m][f[m - 1]] = add(f[m - 1], m)
        BY <4>1, <4>2
      <4>. HIDE DEF F
      <4>. QED BY <3>2, <4>2, <4>3
    <3>. QED BY <3>1, <3>2
  <2>3. f = [m \in 0 .. n |-> f[m]]
    BY <2>1
  <2>4. Fold(f)
    BY <2>2, <2>3
  <2>. HIDE DEF Fold
  <2>. QED BY <2>4
<1>. HIDE DEF upTo
<1>4. upTo[0] = <<>> /\ \A m \in 1 .. n : upTo[m] = add(upTo[m - 1], m)
  <2>1. upTo[0] = <<>>
    BY <1>3
  <2>2. ASSUME NEW m \in 1 .. n
        PROVE  upTo[m] = add(upTo[m - 1], m)
    BY <1>3
  <2>. QED BY <2>1, <2>2
<1>. HIDE DEF Fold
<1> DEFINE Good == {m \in 0 .. n : Places(upTo[m], positions, m)}
<1>5. 0 \in Good /\ Good \in SUBSET (0 .. n)
  <2>1. upTo[0] = <<>> /\ DOMAIN upTo[0] = {} /\ upTo[0] \in Seq(1 .. 0)
    BY <1>4
  <2>2. Places(upTo[0], positions, 0)
    BY <2>1 DEF Places
  <2>. QED BY <2>2
<1>6. ASSUME NEW m \in 1 .. n, m - 1 \in Good
      PROVE  m \in Good
  <2>1. Places(upTo[m - 1], positions, m - 1)
    BY <1>6
  <2>2. upTo[m] = IF m \in positions THEN Append(upTo[m - 1], m) ELSE upTo[m - 1]
    BY <1>4 DEF add
  <2>3. Places(upTo[m], positions, m)
    BY <2>1, <2>2, PlacesGrow
  <2>. QED BY <2>3
<1>7. n \in Good
  <2>. HIDE DEF Good
  <2>1. Good = 0 .. n
    BY <1>5, <1>6, UpTo
  <2>. QED BY <2>1
<1>. QED BY <1>1, <1>7

-----------------------------------------------------------------------------
(* What ingesting a batch leaves. *)

\* The rows there are.
Rows == {stored[n] : n \in DOMAIN stored}

\* The engine leaves the events of a batch it does not discard, in their order.
LEMMA AcceptsIs ==
  ASSUME NEW batch \in Seq(ContextEvent)
  PROVE  \E order :
           /\ Places(order, {n \in DOMAIN batch : Decision(batch[n]) # "discard"}, Len(batch))
           /\ accepts(batch) \in Seq(ContextEvent) /\ Len(accepts(batch)) = Len(order)
           /\ \A k \in DOMAIN order : accepts(batch)[k] = batch[order[k]]
<1> DEFINE positions == {n \in DOMAIN batch : Decision(batch[n]) # "discard"}
           order == InTurn(positions, Len(batch))
           N == Len(order)
           f == [k \in 1 .. N |-> batch[order[k]]]
<1>0. Len(batch) \in Nat
  OBVIOUS
<1>1. Places(order, positions, Len(batch))
  <2>. HIDE DEF positions
  <2>. QED BY <1>0, InTurnIs
<1>2. accepts(batch) = [k \in DOMAIN order |-> batch[order[k]]] \o <<>>
  BY DEF accepts
<1>. HIDE DEF order, positions
<1>3. N \in Nat /\ DOMAIN order = 1 .. N /\ \A k \in 1 .. N : order[k] \in 1 .. Len(batch)
  BY <1>1 DEF Places
<1>. HIDE DEF N
<1>4. f \in [1 .. N -> ContextEvent] /\ \A k \in 1 .. N : f[k] = batch[order[k]]
  BY <1>3
<1>5. accepts(batch) = f \o <<>>
  BY <1>2, <1>3
<1>. HIDE DEF f
<1>6. accepts(batch) = f /\ f \in Seq(ContextEvent) /\ Len(f) = N
  BY <1>3, <1>4, <1>5, AsItIs
<1>. QED BY <1>1, <1>3, <1>4, <1>6 DEF N, positions

\* An event the transcript reports is known if that very event is stored.
LEMMA KnownIs ==
  ASSUME NEW e, e.by = "transcript", stored \in Seq(ContextEvent)
  PROVE  isDuplicate(e) => e \in Rows
<1> SUFFICES ASSUME NEW n \in DOMAIN stored, dedupeHash(stored[n]) = dedupeHash(e)
             PROVE  e = stored[n]
  BY DEF isDuplicate, Rows
<1>1. dedupeHash(e) = e
  BY DEF dedupeHash
<1>2. stored[n] \in ContextEvent
  OBVIOUS
<1>3. CASE stored[n].by = "hook"
  <2>1. dedupeHash(stored[n]).by = "hook"
    BY <1>2, <1>3 DEF dedupeHash, ContextEvent
  <2>. QED BY <1>1, <2>1
<1>4. CASE stored[n].by # "hook"
  BY <1>1, <1>4 DEF dedupeHash
<1>. QED BY <1>3, <1>4

\* The members of a batch the engine leaves are stored, nothing else is, and the others
\* are dropped; a known issue is recorded of a member that was left.
LEMMA IngestsIs ==
  ASSUME NEW batch \in Seq(ContextEvent), stored \in Seq(ContextEvent), Ingests(batch)
  PROVE  /\ stored' \in Seq(ContextEvent) /\ Rows \subseteq Rows'
         /\ \A e \in Rows' : e \in Rows \/ \E n \in DOMAIN batch : e = batch[n] /\ Decision(e) # "discard"
         /\ \A n \in DOMAIN batch : Decision(batch[n]) # "discard" =>
              batch[n] \in Rows' /\ \E k \in DOMAIN accepts(batch) : accepts(batch)[k] = batch[n]
         /\ \A n \in DOMAIN batch : batch[n] \in Rows' \/ batch[n].at \in dropped'
         /\ dropped \subseteq dropped'
         /\ \A p \in dropped' : p \in dropped \/ \E n \in DOMAIN batch : p = batch[n].at
         /\ \A p \in issues' : p \in issues \/ \E n \in DOMAIN batch :
              p = batch[n].at /\ Decision(batch[n]) # "discard" /\ recordsIssue(batch[n], accepts(batch))
<1>1. PICK accepted : accepted = accepts(batch)
  OBVIOUS
<1> DEFINE N == Len(accepted)
           positions == {n \in DOMAIN batch : Decision(batch[n]) # "discard"}
           Accepted == {accepted[k] : k \in DOMAIN accepted}
<1>2. PICK order :
        /\ Places(order, positions, Len(batch))
        /\ accepted \in Seq(ContextEvent) /\ Len(accepted) = Len(order)
        /\ \A k \in DOMAIN order : accepted[k] = batch[order[k]]
  BY <1>1, AcceptsIs
<1>3. DOMAIN order = 1 .. N /\ DOMAIN accepted = 1 .. N /\ N \in Nat /\ DOMAIN batch = 1 .. Len(batch)
  BY <1>2 DEF Places
<1>4. \A k \in 1 .. N : accepted[k] = batch[order[k]] /\ order[k] \in positions
  BY <1>2, <1>3 DEF Places
<1>5. \A n \in positions : \E k \in 1 .. N : accepted[k] = batch[n]
  <2>1. \A n \in positions : n \in 1 .. Len(batch)
    BY <1>3
  <2>2. \A n \in positions : \E k \in 1 .. N : order[k] = n
    <3>. HIDE DEF positions, N
    <3>. QED BY <1>2, <1>3, <2>1 DEF Places
  <2>. HIDE DEF positions, N
  <2>. QED BY <1>4, <2>2
<1>6. stored' = stored \o accepted
  BY <1>1 DEF Ingests
<1>7. dropped' = dropped \cup {e.at : e \in {x \in {batch[n] : n \in DOMAIN batch} \ Accepted :
                                               \A n \in DOMAIN stored : stored[n] # x}}
  BY <1>1 DEF Ingests
<1>8. issues' = issues \cup {e.at : e \in {x \in Accepted : recordsIssue(x, accepted)}}
  BY <1>1 DEF Ingests
<1>9. /\ stored' \in Seq(ContextEvent) /\ Rows' = Rows \cup Accepted
  <2>1. stored' \in Seq(ContextEvent) /\ Len(stored') = Len(stored) + N
    BY <1>2, <1>6, ConcatProperties
  <2>2. \A n \in 1 .. Len(stored) : n \in DOMAIN stored' /\ stored'[n] = stored[n]
    BY <1>2, <1>6
  <2>3. \A k \in 1 .. N : Len(stored) + k \in DOMAIN stored' /\ stored'[Len(stored) + k] = accepted[k]
    BY <1>2, <1>6
  <2>4. \A n \in DOMAIN stored' : n \in 1 .. Len(stored) \/ \E k \in 1 .. N : n = Len(stored) + k
    <3>. TAKE n \in DOMAIN stored'
    <3>1. n \in 1 .. Len(stored) + N
      BY <2>1
    <3>2. CASE n <= Len(stored)
      BY <3>1, <3>2
    <3>3. CASE n > Len(stored)
      <4>1. n - Len(stored) \in 1 .. N /\ n = Len(stored) + (n - Len(stored))
        BY <1>3, <3>1, <3>3
      <4>. QED BY <4>1
    <3>. QED BY <3>1, <3>2, <3>3
  <2>. HIDE DEF N
  <2>5. Rows' \subseteq Rows \cup Accepted
    <3>1. ASSUME NEW n \in DOMAIN stored'
          PROVE  stored'[n] \in Rows \cup Accepted
      <4>1. CASE n \in 1 .. Len(stored)
        <5>1. stored'[n] = stored[n] /\ n \in DOMAIN stored
          BY <1>2, <2>2, <4>1
        <5>. QED BY <5>1 DEF Rows
      <4>2. CASE \E k \in 1 .. N : n = Len(stored) + k
        <5>1. PICK k \in 1 .. N : n = Len(stored) + k
          BY <4>2
        <5>2. stored'[n] = accepted[k] /\ k \in DOMAIN accepted
          BY <1>3, <2>3, <5>1
        <5>. QED BY <5>2
      <4>. QED BY <2>4, <4>1, <4>2
    <3>2. Rows' = {stored'[n] : n \in DOMAIN stored'}
      BY DEF Rows
    <3>. HIDE DEF Accepted
    <3>. QED BY <3>1, <3>2
  <2>6. Rows \cup Accepted \subseteq Rows'
    BY <1>3, <2>2, <2>3 DEF Rows
  <2>. QED BY <2>1, <2>5, <2>6
<1>10. \A e \in Accepted : \E n \in positions : e = batch[n]
  BY <1>3, <1>4
<1>11. \A n \in positions : batch[n] \in Accepted
  BY <1>3, <1>5
<1>. HIDE DEF Accepted
<1>12. \A n \in DOMAIN batch : batch[n] \in Rows' \/ batch[n].at \in dropped'
  <2>. SUFFICES ASSUME NEW n \in DOMAIN batch, batch[n] \notin Rows'
                PROVE  batch[n].at \in dropped'
    OBVIOUS
  <2>1. batch[n] \notin Accepted /\ batch[n] \notin Rows
    BY <1>9
  <2>2. \A m \in DOMAIN stored : stored[m] # batch[n]
    BY <2>1 DEF Rows
  <2>. QED BY <1>7, <2>1, <2>2
<1>13. dropped \subseteq dropped' /\ \A p \in dropped' : p \in dropped \/ \E n \in DOMAIN batch : p = batch[n].at
  BY <1>7
<1>14. \A p \in issues' : p \in issues \/ \E n \in DOMAIN batch :
         p = batch[n].at /\ Decision(batch[n]) # "discard" /\ recordsIssue(batch[n], accepted)
  BY <1>8, <1>10
<1>15. \A n \in DOMAIN batch : Decision(batch[n]) # "discard" => \E k \in DOMAIN accepted : accepted[k] = batch[n]
  BY <1>3, <1>5
<1>16. \A e \in Rows' : e \in Rows \/ \E n \in DOMAIN batch : e = batch[n] /\ Decision(e) # "discard"
  BY <1>9, <1>10
<1>17. \A n \in DOMAIN batch : Decision(batch[n]) # "discard" => batch[n] \in Rows'
  BY <1>9, <1>11
<1>. QED BY <1>1, <1>9, <1>12, <1>13, <1>14, <1>15, <1>16, <1>17, Zenon

\* The index holds a hash of every path.
LEMMA IndexIs ==
  ASSUME NEW batch \in Seq(ContextEvent), Ingests(batch), index \in [File -> Hash]
  PROVE  index' \in [File -> Hash]
<1>1. PICK accepted : accepted = accepts(batch)
  OBVIOUS
<1>2. accepted \in Seq(ContextEvent)
  BY <1>1, AcceptsIs
<1>3. index' = [f \in File |-> noteFile(accepted, f)]
  BY <1>1 DEF Ingests
<1>4. ASSUME NEW f \in File
      PROVE  noteFile(accepted, f) \in Hash
  <2> DEFINE noted == Positions(accepted, f)
             last == CHOOSE n \in noted : \A m \in noted : m <= n
  <2>1. noteFile(accepted, f) = IF noted = {} THEN index[f] ELSE accepted[last].hash
    BY DEF noteFile
  <2>2. CASE noted # {}
    <3>1. noted \in SUBSET (1 .. Len(accepted)) /\ Len(accepted) \in Nat
      BY <1>2 DEF Positions
    <3>2. noted \in SUBSET Int /\ IsFiniteSet(noted)
      <4>1. IsFiniteSet(1 .. Len(accepted))
        BY <3>1, FS_Interval
      <4>. HIDE DEF noted
      <4>2. IsFiniteSet(noted)
        BY <3>1, <4>1, FS_Subset
      <4>. QED BY <3>1, <4>2
    <3>3. PICK n \in noted : \A m \in noted : m <= n
      <4>. HIDE DEF noted
      <4>. QED BY <2>2, <3>2, MaxIsGreatest
    <3>4. last \in noted
      <4>. HIDE DEF noted
      <4>. QED BY <3>3
    <3>. HIDE DEF last, noted
    <3>5. accepted[last] \in ContextEvent
      BY <1>2, <3>1, <3>4
    <3>6. accepted[last].hash \in Hash
      BY <3>5 DEF ContextEvent
    <3>. QED BY <2>1, <2>2, <3>6
  <2>3. CASE noted = {}
    BY <2>1, <2>3
  <2>. QED BY <2>2, <2>3
<1>. QED BY <1>3, <1>4

-----------------------------------------------------------------------------
(* The invariant. *)

\* How the agent writes a transcript: a remark, or a call and then its result.
Follows(t, p) ==
  /\ t[p].kind = "said" => t[p].use = 0 /\ t[p].key = Absent
  /\ t[p].kind = "call" => /\ t[p].use = p /\ t[p].key # Absent
                           /\ p < Len(t) => t[p + 1].kind = "result"
  /\ t[p].kind = "result" => /\ p - 1 \in DOMAIN t /\ t[p - 1].kind = "call"
                             /\ t[p].use = p - 1 /\ t[p].key = t[p - 1].key
Orderly(t) == \A p \in DOMAIN t : Follows(t, p)
\* A result that is blank looks it.
BlankLooksIt(e) == e.kind = "result" /\ e.answer.says = "" => "nothing" \in e.answer.cues

Typed ==
  /\ transcript \in Seq(Entry) /\ stored \in Seq(ContextEvent)
  /\ TrafficTypeOK /\ Orderly(transcript) /\ \A p \in DOMAIN transcript : BlankLooksIt(transcript[p])
  /\ readTo = 0 \/ readTo \in cuts
  /\ \A p \in untold : transcript[p].kind = "result" /\ transcript[p].answer.failed

\* Entry p, as the transcript and as a hook report it.
FromTail(p) == fromTranscript(p, transcript[p])
FromHook(p) == fromHook(p, transcript[p])

\* What is stored was reported: by a hook, or from what a tail has read.
Reported ==
  \A e \in Rows :
    /\ e.at \in DOMAIN transcript
    /\ \/ e = FromTail(e.at) /\ e.at <= readTo
       \/ e = FromHook(e.at) /\ transcript[e.at].kind # "call" /\ "hook" \in setting.ways

\* All the engine may drop of a transcript it has not seen before.
Passing(e) == e.type = "FILE_CHANGED" \/ (e.type = "TOOL_RESULT" /\ looksLike(e, {"nothing", "benign"}))

\* What was reported is stored, or the engine dropped it.
TailKept ==
  \A p \in 1 .. readTo : FromTail(p) \in Rows \/ (p \in dropped /\ Passing(FromTail(p)))
HookKept ==
  "hook" \in setting.ways =>
    \A p \in DOMAIN transcript : transcript[p].kind # "call" /\ p \notin untold =>
      FromHook(p) \in Rows \/ p \in dropped

TrafficInv == Typed /\ Reported /\ TailKept /\ HookKept /\ ScratchIsNoIssue

-----------------------------------------------------------------------------
(* An entry of a transcript, and what is reported of it. *)

\* What a hook reports of an entry.
LEMMA HookIs ==
  ASSUME NEW p \in Nat, NEW e \in Entry, e.kind = "said" => e.key = Absent
  PROVE  /\ fromHook(p, e) \in ContextEvent
         /\ fromHook(p, e).at = p /\ fromHook(p, e).by = "hook" /\ fromHook(p, e).use = 0
         /\ fromHook(p, e).type \in {"USER_MESSAGE", "COMMAND_EXECUTED", "FILE_CHANGED", "TOOL_RESULT"}
         /\ e.kind = "said" => fromHook(p, e).type = "USER_MESSAGE" /\ fromHook(p, e).key = Absent
         /\ e.kind # "said" =>
              /\ fromHook(p, e).key = e.key
              /\ e.key \in Shell => /\ fromHook(p, e).type = "COMMAND_EXECUTED" /\ fromHook(p, e).exit # Absent
                                    /\ fromHook(p, e).says = e.answer.says
              /\ e.key \in File => fromHook(p, e).type = "FILE_CHANGED"
              /\ e.key \in Look => fromHook(p, e).type = "TOOL_RESULT" /\ fromHook(p, e).says = e.answer.says
<1>0. /\ e.key \in Shell \cup Look \cup File \cup {Absent} /\ e.hash \in Hash /\ e.use \in Nat
      /\ e.answer \in Answer
  BY DEF Entry
<1>1. e.answer.says \in Text /\ e.answer.cues \in SUBSET Cue
  BY <1>0 DEF Answer
<1>f. Fine \in Answer
  BY EventsAssumption DEF Answer, Fine
<1>2. Absent # "zero" /\ Absent # "other"
  BY EventsAssumption
<1>3. ASSUME NEW type \in EVENT_TYPES, NEW key \in Shell \cup Look \cup File \cup {Absent}
      PROVE  LET x == Event0(type, "hook", p, e, 0, key) IN
             /\ x \in ContextEvent /\ x.at = p /\ x.by = "hook" /\ x.use = 0 /\ x.type = type /\ x.key = key
             /\ x.says = e.answer.says
  BY <1>0, <1>1 DEF Event0, ContextEvent
<1>4. CASE e.kind = "said"
  <2>1. fromHook(p, e) = Event0("USER_MESSAGE", "hook", p, e, 0, Absent)
    BY <1>4, EventsAssumption DEF fromHook
  <2>2. "USER_MESSAGE" \in EVENT_TYPES
    BY DEF EVENT_TYPES
  <2>. QED BY <1>3, <1>4, <2>1, <2>2
<1>5. CASE e.kind # "said" /\ e.key \in Shell
  <2>1. PICK x : x = Event0("COMMAND_EXECUTED", "hook", p, e, 0, e.key)
    OBVIOUS
  <2>2. fromHook(p, e) = [x EXCEPT !.exit = IF e.answer.failed THEN "other" ELSE "zero"]
    BY <1>5, <2>1, EventsAssumption DEF fromHook
  <2>3. "COMMAND_EXECUTED" \in EVENT_TYPES
    BY DEF EVENT_TYPES
  <2>4. /\ x \in ContextEvent /\ x.at = p /\ x.by = "hook" /\ x.use = 0 /\ x.type = "COMMAND_EXECUTED"
        /\ x.key = e.key /\ x.says = e.answer.says
    BY <1>0, <1>3, <2>1, <2>3
  <2>. QED BY <1>2, <1>5, <2>2, <2>4, EventsAssumption DEF ContextEvent
<1>6. CASE e.kind # "said" /\ e.key \in File
  <2>1. PICK quiet : quiet = [e EXCEPT !.answer = Fine]
    OBVIOUS
  <2>2. quiet \in Entry /\ quiet.hash \in Hash /\ quiet.answer.says \in Text /\ quiet.answer.cues \in SUBSET Cue
    BY <1>0, <1>f, <2>1 DEF Entry, Answer
  <2>3. fromHook(p, e) = Event0("FILE_CHANGED", "hook", p, quiet, 0, e.key)
    BY <1>6, <2>1, EventsAssumption DEF fromHook
  <2>4. fromHook(p, e) \in ContextEvent
    BY <1>0, <2>2, <2>3 DEF Event0, ContextEvent, EVENT_TYPES
  <2>5. /\ fromHook(p, e).at = p /\ fromHook(p, e).by = "hook" /\ fromHook(p, e).use = 0
        /\ fromHook(p, e).type = "FILE_CHANGED" /\ fromHook(p, e).key = e.key
    BY <2>3 DEF Event0
  <2>. QED BY <1>6, <2>4, <2>5, EventsAssumption
<1>7. CASE e.kind # "said" /\ e.key \notin Shell \cup File
  <2>1. fromHook(p, e) = Event0("TOOL_RESULT", "hook", p, e, 0, e.key)
    BY <1>7 DEF fromHook
  <2>2. "TOOL_RESULT" \in EVENT_TYPES
    BY DEF EVENT_TYPES
  <2>. QED BY <1>0, <1>3, <1>7, <2>1, <2>2
<1>. QED BY <1>4, <1>5, <1>6, <1>7

\* What the transcript reports of an entry.
LEMMA TailIs ==
  ASSUME NEW p \in Nat, NEW e \in Entry
  PROVE  /\ fromTranscript(p, e) \in ContextEvent
         /\ fromTranscript(p, e).at = p /\ fromTranscript(p, e).by = "transcript" /\ fromTranscript(p, e).exit = Absent
         /\ fromTranscript(p, e).says = e.answer.says /\ fromTranscript(p, e).cues = e.answer.cues
         /\ e.kind = "said" => /\ fromTranscript(p, e).type = "USER_MESSAGE" /\ fromTranscript(p, e).key = Absent
                               /\ fromTranscript(p, e).use = 0
         /\ e.kind = "call" => /\ fromTranscript(p, e).key = e.key /\ fromTranscript(p, e).use = e.use
                               /\ fromTranscript(p, e).type = IF e.key \in File THEN "FILE_CHANGED" ELSE "TOOL_CALL"
         /\ e.kind = "result" => /\ fromTranscript(p, e).key = Absent /\ fromTranscript(p, e).use = e.use
                                 /\ fromTranscript(p, e).type =
                                      IF e.answer.failed THEN "ERROR_DETECTED" ELSE "TOOL_RESULT"
<1>0. /\ e.key \in Shell \cup Look \cup File \cup {Absent} /\ e.hash \in Hash /\ e.use \in Nat
      /\ e.answer \in Answer /\ e.kind \in {"call", "result", "said"}
  BY DEF Entry
<1>1. e.answer.says \in Text /\ e.answer.cues \in SUBSET Cue
  BY <1>0 DEF Answer
<1>3. ASSUME NEW type \in EVENT_TYPES, NEW key \in Shell \cup Look \cup File \cup {Absent}, NEW use \in Nat
      PROVE  LET x == Event0(type, "transcript", p, e, use, key) IN
             /\ x \in ContextEvent /\ x.at = p /\ x.by = "transcript" /\ x.use = use /\ x.type = type /\ x.key = key
             /\ x.says = e.answer.says /\ x.cues = e.answer.cues /\ x.exit = Absent
  BY <1>0, <1>1 DEF Event0, ContextEvent
<1>4. {"USER_MESSAGE", "FILE_CHANGED", "TOOL_CALL", "ERROR_DETECTED", "TOOL_RESULT"} \subseteq EVENT_TYPES
  BY DEF EVENT_TYPES
<1>5. CASE e.kind = "said"
  <2>1. fromTranscript(p, e) = Event0("USER_MESSAGE", "transcript", p, e, 0, Absent)
    BY <1>5 DEF fromTranscript
  <2>. QED BY <1>3, <1>4, <1>5, <2>1
<1>6. CASE e.kind = "call"
  <2>1. fromTranscript(p, e) =
          Event0(IF e.key \in File THEN "FILE_CHANGED" ELSE "TOOL_CALL", "transcript", p, e, e.use, e.key)
    BY <1>6 DEF fromTranscript
  <2>2. (IF e.key \in File THEN "FILE_CHANGED" ELSE "TOOL_CALL") \in EVENT_TYPES
    BY <1>4
  <2>. QED BY <1>0, <1>3, <1>6, <2>1, <2>2
<1>7. CASE e.kind = "result"
  <2>1. PICK type \in EVENT_TYPES : type = IF e.answer.failed THEN "ERROR_DETECTED" ELSE "TOOL_RESULT"
    BY <1>4
  <2>2. PICK x : x = Event0(type, "transcript", p, e, e.use, Absent)
    OBVIOUS
  <2>3. fromTranscript(p, e) = [x EXCEPT !.hash = ""]
    BY <1>7, <2>1, <2>2 DEF fromTranscript
  <2>4. /\ x \in ContextEvent /\ x.at = p /\ x.by = "transcript" /\ x.use = e.use /\ x.type = type /\ x.key = Absent
        /\ x.says = e.answer.says /\ x.cues = e.answer.cues /\ x.exit = Absent
    BY <1>0, <1>3, <2>2
  <2>5. [x EXCEPT !.hash = ""] \in ContextEvent
    <3>1. "" \in Hash
      BY EventsAssumption
    <3>2. \A h \in Hash : [x EXCEPT !.hash = h] \in ContextEvent
      BY <2>4 DEF ContextEvent
    <3>. QED BY <3>1, <3>2
  <2>6. LET y == [x EXCEPT !.hash = ""] IN
        /\ y.at = p /\ y.by = "transcript" /\ y.use = e.use /\ y.type = type /\ y.key = Absent
        /\ y.says = e.answer.says /\ y.cues = e.answer.cues /\ y.exit = Absent
    BY <2>4 DEF ContextEvent
  <2>. QED BY <1>7, <2>1, <2>3, <2>5, <2>6
<1>. QED BY <1>0, <1>5, <1>6, <1>7

\* Only a write, or a result that tells nothing, is dropped of what is not known yet.
LEMMA OnlyPassing ==
  ASSUME NEW p \in Nat, NEW e \in Entry, stored \in Seq(ContextEvent),
         Decision(fromTranscript(p, e)) = "discard", fromTranscript(p, e) \notin Rows
  PROVE  Passing(fromTranscript(p, e))
<1>1. PICK x : x = fromTranscript(p, e)
  OBVIOUS
<1>2. /\ x.by = "transcript"
      /\ x.type \in {"USER_MESSAGE", "FILE_CHANGED", "TOOL_CALL", "ERROR_DETECTED", "TOOL_RESULT"}
      /\ x.type # "FILE_CHANGED" => x.key \notin File
  <2>1. e.kind \in {"call", "result", "said"}
    BY DEF Entry
  <2>2. Absent \notin File
    BY EventsAssumption
  <2>3. CASE e.kind = "call"
    BY <1>1, <2>3, TailIs
  <2>4. CASE e.kind # "call"
    BY <1>1, <2>1, <2>2, <2>4, TailIs
  <2>. QED BY <2>3, <2>4
<1>3. ~isDuplicate(x)
  BY <1>1, <1>2, KnownIs
<1>4. CASE x.type = "FILE_CHANGED"
  BY <1>1, <1>4 DEF Passing
<1>5. CASE x.type # "FILE_CHANGED"
  <2>1. x.key \notin Excluded
    BY <1>2, <1>5, EventsAssumption
  <2>2. classifyImportance(x) = "ephemeral"
    BY <1>1, <1>3, <1>5, <2>1 DEF Decision, process, fileUnchanged
  <2>3. x.type = "TOOL_RESULT" /\ looksLike(x, {"nothing", "benign"})
    BY <1>2, <1>5, <2>2 DEF classifyImportance
  <2>. QED BY <1>1, <2>3 DEF Passing
<1>. QED BY <1>4, <1>5

-----------------------------------------------------------------------------
(* The agent's steps. *)

\* The next entry of a transcript, and whether a hook tells of it.
Fits(e, told) ==
  /\ e \in Entry /\ told \in BOOLEAN /\ BlankLooksIt(e)
  /\ e.kind = "said" => ~UnderWay /\ e.use = 0 /\ e.key = Absent /\ told
  /\ e.kind = "call" => ~UnderWay /\ e.use = Len(transcript) + 1 /\ e.key # Absent /\ ~told
  /\ e.kind = "result" => /\ UnderWay /\ e.use = Len(transcript) /\ e.key = transcript[Len(transcript)].key
                          /\ told \/ e.answer.failed

\* Whatever the agent does, it writes an entry that fits.
LEMMA AgentWritesEntries ==
  ASSUME Typed
  PROVE  /\ \A key \in setting.keys, hash \in setting.hashes \cup {""} :
              Calls(key, hash) => \E e, told : Fits(e, told) /\ Writes(e, told)
         /\ \A answer \in setting.answers, told \in BOOLEAN :
              Returns(answer, told) => \E e : Fits(e, told) /\ Writes(e, told)
         /\ \A text \in setting.remarks : Says(text) => \E e : Fits(e, TRUE) /\ Writes(e, TRUE)
<1>0. /\ setting.keys \subseteq Shell \cup Look \cup File /\ setting.answers \subseteq Answer
      /\ setting.hashes \subseteq Hash /\ setting.remarks \subseteq Text
  <2>1. setting \in Settings
    BY DEF Typed, TrafficTypeOK
  <2>. QED BY <2>1, TrafficAssumption
<1>1. Fine \in Answer /\ "" \in Hash /\ Absent \notin Shell \cup Look \cup File
  BY EventsAssumption DEF Answer, Fine
<1>2. Len(transcript) \in Nat /\ \A p \in DOMAIN transcript : transcript[p] \in Entry
  BY DEF Typed
<1>6. Len(transcript) + 1 \in Nat
  BY <1>2
<1>3. ASSUME NEW key \in setting.keys, NEW hash \in setting.hashes \cup {""}, Calls(key, hash)
      PROVE  \E e, told : Fits(e, told) /\ Writes(e, told)
  <2>1. PICK e : e = [kind |-> "call", use |-> Len(transcript) + 1, key |-> key, hash |-> hash, answer |-> Fine]
    OBVIOUS
  <2>2. Writes(e, FALSE) /\ ~UnderWay
    BY <1>3, <2>1 DEF Calls
  <2>3. key \in Shell \cup Look \cup File /\ hash \in Hash
    BY <1>0, <1>1
  <2>4. e \in Entry
    <3>. QED BY <1>1, <1>6, <2>1, <2>3 DEF Entry
  <2>5. Fits(e, FALSE)
    BY <1>1, <2>1, <2>2, <2>3, <2>4 DEF Fits, BlankLooksIt
  <2>. QED BY <2>2, <2>5
<1>4. ASSUME NEW answer \in setting.answers, NEW told \in BOOLEAN, Returns(answer, told)
      PROVE  \E e : Fits(e, told) /\ Writes(e, told)
  <2>1. PICK call : call = transcript[Len(transcript)]
    OBVIOUS
  <2>2. PICK e : e = [call EXCEPT !.kind = "result", !.answer = answer]
    OBVIOUS
  <2>3. UnderWay /\ Writes(e, told) /\ (told \/ answer.failed)
    BY <1>4, <2>1, <2>2 DEF Returns
  <2>4. Len(transcript) \in DOMAIN transcript /\ call.kind = "call"
    BY <2>1, <2>3 DEF UnderWay, Typed
  <2>5. call \in Entry /\ call.use = Len(transcript)
    BY <1>2, <2>1, <2>4 DEF Typed, Orderly, Follows
  <2>6. answer \in Answer /\ (answer.says = "" => "nothing" \in answer.cues)
    <3>1. setting \in Settings
      BY DEF Typed, TrafficTypeOK
    <3>. QED BY <1>0, <3>1, TrafficAssumption
  <2>7. e \in Entry /\ e.kind = "result" /\ e.answer = answer /\ e.use = call.use /\ e.key = call.key
    BY <2>2, <2>5, <2>6 DEF Entry
  <2>8. BlankLooksIt(e)
    BY <2>6, <2>7 DEF BlankLooksIt
  <2>9. Fits(e, told)
    BY <2>1, <2>3, <2>5, <2>7, <2>8 DEF Fits
  <2>. QED BY <2>3, <2>9
<1>5. ASSUME NEW text \in setting.remarks, Says(text)
      PROVE  \E e : Fits(e, TRUE) /\ Writes(e, TRUE)
  <2>1. PICK answer : answer = [Fine EXCEPT !.says = text]
    OBVIOUS
  <2>2. PICK e : e = [kind |-> "said", use |-> 0, key |-> Absent, hash |-> "", answer |-> answer]
    OBVIOUS
  <2>3. Writes(e, TRUE) /\ ~UnderWay
    BY <1>5, <2>1, <2>2 DEF Says
  <2>4. text \in Text
    BY <1>0
  <2>5. answer \in Answer
    BY <1>1, <2>1, <2>4 DEF Answer
  <2>6. e \in Entry
    BY <1>1, <2>2, <2>5 DEF Entry
  <2>7. Fits(e, TRUE)
    BY <2>2, <2>3, <2>6 DEF Fits, BlankLooksIt
  <2>. QED BY <2>3, <2>7
<1>. QED BY <1>3, <1>4, <1>5

\* The transcript stays in order.
LEMMA WrittenGrows ==
  ASSUME Typed, NEW e, NEW told, Fits(e, told)
  PROVE  \E t :
           /\ t = Append(transcript, e) /\ t \in Seq(Entry)
           /\ Len(t) = Len(transcript) + 1 /\ t[Len(transcript) + 1] = e
           /\ \A p \in DOMAIN transcript : p \in DOMAIN t /\ t[p] = transcript[p]
           /\ Orderly(t)
<1>0. PICK t : t = Append(transcript, e)
  OBVIOUS
<1>1. /\ t \in Seq(Entry) /\ Len(t) = Len(transcript) + 1 /\ t[Len(transcript) + 1] = e
      /\ DOMAIN t = 1 .. Len(transcript) + 1 /\ DOMAIN transcript = 1 .. Len(transcript)
      /\ \A p \in 1 .. Len(transcript) : t[p] = transcript[p]
  BY <1>0, AppendProperties DEF Typed, Fits
<1>6. Len(transcript) \in Nat
  BY DEF Typed
<1>2. UnderWay <=> Len(transcript) # 0 /\ transcript[Len(transcript)].kind = "call"
  BY DEF UnderWay, Typed
<1>3. ASSUME NEW p \in 1 .. Len(transcript)
      PROVE  Follows(t, p)
  <2>1. t[p] = transcript[p] /\ p \in DOMAIN transcript
    BY <1>1
  <2>2. ASSUME t[p].kind = "call", p < Len(t)
        PROVE  t[p + 1].kind = "result"
    <3>1. CASE p = Len(transcript)
      <4>1. UnderWay
        BY <1>2, <2>1, <2>2, <3>1
      <4>2. e.kind \in {"call", "result", "said"}
        BY DEF Fits, Entry
      <4>. QED BY <1>1, <3>1, <4>1, <4>2 DEF Fits
    <3>2. CASE p < Len(transcript)
      <4>1. p + 1 \in 1 .. Len(transcript)
        BY <1>6, <3>2
      <4>2. transcript[p].kind = "call"
        BY <2>1, <2>2
      <4>3. transcript[p + 1].kind = "result"
        BY <2>1, <3>2, <4>2 DEF Typed, Orderly, Follows
      <4>4. t[p + 1] = transcript[p + 1]
        BY <1>1, <4>1
      <4>. QED BY <4>3, <4>4, Zenon
    <3>3. p = Len(transcript) \/ p < Len(transcript)
      BY <1>6
    <3>. QED BY <3>1, <3>2, <3>3, Zenon
  <2>3. ASSUME t[p].kind = "result"
        PROVE  p - 1 \in DOMAIN t /\ t[p - 1].kind = "call" /\ t[p].use = p - 1 /\ t[p].key = t[p - 1].key
    <3>1. /\ p - 1 \in DOMAIN transcript /\ transcript[p - 1].kind = "call"
          /\ transcript[p].use = p - 1 /\ transcript[p].key = transcript[p - 1].key
      BY <2>1, <2>3 DEF Typed, Orderly, Follows
    <3>. QED BY <1>1, <2>1, <3>1
  <2>4. /\ t[p].kind = "said" => t[p].use = 0 /\ t[p].key = Absent
        /\ t[p].kind = "call" => t[p].use = p /\ t[p].key # Absent
    BY <2>1 DEF Typed, Orderly, Follows
  <2>. QED BY <2>2, <2>3, <2>4, Zenon DEF Follows
<1>4. ASSUME NEW p \in 1 .. Len(transcript) + 1, p \notin 1 .. Len(transcript)
      PROVE  Follows(t, p)
  <2>1. p = Len(transcript) + 1 /\ t[p] = e /\ ~(p < Len(t)) /\ p - 1 = Len(transcript)
    BY <1>1, <1>4, <1>6
  <2>2. UnderWay => p - 1 \in 1 .. Len(transcript) /\ transcript[p - 1].kind = "call"
    BY <1>1, <1>2, <1>6, <2>1
  <2>3. /\ e.kind = "said" => e.use = 0 /\ e.key = Absent
        /\ e.kind = "call" => e.use = p /\ e.key # Absent
        /\ e.kind = "result" => UnderWay /\ e.use = p - 1 /\ e.key = transcript[p - 1].key
    BY <1>1, <2>1 DEF Fits
  <2>4. UnderWay => p - 1 \in DOMAIN t /\ t[p - 1] = transcript[p - 1]
    BY <1>1, <2>1, <2>2
  <2>. QED BY <2>1, <2>2, <2>3, <2>4 DEF Follows
<1>5. Orderly(t)
  <2>1. \A p \in DOMAIN t : p \in 1 .. Len(transcript) + 1
    BY <1>1, Zenon
  <2>2. \A p \in 1 .. Len(transcript) + 1 : Follows(t, p)
    BY <1>3, <1>4
  <2>. QED BY <2>1, <2>2, Zenon DEF Orderly
<1>7. \A p \in DOMAIN transcript : p \in DOMAIN t /\ t[p] = transcript[p]
  BY <1>1, <1>6
<1>. QED BY <1>0, <1>1, <1>5, <1>7, Zenon

\* What a hook tells of a step, and what it does not, keeps the invariant.
LEMMA WritesKeeps ==
  ASSUME TrafficInv, NEW e, NEW told, Fits(e, told), Writes(e, told)
  PROVE  TrafficInv'
<1>0. PICK N \in Nat : N = Len(transcript)
  BY DEF TrafficInv, Typed
<1>1. PICK t :
        /\ t = Append(transcript, e) /\ t \in Seq(Entry)
        /\ Len(t) = N + 1 /\ t[N + 1] = e
        /\ \A p \in DOMAIN transcript : p \in DOMAIN t /\ t[p] = transcript[p]
        /\ Orderly(t)
  BY <1>0, WrittenGrows DEF TrafficInv
<1>2. transcript' = t /\ readTo' = readTo /\ cuts' = cuts /\ setting' = setting
  BY <1>1 DEF Writes
<1>3. N \in Nat /\ DOMAIN transcript = 1 .. N /\ DOMAIN t = 1 .. N + 1 /\ e \in Entry /\ N + 1 \in Nat
  BY <1>0, <1>1 DEF TrafficInv, Typed, Fits
<1>4. untold' = IF told \/ e.kind = "call" THEN untold ELSE untold \cup {N + 1}
  BY <1>0 DEF Writes
<1>5. PICK x : x = fromHook(N + 1, e)
  OBVIOUS
<1>6. \/ /\ "hook" \in setting.ways /\ told /\ e.kind # "call" /\ Ingests(<<x>>)
      \/ /\ ~("hook" \in setting.ways /\ told) /\ stored' = stored /\ index' = index
         /\ issues' = issues /\ dropped' = dropped
  <2>1. Hooked(N + 1, e, told)
    BY <1>0 DEF Writes
  <2>2. told => e.kind # "call"
    BY DEF Fits
  <2>. QED BY <1>5, <2>1, <2>2 DEF Hooked
<1>7. x \in ContextEvent /\ x.at = N + 1 /\ (e.key \in Scratch => e.kind # "said" /\ e.key \in Shell)
  <2>1. e.kind = "said" => e.key = Absent
    BY DEF Fits
  <2>2. Absent \notin Scratch /\ Scratch \subseteq Shell
    BY EventsAssumption
  <2>. QED BY <1>3, <1>5, <2>1, <2>2, HookIs
<1>8. /\ stored' \in Seq(ContextEvent) /\ Rows \subseteq Rows' /\ dropped \subseteq dropped'
      /\ index' \in [File -> Hash]
      /\ \A y \in Rows' : y \in Rows \/ (y = x /\ "hook" \in setting.ways /\ e.kind # "call")
      /\ "hook" \in setting.ways /\ told => x \in Rows' \/ N + 1 \in dropped'
      /\ \A p \in dropped' : p \in dropped \/ p = N + 1
      /\ \A p \in issues' : p \in issues \/ (p = N + 1 /\ \E accepted : recordsIssue(x, accepted))
  <2>0. stored \in Seq(ContextEvent) /\ index \in [File -> Hash]
    BY DEF TrafficInv, Typed, TrafficTypeOK
  <2>1. CASE "hook" \in setting.ways /\ told /\ e.kind # "call" /\ Ingests(<<x>>)
    <3>1. PICK batch : batch = <<x>>
      OBVIOUS
    <3>2. batch \in Seq(ContextEvent) /\ DOMAIN batch = {1} /\ batch[1] = x
      BY <1>7, <3>1
    <3>3. Ingests(batch)
      BY <2>1, <3>1
    <3>4. /\ stored' \in Seq(ContextEvent) /\ Rows \subseteq Rows'
          /\ \A y \in Rows' : y \in Rows \/ \E n \in DOMAIN batch : y = batch[n] /\ Decision(y) # "discard"
          /\ \A n \in DOMAIN batch : batch[n] \in Rows' \/ batch[n].at \in dropped'
          /\ dropped \subseteq dropped'
          /\ \A p \in dropped' : p \in dropped \/ \E n \in DOMAIN batch : p = batch[n].at
          /\ \A p \in issues' : p \in issues \/ \E n \in DOMAIN batch :
               p = batch[n].at /\ Decision(batch[n]) # "discard" /\ recordsIssue(batch[n], accepts(batch))
      BY <2>0, <3>2, <3>3, IngestsIs
    <3>5. index' \in [File -> Hash]
      BY <2>0, <3>2, <3>3, IndexIs
    <3>. QED BY <1>7, <2>1, <3>2, <3>4, <3>5
  <2>2. CASE ~("hook" \in setting.ways /\ told) /\ stored' = stored /\ index' = index
             /\ issues' = issues /\ dropped' = dropped
    BY <2>0, <2>2 DEF Rows
  <2>. QED BY <1>6, <2>1, <2>2
<1>9. \A p \in DOMAIN transcript : transcript'[p] = transcript[p] /\ p \in DOMAIN transcript' /\ p # N + 1
  BY <1>1, <1>2, <1>3
<1>10. N + 1 \in DOMAIN transcript' /\ transcript'[N + 1] = e /\ DOMAIN transcript' = 1 .. N + 1
  BY <1>1, <1>2, <1>3
<1>11. \A p \in DOMAIN transcript : FromTail(p)' = FromTail(p) /\ FromHook(p)' = FromHook(p)
  BY <1>9 DEF FromTail, FromHook
<1>12. FromHook(N + 1)' = x
  BY <1>5, <1>10 DEF FromHook
<1>13. issues \cup dropped \cup untold \cup cuts \subseteq DOMAIN transcript /\ readTo \in 0 .. N
  BY <1>0 DEF TrafficInv, Typed, TrafficTypeOK
<1>14. Typed'
  <2>1. untold' \subseteq untold \cup {N + 1} /\ untold \subseteq untold'
        /\ (N + 1 \in untold' => N + 1 \in untold \/ (~told /\ e.kind # "call"))
    BY <1>4
  <2>2. issues' \cup dropped' \cup untold' \cup cuts' \subseteq DOMAIN transcript'
    BY <1>2, <1>8, <1>9, <1>10, <1>13, <2>1
  <2>3. \A p \in untold' : transcript'[p].kind = "result" /\ transcript'[p].answer.failed
    <3>. TAKE p \in untold'
    <3>1. CASE p \in untold
      <4>1. transcript[p].kind = "result" /\ transcript[p].answer.failed
        BY <3>1 DEF TrafficInv, Typed
      <4>2. transcript'[p] = transcript[p]
        BY <1>9, <1>13, <3>1
      <4>. QED BY <4>1, <4>2
    <3>2. CASE p \notin untold
      <4>1. p = N + 1 /\ ~told /\ e.kind # "call"
        BY <2>1, <3>2
      <4>2. e.kind \in {"call", "result", "said"}
        BY <1>3 DEF Entry
      <4>3. e.kind = "result" /\ e.answer.failed
        BY <4>1, <4>2 DEF Fits
      <4>. QED BY <1>10, <4>1, <4>3
    <3>. QED BY <3>1, <3>2
  <2>4. readTo' \in 0 .. Len(transcript')
    BY <1>1, <1>2, <1>3, <1>13
  <2>5. /\ \A p \in DOMAIN transcript' : transcript'[p] \in Entry
        /\ \A n \in DOMAIN stored' : stored'[n] \in ContextEvent
    BY <1>1, <1>2, <1>8
  <2>6. setting' \in Settings /\ (readTo' = 0 \/ readTo' \in cuts')
    BY <1>2 DEF TrafficInv, Typed, TrafficTypeOK
  <2>7. \A p \in DOMAIN transcript' : BlankLooksIt(transcript'[p])
    <3>1. \A p \in 1 .. N + 1 : p = N + 1 \/ p \in 1 .. N
      BY <1>3
    <3>2. \A p \in 1 .. N : BlankLooksIt(transcript[p])
      BY <1>3 DEF TrafficInv, Typed
    <3>3. BlankLooksIt(e)
      BY DEF Fits
    <3>. QED BY <1>3, <1>9, <1>10, <3>1, <3>2, <3>3, Zenon
  <2>. QED BY <1>1, <1>2, <1>8, <2>2, <2>3, <2>4, <2>5, <2>6, <2>7 DEF Typed, TrafficTypeOK, BlankLooksIt
<1>15. Reported'
  <2>. SUFFICES ASSUME NEW y \in Rows'
                PROVE  /\ y.at \in DOMAIN transcript'
                       /\ \/ y = FromTail(y.at)' /\ y.at <= readTo'
                          \/ y = FromHook(y.at)' /\ transcript'[y.at].kind # "call" /\ "hook" \in setting'.ways
    BY DEF Reported
  <2>1. CASE y \in Rows
    <3>1. /\ y.at \in DOMAIN transcript
          /\ \/ y = FromTail(y.at) /\ y.at <= readTo
             \/ y = FromHook(y.at) /\ transcript[y.at].kind # "call" /\ "hook" \in setting.ways
      BY <2>1 DEF TrafficInv, Reported
    <3>2. /\ FromTail(y.at)' = FromTail(y.at) /\ FromHook(y.at)' = FromHook(y.at)
          /\ transcript'[y.at] = transcript[y.at] /\ y.at \in DOMAIN transcript'
      BY <1>9, <1>11, <3>1
    <3>. QED BY <1>2, <3>1, <3>2
  <2>2. CASE y \notin Rows
    <3>1. y = x /\ "hook" \in setting.ways /\ e.kind # "call"
      BY <1>8, <2>2
    <3>2. y.at = N + 1
      BY <1>7, <3>1
    <3>3. y = FromHook(y.at)'
      BY <1>12, <3>1, <3>2
    <3>. QED BY <1>2, <1>10, <3>1, <3>2, <3>3
  <2>. QED BY <2>1, <2>2
<1>16. TailKept'
  <2>. SUFFICES ASSUME NEW p \in 1 .. readTo'
                PROVE  FromTail(p)' \in Rows' \/ (p \in dropped' /\ Passing(FromTail(p)'))
    BY DEF TailKept, Passing, looksLike
  <2>1. p \in 1 .. readTo /\ p \in DOMAIN transcript
    BY <1>2, <1>3, <1>13
  <2>2. FromTail(p) \in Rows \/ (p \in dropped /\ Passing(FromTail(p)))
    BY <2>1 DEF TrafficInv, TailKept
  <2>3. FromTail(p)' = FromTail(p)
    BY <1>11, <2>1
  <2>. QED BY <1>8, <2>2, <2>3
<1>17. HookKept'
  <2>. SUFFICES ASSUME "hook" \in setting'.ways,
                       NEW p \in DOMAIN transcript', transcript'[p].kind # "call", p \notin untold'
                PROVE  FromHook(p)' \in Rows' \/ p \in dropped'
    BY DEF HookKept
  <2>1. CASE p \in DOMAIN transcript
    <3>1. p \notin untold
      BY <1>4
    <3>2. "hook" \in setting.ways /\ transcript[p].kind # "call"
      BY <1>2, <1>9, <2>1
    <3>3. FromHook(p) \in Rows \/ p \in dropped
      BY <2>1, <3>1, <3>2 DEF TrafficInv, HookKept
    <3>4. FromHook(p)' = FromHook(p)
      BY <1>11, <2>1
    <3>. QED BY <1>8, <3>3, <3>4
  <2>2. CASE p \notin DOMAIN transcript
    <3>1. p = N + 1
      BY <1>3, <1>10, <2>2
    <3>2. told
      BY <1>4, <1>10, <3>1
    <3>. QED BY <1>2, <1>8, <1>12, <3>1, <3>2
  <2>. QED BY <2>1, <2>2
<1>18. ScratchIsNoIssue'
  <2>. SUFFICES ASSUME NEW p \in issues', transcript'[p].key \in Scratch
                PROVE  p - 1 \in cuts'
    BY DEF ScratchIsNoIssue
  <2>1. CASE p \in issues
    <3>1. transcript'[p] = transcript[p]
      BY <1>9, <1>13, <2>1
    <3>2. p - 1 \in cuts
      BY <2>1, <3>1 DEF TrafficInv, ScratchIsNoIssue
    <3>. QED BY <1>2, <3>2
  <2>2. CASE p \notin issues
    <3>1. p = N + 1 /\ \E accepted : recordsIssue(x, accepted)
      BY <1>8, <2>2
    <3>2. e.key \in Scratch
      BY <1>10, <3>1
    <3>3. x.type = "COMMAND_EXECUTED" /\ x.key \in Scratch
      <4>1. e.kind # "said" /\ e.key \in Shell
        BY <1>7, <3>2
      <4>. QED BY <1>3, <1>5, <3>2, <4>1, HookIs
    <3>. QED BY <3>1, <3>3 DEF recordsIssue, isScratchCommand
  <2>. QED BY <2>1, <2>2
<1>. QED BY <1>14, <1>15, <1>16, <1>17, <1>18 DEF TrafficInv

-----------------------------------------------------------------------------
(* The tail's step. *)

\* The failure of a throwaway one-liner is told by the call before it: where the call is
\* read in the same stretch, no issue is recorded.
LEMMA ScratchSpared ==
  ASSUME TrafficInv, NEW from \in Nat, from <= readTo, NEW batch \in Seq(ContextEvent),
         from <= Len(transcript), DOMAIN batch = 1 .. Len(transcript) - from,
         \A n \in DOMAIN batch : batch[n] = FromTail(from + n),
         Ingests(batch),
         NEW p \in from + 1 .. Len(transcript), FromTail(p) \notin Rows,
         recordsIssue(FromTail(p), accepts(batch)), transcript[p].key \in Scratch
  PROVE  p - 1 \in cuts
<1>0. PICK N \in Nat : N = Len(transcript)
  BY DEF TrafficInv, Typed
<1>1. PICK x : x = FromTail(p)
  OBVIOUS
<1>2. /\ p \in 1 .. N /\ p \in DOMAIN transcript /\ transcript[p] \in Entry /\ readTo \in 0 .. N
      /\ stored \in Seq(ContextEvent)
  BY <1>0 DEF TrafficInv, Typed, TrafficTypeOK
<1>3. x.type # "COMMAND_EXECUTED" /\ (x.type = "ERROR_DETECTED" => transcript[p].kind = "result")
  <2>1. transcript[p].kind \in {"call", "result", "said"}
    BY <1>2 DEF Entry
  <2>. QED BY <1>1, <1>2, <2>1, TailIs DEF FromTail
<1>4. /\ x.type = "ERROR_DETECTED" /\ transcript[p].kind = "result"
      /\ \A c \in commandOfCall(accepts(batch), x.use) : ~isScratchCommand(c)
  BY <1>1, <1>3 DEF recordsIssue
<1>5. /\ p - 1 \in DOMAIN transcript /\ transcript[p - 1].kind = "call" /\ transcript[p - 1].key \in Scratch
      /\ transcript[p].use = p - 1 /\ transcript[p - 1].use = p - 1
  BY <1>2, <1>4 DEF TrafficInv, Typed, Orderly, Follows
<1>6. p - 1 \in 1 .. N /\ transcript[p - 1] \in Entry
  BY <1>0, <1>2, <1>5 DEF TrafficInv, Typed
<1>7. x.use = p - 1
  BY <1>1, <1>2, <1>4, <1>5, TailIs DEF FromTail
<1>8. p > readTo
  <2>1. CASE p <= readTo
    <3>1. p \in 1 .. readTo
      BY <1>2, <2>1
    <3>2. Passing(x)
      BY <1>1, <3>1 DEF TrafficInv, TailKept
    <3>. QED BY <1>4, <3>2 DEF Passing
  <2>. QED BY <1>2, <2>1
<1>9. CASE p - 1 = readTo
  <2>1. readTo # 0
    BY <1>6, <1>9
  <2>. QED BY <1>9, <2>1 DEF TrafficInv, Typed
<1>10. CASE p - 1 # readTo
  <2>1. p - 1 > readTo /\ p - 1 - from \in 1 .. N - from /\ from + (p - 1 - from) = p - 1
    BY <1>2, <1>6, <1>8, <1>10
  <2>2. PICK y : y = FromTail(p - 1)
    OBVIOUS
  <2>3. PICK n \in DOMAIN batch : batch[n] = y
    BY <1>0, <2>1, <2>2
  <2>4. Scratch \subseteq Shell /\ Scratch \cap File = {}
    BY EventsAssumption
  <2>5. y.at = p - 1 /\ y.use = p - 1 /\ y.key = transcript[p - 1].key /\ y.type = "TOOL_CALL"
    BY <1>5, <1>6, <2>2, <2>4, TailIs DEF FromTail
  <2>6. y \notin Rows
    <3>1. y \in Rows => y.at <= readTo \/ transcript[y.at].kind # "call"
      BY DEF TrafficInv, Reported
    <3>. QED BY <1>2, <1>5, <1>6, <2>1, <2>5, <3>1
  <2>7. Decision(y) # "discard"
    <3>1. Decision(y) = "discard" => Passing(y)
      BY <1>2, <1>6, <2>2, <2>6, OnlyPassing DEF FromTail
    <3>. QED BY <2>5, <3>1 DEF Passing
  <2>8. PICK k \in DOMAIN accepts(batch) : accepts(batch)[k] = y
    BY <1>2, <2>3, <2>7, IngestsIs
  <2>9. y.key \in commandOfCall(accepts(batch), p - 1)
    <3>1. p - 1 # 0 /\ y.key \in Shell
      BY <1>5, <1>6, <2>4, <2>5
    <3>. QED BY <2>5, <2>8, <3>1 DEF commandOfCall
  <2>. QED BY <1>4, <1>5, <1>7, <2>5, <2>9 DEF isScratchCommand
<1>. QED BY <1>9, <1>10

\* A tail that reads a stretch keeps the invariant.
LEMMA TailsKeeps ==
  ASSUME TrafficInv, NEW from \in {0, readTo}, Tails(from)
  PROVE  TrafficInv'
<1>0. PICK N \in Nat : N = Len(transcript)
  BY DEF TrafficInv, Typed
<1>1. /\ from \in Nat /\ from <= readTo /\ readTo \in 0 .. N /\ from < N /\ DOMAIN transcript = 1 .. N
      /\ \A p \in 1 .. N : transcript[p] \in Entry
      /\ stored \in Seq(ContextEvent) /\ index \in [File -> Hash] /\ issues \cup dropped \cup untold \cup cuts \subseteq 1 .. N
  BY <1>0 DEF TrafficInv, Typed, TrafficTypeOK, Tails
<1>2. PICK batch : batch = [n \in 1 .. N - from |-> fromTranscript(from + n, transcript[from + n])]
  OBVIOUS
<1>3. /\ Ingests(batch) /\ readTo' = N /\ cuts' = cuts \cup {N}
      /\ transcript' = transcript /\ untold' = untold /\ setting' = setting
  BY <1>0, <1>2 DEF Tails
<1>4. /\ DOMAIN batch = 1 .. N - from /\ \A n \in 1 .. N - from : batch[n] = FromTail(from + n)
  BY <1>2 DEF FromTail
<1>5. \A n \in 1 .. N - from : from + n \in 1 .. N /\ from + n \in Nat
  BY <1>1
<1>6. \A p \in 1 .. N : FromTail(p) \in ContextEvent /\ FromTail(p).at = p
  BY <1>1, TailIs DEF FromTail
<1>7. batch \in Seq(ContextEvent)
  <2>1. \A n \in 1 .. N - from : batch[n] \in ContextEvent
    BY <1>4, <1>5, <1>6
  <2>2. batch = [n \in 1 .. N - from |-> batch[n]]
    BY <1>2
  <2>3. batch \in [1 .. N - from -> ContextEvent]
    BY <2>1, <2>2
  <2>4. N - from \in Nat
    BY <1>1
  <2>. QED BY <2>3, <2>4, AsItIs
<1>8. /\ stored' \in Seq(ContextEvent) /\ Rows \subseteq Rows'
      /\ \A y \in Rows' : y \in Rows \/ \E n \in DOMAIN batch : y = batch[n] /\ Decision(y) # "discard"
      /\ \A n \in DOMAIN batch : Decision(batch[n]) # "discard" => batch[n] \in Rows'
      /\ \A n \in DOMAIN batch : batch[n] \in Rows' \/ batch[n].at \in dropped'
      /\ dropped \subseteq dropped'
      /\ \A p \in dropped' : p \in dropped \/ \E n \in DOMAIN batch : p = batch[n].at
      /\ \A p \in issues' : p \in issues \/ \E n \in DOMAIN batch :
           p = batch[n].at /\ Decision(batch[n]) # "discard" /\ recordsIssue(batch[n], accepts(batch))
  BY <1>1, <1>3, <1>7, IngestsIs
<1>9. index' \in [File -> Hash]
  BY <1>1, <1>3, <1>7, IndexIs
<1>10. \A p : FromTail(p)' = FromTail(p) /\ FromHook(p)' = FromHook(p)
  BY <1>3 DEF FromTail, FromHook
<1>11. \A n \in DOMAIN batch : batch[n].at = from + n /\ from + n \in 1 .. N
  BY <1>4, <1>5, <1>6
<1>12. Typed'
  <2>1. issues' \cup dropped' \cup untold' \cup cuts' \subseteq 1 .. N
    <3>1. N \in 1 .. N
      BY <1>1
    <3>2. issues' \subseteq 1 .. N /\ dropped' \subseteq 1 .. N
      BY <1>1, <1>8, <1>11
    <3>. QED BY <1>1, <1>3, <3>1, <3>2
  <2>2. \A n \in DOMAIN stored' : stored'[n] \in ContextEvent
    BY <1>8
  <2>3. readTo' \in 0 .. Len(transcript') /\ readTo' \in cuts'
    BY <1>0, <1>3
  <2>4. /\ \A p \in untold' : transcript'[p].kind = "result" /\ transcript'[p].answer.failed
        /\ transcript' \in Seq(Entry) /\ Orderly(transcript') /\ setting' \in Settings
        /\ \A p \in DOMAIN transcript' : transcript'[p] \in Entry
        /\ DOMAIN transcript' = 1 .. N /\ \A p \in DOMAIN transcript' : BlankLooksIt(transcript'[p])
    BY <1>1, <1>3 DEF TrafficInv, Typed, TrafficTypeOK
  <2>. QED BY <1>8, <1>9, <2>1, <2>2, <2>3, <2>4 DEF Typed, TrafficTypeOK, BlankLooksIt
<1>13. Reported'
  <2>. SUFFICES ASSUME NEW y \in Rows'
                PROVE  /\ y.at \in DOMAIN transcript'
                       /\ \/ y = FromTail(y.at)' /\ y.at <= readTo'
                          \/ y = FromHook(y.at)' /\ transcript'[y.at].kind # "call" /\ "hook" \in setting'.ways
    BY DEF Reported
  <2>1. CASE y \in Rows
    <3>1. /\ y.at \in 1 .. N
          /\ \/ y = FromTail(y.at) /\ y.at <= readTo
             \/ y = FromHook(y.at) /\ transcript[y.at].kind # "call" /\ "hook" \in setting.ways
      BY <1>1, <2>1 DEF TrafficInv, Reported
    <3>. QED BY <1>1, <1>3, <1>10, <3>1
  <2>2. CASE y \notin Rows
    <3>1. PICK n \in DOMAIN batch : y = batch[n]
      BY <1>8, <2>2
    <3>2. y.at \in 1 .. N /\ y = FromTail(y.at)
      BY <1>4, <1>11, <3>1
    <3>. QED BY <1>1, <1>3, <1>10, <3>2
  <2>. QED BY <2>1, <2>2
<1>14. TailKept'
  <2>. SUFFICES ASSUME NEW p \in 1 .. readTo'
                PROVE  FromTail(p)' \in Rows' \/ (p \in dropped' /\ Passing(FromTail(p)'))
    BY DEF TailKept, Passing, looksLike
  <2>0. p \in 1 .. N /\ FromTail(p)' = FromTail(p)
    BY <1>3, <1>10
  <2>1. CASE p <= readTo
    <3>1. p \in 1 .. readTo
      BY <1>1, <2>0, <2>1
    <3>2. FromTail(p) \in Rows \/ (p \in dropped /\ Passing(FromTail(p)))
      BY <3>1 DEF TrafficInv, TailKept
    <3>. QED BY <1>8, <2>0, <3>2
  <2>2. CASE p > readTo
    <3>1. p - from \in 1 .. N - from /\ from + (p - from) = p
      BY <1>1, <2>0, <2>2
    <3>2. PICK n \in DOMAIN batch : batch[n] = FromTail(p) /\ batch[n].at = p
      BY <1>4, <1>11, <3>1
    <3>3. CASE FromTail(p) \in Rows'
      BY <2>0, <3>3
    <3>4. CASE FromTail(p) \notin Rows'
      <4>1. Decision(FromTail(p)) = "discard" /\ FromTail(p) \notin Rows /\ p \in dropped'
        BY <1>8, <3>2, <3>4
      <4>2. p \in Nat /\ transcript[p] \in Entry
        BY <1>1, <2>0
      <4>3. Passing(FromTail(p))
        BY <1>1, <4>1, <4>2, OnlyPassing DEF FromTail
      <4>. QED BY <2>0, <4>1, <4>3
    <3>. QED BY <3>3, <3>4
  <2>. QED BY <1>1, <2>0, <2>1, <2>2
<1>15. HookKept'
  <2>1. HookKept
    BY DEF TrafficInv
  <2>. QED BY <1>3, <1>8, <1>10, <2>1 DEF HookKept
<1>16. ScratchIsNoIssue'
  <2>. SUFFICES ASSUME NEW p \in issues', transcript'[p].key \in Scratch
                PROVE  p - 1 \in cuts'
    BY DEF ScratchIsNoIssue
  <2>1. CASE p \in issues
    <3>1. p - 1 \in cuts
      BY <1>3, <2>1 DEF TrafficInv, ScratchIsNoIssue
    <3>. QED BY <1>3, <3>1
  <2>2. CASE p \notin issues
    <3>1. PICK n \in DOMAIN batch :
            p = batch[n].at /\ Decision(batch[n]) # "discard" /\ recordsIssue(batch[n], accepts(batch))
      BY <1>8, <2>2
    <3>2. p \in from + 1 .. N /\ batch[n] = FromTail(p)
      BY <1>1, <1>4, <1>11, <3>1
    <3>3. FromTail(p) \notin Rows
      <4>1. FromTail(p) \in Rows => isDuplicate(FromTail(p))
        BY DEF Rows, isDuplicate
      <4>. QED BY <3>1, <3>2, <4>1 DEF Decision, process
    <3>4. recordsIssue(FromTail(p), accepts(batch)) /\ transcript[p].key \in Scratch
      BY <1>3, <3>1, <3>2
    <3>5. /\ from <= Len(transcript) /\ DOMAIN batch = 1 .. Len(transcript) - from
          /\ \A m \in DOMAIN batch : batch[m] = FromTail(from + m)
          /\ p \in from + 1 .. Len(transcript) /\ from \in Nat /\ from <= readTo /\ Ingests(batch)
      <4>1. Ingests(batch) /\ \A m \in DOMAIN batch : batch[m] = FromTail(from + m)
        BY <1>3, <1>4
      <4>2. from <= N /\ from \in Nat /\ from <= readTo
        BY <1>1
      <4>. QED BY <1>0, <1>4, <3>2, <4>1, <4>2, Zenon
    <3>6. p - 1 \in cuts
      BY <1>7, <3>3, <3>4, <3>5, ScratchSpared
    <3>. QED BY <1>3, <3>6
  <2>. QED BY <2>1, <2>2
<1>. QED BY <1>12, <1>13, <1>14, <1>15, <1>16 DEF TrafficInv

-----------------------------------------------------------------------------
\* Before the session nothing was written, read or stored.
LEMMA TrafficInvInit == TrafficInit => TrafficInv
<1> SUFFICES ASSUME TrafficInit
             PROVE  TrafficInv
  OBVIOUS
<1>0. transcript = <<>> /\ stored = <<>> /\ readTo = 0 /\ untold = {} /\ issues = {} /\ dropped = {} /\ cuts = {}
      /\ setting \in Settings
  BY DEF TrafficInit
<1>1. /\ transcript \in Seq(Entry) /\ stored \in Seq(ContextEvent)
      /\ DOMAIN transcript = {} /\ DOMAIN stored = {} /\ Rows = {} /\ Len(transcript) = 0
  BY <1>0 DEF Rows
<1>2. index \in [File -> Hash]
  BY EventsAssumption DEF TrafficInit
<1>3. Typed
  BY <1>0, <1>1, <1>2 DEF Typed, TrafficTypeOK, Orderly
<1>4. Reported /\ HookKept
  BY <1>1 DEF Reported, HookKept
<1>5. TailKept
  <2>1. 1 .. readTo = {}
    BY <1>0
  <2>. QED BY <2>1 DEF TailKept
<1>6. ScratchIsNoIssue
  BY DEF ScratchIsNoIssue, TrafficInit
<1>. QED BY <1>3, <1>4, <1>5, <1>6 DEF TrafficInv

\* Every step keeps the invariant.
LEMMA TrafficInvStep == TrafficInv /\ [TrafficNext]_trafficVars => TrafficInv'
<1> SUFFICES ASSUME TrafficInv, [TrafficNext]_trafficVars
             PROVE  TrafficInv'
  OBVIOUS
<1>1. CASE \E e, told : Fits(e, told) /\ Writes(e, told)
  BY <1>1, WritesKeeps
<1>2. CASE \E from \in {0, readTo} : Tails(from)
  BY <1>2, TailsKeeps
<1>3. CASE UNCHANGED trafficVars
  <2>1. Typed'
    BY <1>3 DEF trafficVars, TrafficInv, Typed, TrafficTypeOK, Orderly, Follows, BlankLooksIt
  <2>2. Reported' /\ TailKept' /\ HookKept' /\ ScratchIsNoIssue'
    BY <1>3 DEF trafficVars, TrafficInv, Reported, TailKept, HookKept, ScratchIsNoIssue, Rows, FromTail, FromHook,
       Passing, looksLike
  <2>. QED BY <2>1, <2>2 DEF TrafficInv
<1>4. TrafficNext => (\E e, told : Fits(e, told) /\ Writes(e, told)) \/ \E from \in {0, readTo} : Tails(from)
  BY AgentWritesEntries DEF TrafficNext, TrafficInv
<1>. QED BY <1>1, <1>2, <1>3, <1>4

THEOREM ScratchIsSpared == TrafficSpec => []ScratchIsNoIssue
<1>1. TrafficInv => ScratchIsNoIssue
  BY DEF TrafficInv
<1>. QED BY <1>1, TrafficInvInit, TrafficInvStep, PTL DEF TrafficSpec

-----------------------------------------------------------------------------
(* The traffic of the session, in the order of its moments. *)

\* Row m comes no later than row n.
Earlier(m, n) == stored[m].at < stored[n].at \/ (stored[m].at = stored[n].at /\ m <= n)
UpToRow(n) == {m \in DOMAIN stored : Earlier(m, n)}

\* Every row has a place of its own, and the places are in the order of the rows.
LEMMA RankIs ==
  ASSUME stored \in Seq(ContextEvent)
  PROVE  /\ \A n \in DOMAIN stored : Rank(n) \in DOMAIN stored
         /\ \A m, n \in DOMAIN stored : m # n /\ Earlier(m, n) => Rank(m) < Rank(n)
         /\ \A r \in DOMAIN stored : \E n \in DOMAIN stored : Rank(n) = r
<1>0. PICK N \in Nat : N = Len(stored) /\ DOMAIN stored = 1 .. N
  OBVIOUS
<1>1. \A n \in 1 .. N : stored[n].at \in Nat
  <2>1. \A n \in 1 .. N : stored[n] \in ContextEvent
    BY <1>0
  <2>. QED BY <2>1 DEF ContextEvent
<1>2. \A n \in DOMAIN stored : Rank(n) = Cardinality(UpToRow(n))
  BY DEF Rank, UpToRow, Earlier
<1>3. IsFiniteSet(1 .. N) /\ Cardinality(1 .. N) = N
  BY FS_Interval
<1>4. \A n \in 1 .. N : n \in UpToRow(n) /\ UpToRow(n) \in SUBSET (1 .. N)
  BY <1>0, <1>1 DEF UpToRow, Earlier
<1>5. ASSUME NEW n \in 1 .. N
      PROVE  IsFiniteSet(UpToRow(n)) /\ Cardinality(UpToRow(n)) \in 1 .. N
  <2>1. IsFiniteSet(UpToRow(n)) /\ Cardinality(UpToRow(n)) <= N
    BY <1>3, <1>4, FS_Subset
  <2>2. Cardinality(UpToRow(n)) \in Nat /\ Cardinality(UpToRow(n)) # 0
    BY <1>4, <2>1, FS_CardinalityType, FS_EmptySet
  <2>. QED BY <2>1, <2>2
<1>6. ASSUME NEW m \in 1 .. N, NEW n \in 1 .. N, m # n, Earlier(m, n)
      PROVE  Cardinality(UpToRow(m)) < Cardinality(UpToRow(n))
  <2>1. ~Earlier(n, m)
    BY <1>1, <1>6 DEF Earlier
  <2>2. n \in UpToRow(n) /\ n \notin UpToRow(m)
    BY <1>4, <2>1 DEF UpToRow
  <2>3. \A k \in 1 .. N : Earlier(k, m) => Earlier(k, n)
    BY <1>1, <1>6 DEF Earlier
  <2>4. UpToRow(m) \in SUBSET UpToRow(n)
    BY <1>0, <2>3 DEF UpToRow
  <2>5. /\ Cardinality(UpToRow(m)) <= Cardinality(UpToRow(n))
        /\ Cardinality(UpToRow(m)) # Cardinality(UpToRow(n))
    BY <1>5, <2>2, <2>4, FS_Subset
  <2>6. Cardinality(UpToRow(m)) \in Nat /\ Cardinality(UpToRow(n)) \in Nat
    BY <1>5
  <2>. QED BY <2>5, <2>6
<1>7. \A m, n \in 1 .. N : m = n \/ Earlier(m, n) \/ Earlier(n, m)
  BY <1>1 DEF Earlier
<1> DEFINE place == [n \in 1 .. N |-> Cardinality(UpToRow(n))]
<1>8. place \in Surjection(1 .. N, 1 .. N)
  <2>1. place \in [1 .. N -> 1 .. N]
    BY <1>5
  <2>2. \A m, n \in 1 .. N : place[m] = place[n] => m = n
    <3>1. \A n \in 1 .. N : place[n] = Cardinality(UpToRow(n)) /\ place[n] \in Nat
      BY <1>5
    <3>. HIDE DEF place
    <3>. QED BY <1>6, <1>7, <3>1
  <2>3. place \in Injection(1 .. N, 1 .. N)
    <3>. HIDE DEF place
    <3>. QED BY <2>1, <2>2 DEF Injection, IsInjective
  <2>. HIDE DEF place
  <2>. QED BY <1>3, <2>3, FS_Injection
<1>9. \A r \in 1 .. N : \E n \in 1 .. N : Cardinality(UpToRow(n)) = r
  BY <1>8 DEF Surjection
<1>. HIDE DEF place
<1>10. \A n \in DOMAIN stored : Rank(n) \in DOMAIN stored
  BY <1>0, <1>2, <1>5
<1>11. \A m, n \in DOMAIN stored : m # n /\ Earlier(m, n) => Rank(m) < Rank(n)
  BY <1>0, <1>2, <1>6
<1>12. \A r \in DOMAIN stored : \E n \in DOMAIN stored : Rank(n) = r
  BY <1>0, <1>2, <1>9
<1>. QED BY <1>10, <1>11, <1>12

\* The traffic is the rows, in the order of their moments.
LEMMA TrafficIs ==
  ASSUME stored \in Seq(ContextEvent)
  PROVE  /\ sessionTraffic \in Seq(ContextEvent)
         /\ \A r \in DOMAIN sessionTraffic : sessionTraffic[r] \in Rows
         /\ \A e \in Rows : \E r \in DOMAIN sessionTraffic : sessionTraffic[r] = e
         /\ \A q, r \in DOMAIN sessionTraffic : q < r => sessionTraffic[q].at <= sessionTraffic[r].at
<1>0. PICK N \in Nat : N = Len(stored) /\ DOMAIN stored = 1 .. N
  OBVIOUS
<1>1. /\ \A n \in 1 .. N : Rank(n) \in 1 .. N
      /\ \A m, n \in 1 .. N : m # n /\ Earlier(m, n) => Rank(m) < Rank(n)
      /\ \A r \in 1 .. N : \E n \in 1 .. N : Rank(n) = r
  BY <1>0, RankIs
<1>2. \A n \in 1 .. N : stored[n] \in ContextEvent /\ stored[n].at \in Nat
  <2>1. \A n \in 1 .. N : stored[n] \in ContextEvent
    BY <1>0
  <2>. QED BY <2>1 DEF ContextEvent
<1>3. \A m, n \in 1 .. N : m = n \/ Earlier(m, n) \/ Earlier(n, m)
  BY <1>2 DEF Earlier
<1> DEFINE row(r) == CHOOSE n \in 1 .. N : Rank(n) = r
<1>4. sessionTraffic = [r \in 1 .. N |-> stored[row(r)]]
  BY <1>0 DEF sessionTraffic
<1>5. \A r \in 1 .. N : row(r) \in 1 .. N /\ Rank(row(r)) = r
  BY <1>1
<1>. HIDE DEF row
<1>6. \A r \in 1 .. N : sessionTraffic[r] = stored[row(r)]
  BY <1>4
<1>7. sessionTraffic \in [1 .. N -> ContextEvent]
  BY <1>2, <1>4, <1>5
<1>8. sessionTraffic \in Seq(ContextEvent) /\ DOMAIN sessionTraffic = 1 .. N
  BY <1>7, AsItIs
<1>9. \A r \in 1 .. N : sessionTraffic[r] \in Rows
  BY <1>0, <1>5, <1>6 DEF Rows
<1>10. ASSUME NEW e \in Rows
       PROVE  \E r \in 1 .. N : sessionTraffic[r] = e
  <2>1. PICK n \in 1 .. N : e = stored[n]
    BY <1>0 DEF Rows
  <2>2. PICK r \in 1 .. N : r = Rank(n)
    BY <1>1
  <2>3. row(r) = n
    <3>1. row(r) \in 1 .. N /\ Rank(row(r)) = Rank(n) /\ Rank(n) \in Int
      BY <1>1, <1>5, <2>2
    <3>2. row(r) = n \/ Rank(row(r)) < Rank(n) \/ Rank(n) < Rank(row(r))
      BY <1>1, <1>3, <3>1
    <3>. QED BY <3>1, <3>2
  <2>. QED BY <1>6, <2>1, <2>3
<1>11. ASSUME NEW q \in 1 .. N, NEW r \in 1 .. N, q < r
       PROVE  sessionTraffic[q].at <= sessionTraffic[r].at
  <2>1. PICK m \in 1 .. N, n \in 1 .. N : m = row(q) /\ n = row(r) /\ Rank(m) = q /\ Rank(n) = r
    BY <1>5
  <2>2. m # n /\ ~(Rank(n) < Rank(m))
    BY <1>11, <2>1
  <2>3. Earlier(m, n)
    BY <1>1, <1>3, <2>2
  <2>4. stored[m].at <= stored[n].at
    BY <1>2, <2>3 DEF Earlier
  <2>. QED BY <1>6, <2>1, <2>4
<1>. QED BY <1>8, <1>9, <1>10, <1>11

-----------------------------------------------------------------------------
(* The records of calls. *)

\* A record of a call, a write or a remark; only a call counts, and it has a signature.
CallRecord ==
  {c \in [sig : Signature \cup {Absent}, failed : {"yes", "no", "unknown"}, outcome : Text,
          resets : BOOLEAN, ignored : BOOLEAN, at : Nat] :
     c.resets \/ c.ignored \/ c.sig \in Signature}

\* What the types of events say of their keys.
Sensible(traffic) ==
  \A n \in DOMAIN traffic :
    /\ traffic[n].type = "TOOL_CALL" => traffic[n].key \in Signature
    /\ traffic[n].type = "COMMAND_EXECUTED" => traffic[n].key \in Shell

\* The outcome an event tells.
Tells(e) == [failed |-> IF e.type = "ERROR_DETECTED" \/ e.exit = "other" THEN "yes" ELSE "no",
             says |-> e.says, harness |-> isHarnessError(e.cues)]
OutcomeType == [failed : {"yes", "no", "unknown"}, says : Text, harness : BOOLEAN]
Answering == {"ERROR_DETECTED", "COMMAND_EXECUTED", "TOOL_RESULT"}

\* What an event tells is an outcome.
LEMMA TellsIs ==
  ASSUME NEW e \in ContextEvent
  PROVE  Tells(e) \in OutcomeType
<1>1. e.says \in Text
  BY DEF ContextEvent
<1>2. isHarnessError(e.cues) \in BOOLEAN
  BY DEF isHarnessError
<1>3. PICK failed \in {"yes", "no", "unknown"} :
        failed = IF e.type = "ERROR_DETECTED" \/ e.exit = "other" THEN "yes" ELSE "no"
  OBVIOUS
<1>4. PICK harness \in BOOLEAN : harness = isHarnessError(e.cues)
  BY <1>2
<1>5. Tells(e) = [failed |-> failed, says |-> e.says, harness |-> harness]
  BY <1>3, <1>4 DEF Tells
<1>. QED BY <1>1, <1>5 DEF OutcomeType

\* The outcome of a call is one an event of its use tells, if there is one.
LEMMA OutcomeIs ==
  ASSUME NEW traffic \in Seq(ContextEvent), NEW use
  PROVE  /\ outcomeOf(traffic, use) \in OutcomeType
         /\ \/ outcomeOf(traffic, use) = Unanswered
               /\ (use = 0 \/ \A n \in DOMAIN traffic :
                     traffic[n].use = use => traffic[n].type \notin {"ERROR_DETECTED", "TOOL_RESULT"})
            \/ \E n \in DOMAIN traffic :
                 traffic[n].use = use /\ traffic[n].type \in Answering /\ outcomeOf(traffic, use) = Tells(traffic[n])
<1> DEFINE mine(types) == {n \in DOMAIN traffic : traffic[n].use = use /\ traffic[n].type \in types}
           final == {n \in mine({"ERROR_DETECTED", "COMMAND_EXECUTED"}) :
                       traffic[n].type = "COMMAND_EXECUTED" => traffic[n].exit # Absent}
           plain == mine({"TOOL_RESULT"})
           last == IF final # {} THEN Max(final) ELSE Min(plain)
<1>1. outcomeOf(traffic, use) = IF use = 0 \/ (final = {} /\ plain = {}) THEN Unanswered ELSE Tells(traffic[last])
  BY DEF outcomeOf, Tells, normalizeOutcome
<1>2. PICK N \in Nat : DOMAIN traffic = 1 .. N
  OBVIOUS
<1>3. final \in SUBSET (1 .. N) /\ plain \in SUBSET (1 .. N)
  BY <1>2
<1>4. \A S \in SUBSET (1 .. N) : S \in SUBSET Int /\ IsFiniteSet(S)
  <2>. TAKE S \in SUBSET (1 .. N)
  <2>1. IsFiniteSet(1 .. N)
    BY FS_Interval
  <2>2. IsFiniteSet(S)
    BY <2>1, FS_Subset
  <2>. QED BY <2>2
<1>5. \A n \in final \cup plain : n \in DOMAIN traffic /\ traffic[n].use = use /\ traffic[n].type \in Answering
  BY DEF Answering
<1>6. final # {} \/ plain # {} => last \in final \cup plain
  <2>. HIDE DEF final, plain
  <2>1. final # {} => Max(final) \in final
    BY <1>3, <1>4, MaxIsGreatest
  <2>2. plain # {} => Min(plain) \in plain
    BY <1>3, <1>4, MinIsLeast
  <2>. QED BY <2>1, <2>2
<1>7. CASE use = 0 \/ (final = {} /\ plain = {})
  <2>1. Unanswered \in OutcomeType
    BY EventsAssumption DEF Unanswered, OutcomeType
  <2>2. final = {} /\ plain = {} => \A n \in DOMAIN traffic :
          traffic[n].use = use => traffic[n].type \notin {"ERROR_DETECTED", "TOOL_RESULT"}
    OBVIOUS
  <2>. HIDE DEF final, plain, last
  <2>. QED BY <1>1, <1>7, <2>1, <2>2
<1>8. CASE ~(use = 0 \/ (final = {} /\ plain = {}))
  <2>. HIDE DEF final, plain, last
  <2>1. last \in DOMAIN traffic /\ traffic[last].use = use /\ traffic[last].type \in Answering
    BY <1>5, <1>6, <1>8
  <2>2. outcomeOf(traffic, use) = Tells(traffic[last])
    BY <1>1, <1>8
  <2>3. traffic[last] \in ContextEvent
    BY <2>1
  <2>. QED BY <2>1, <2>2, <2>3, TellsIs
<1>. QED BY <1>7, <1>8

\* The record of a remark is one.
LEMMA ResetIs ==
  ASSUME NEW n \in Nat
  PROVE  Reset(n) \in CallRecord /\ Reset(n).at = n
BY EventsAssumption DEF Reset, CallRecord

\* That of a write is one.

\* That of a write is one.
LEMMA WrittenIs ==
  ASSUME NEW n \in Nat, NEW failed \in {"yes", "no", "unknown"}
  PROVE  Written(n, failed) \in CallRecord /\ Written(n, failed).at = n
<1>1. PICK resets \in BOOLEAN : resets = (failed # "yes")
  OBVIOUS
<1>2. Written(n, failed) = [Reset(n) EXCEPT !.failed = failed, !.resets = resets]
  BY <1>1 DEF Written
<1>3. Written(n, failed) = [sig |-> Absent, failed |-> failed, outcome |-> "", resets |-> resets,
                            ignored |-> TRUE, at |-> n]
  BY <1>2 DEF Reset
<1>4. "" \in Text /\ failed \in {"yes", "no", "unknown"} /\ Absent \in Signature \cup {Absent}
      /\ resets \in BOOLEAN /\ TRUE \in BOOLEAN /\ n \in Nat
  BY EventsAssumption
<1>5. PICK c : c = [sig |-> Absent, failed |-> failed, outcome |-> "", resets |-> resets,
                    ignored |-> TRUE, at |-> n]
  OBVIOUS
<1>6. /\ c \in [sig : Signature \cup {Absent}, failed : {"yes", "no", "unknown"}, outcome : Text,
                resets : BOOLEAN, ignored : BOOLEAN, at : Nat]
      /\ c.ignored /\ c.at = n
  BY <1>4, <1>5, Zenon
<1>7. c = Written(n, failed)
  BY <1>3, <1>5, Zenon
<1>. QED BY <1>6, <1>7, Zenon DEF CallRecord

\* That of a call is one.

\* That of a call is one.
LEMMA CalledIs ==
  ASSUME NEW n \in Nat, NEW key \in Signature, NEW outcome \in OutcomeType
  PROVE  Called(n, key, outcome) \in CallRecord /\ Called(n, key, outcome).at = n
<1>0. isMutatingCommand(key) \in BOOLEAN
  BY DEF isMutatingCommand
<1>1. PICK resets \in BOOLEAN : resets = isMutatingCommand(key)
  BY <1>0
<1>2. PICK ignored \in BOOLEAN : ignored = (\/ outcome.failed = "yes" /\ outcome.harness
                                            \/ isPollingCommand(key) \/ isMutatingCommand(key))
  OBVIOUS
<1>3. Called(n, key, outcome) = [sig |-> key, failed |-> outcome.failed, outcome |-> outcome.says,
                                 resets |-> resets, ignored |-> ignored, at |-> n]
  BY <1>1, <1>2 DEF Called
<1>4. outcome.failed \in {"yes", "no", "unknown"} /\ outcome.says \in Text
  BY DEF OutcomeType
<1>5. PICK c : c = Called(n, key, outcome)
  OBVIOUS
<1>6. /\ c \in [sig : Signature \cup {Absent}, failed : {"yes", "no", "unknown"}, outcome : Text,
                resets : BOOLEAN, ignored : BOOLEAN, at : Nat]
      /\ c.sig \in Signature /\ c.at = n
  BY <1>3, <1>4, <1>5
<1>. QED BY <1>5, <1>6 DEF CallRecord

\* An event gives one record or none, and only a call that has a signature counts.
LEMMA RecordIs ==
  ASSUME NEW traffic \in Seq(ContextEvent), Sensible(traffic), NEW n \in DOMAIN traffic
  PROVE  \/ RecordsOf(traffic, n) = <<>>
         \/ \E c \in CallRecord : RecordsOf(traffic, n) = <<c>> /\ c.at = n
<1>1. PICK e : e = traffic[n] /\ e \in ContextEvent
  OBVIOUS
<1>2. /\ e.use \in Nat /\ n \in Nat
      /\ e.type = "TOOL_CALL" => e.key \in Signature
      /\ e.type = "COMMAND_EXECUTED" => e.key \in Signature
  <2>0. n \in Nat
    OBVIOUS
  <2>1. e.use \in Nat
    BY <1>1 DEF ContextEvent
  <2>2. /\ e.type = "TOOL_CALL" => e.key \in Signature
        /\ e.type = "COMMAND_EXECUTED" => e.key \in Signature
    BY <1>1 DEF Sensible, Signature
  <2>. QED BY <2>0, <2>1, <2>2
<1>3. Reset(n) \in CallRecord /\ Reset(n).at = n
  BY <1>2, ResetIs
<1>4. \A failed \in {"yes", "no", "unknown"} : Written(n, failed) \in CallRecord /\ Written(n, failed).at = n
  BY <1>2, WrittenIs
<1>5. \A key \in Signature, outcome \in OutcomeType :
        Called(n, key, outcome) \in CallRecord /\ Called(n, key, outcome).at = n
  BY <1>2, CalledIs
<1>6. CASE e.type = "USER_MESSAGE"
  <2>1. RecordsOf(traffic, n) = <<Reset(n)>>
    BY <1>1, <1>6 DEF RecordsOf
  <2>. QED BY <1>3, <2>1
<1>7. CASE e.type # "USER_MESSAGE" /\ isTranscript(traffic)
  <2>1. RecordsOf(traffic, n) =
          IF e.type \notin {"TOOL_CALL", "FILE_CHANGED"} \/ e.use = 0 \/ ~ firstOfItsUse(traffic, n)
          THEN <<>>
          ELSE IF e.type = "FILE_CHANGED" THEN <<Written(n, outcomeOf(traffic, e.use).failed)>>
          ELSE <<Called(n, e.key, outcomeOf(traffic, e.use))>>
    BY <1>1, <1>7 DEF RecordsOf
  <2>2. outcomeOf(traffic, e.use) \in OutcomeType
    BY OutcomeIs
  <2>3. outcomeOf(traffic, e.use).failed \in {"yes", "no", "unknown"}
    BY <2>2 DEF OutcomeType
  <2>. QED BY <1>2, <1>4, <1>5, <2>1, <2>2, <2>3
<1>8. CASE e.type # "USER_MESSAGE" /\ ~isTranscript(traffic)
  <2>1. RecordsOf(traffic, n) =
          IF e.type = "FILE_CHANGED" THEN <<Written(n, "unknown")>>
          ELSE IF ownOutcome(e) = {} THEN <<>>
          ELSE <<Called(n, e.key, CHOOSE o \in ownOutcome(e) : TRUE)>>
    BY <1>1, <1>8 DEF RecordsOf
  <2>2. ownOutcome(e) = {} \/ (ownOutcome(e) = {Tells(e)} /\ e.key \in Signature)
    BY <1>2 DEF ownOutcome, Tells, normalizeOutcome, Signature
  <2>3. Tells(e) \in OutcomeType
    BY <1>1, TellsIs
  <2>4. ownOutcome(e) # {} => (CHOOSE o \in ownOutcome(e) : TRUE) = Tells(e)
    BY <2>2
  <2>. QED BY <1>4, <1>5, <2>1, <2>2, <2>3, <2>4
<1>. QED BY <1>6, <1>7, <1>8

\* The first n events have these records, in their order.
Collected(traffic, calls, n) ==
  /\ calls \in Seq(CallRecord)
  /\ \A i \in DOMAIN calls : calls[i].at \in 1 .. n /\ RecordsOf(traffic, calls[i].at) = <<calls[i]>>
  /\ \A i, j \in DOMAIN calls : i < j => calls[i].at < calls[j].at
  /\ \A m \in 1 .. n : RecordsOf(traffic, m) # <<>> => \E i \in DOMAIN calls : calls[i].at = m

\* One more event adds its record, if it has one.
LEMMA CollectedGrows ==
  ASSUME NEW traffic \in Seq(ContextEvent), Sensible(traffic), NEW n \in DOMAIN traffic, NEW calls,
         Collected(traffic, calls, n - 1)
  PROVE  Collected(traffic, calls \o RecordsOf(traffic, n), n)
<1>1. n \in Nat \ {0} /\ calls \in Seq(CallRecord)
  BY DEF Collected
<1>2. PICK N \in Nat : N = Len(calls) /\ DOMAIN calls = 1 .. N
  BY <1>1
<1>3. \A m \in 1 .. n - 1 : m \in 1 .. n /\ m < n
  BY <1>1
<1>4. \A m \in 1 .. n : m = n \/ m \in 1 .. n - 1
  BY <1>1
<1>5. CASE RecordsOf(traffic, n) = <<>>
  <2>1. calls \o RecordsOf(traffic, n) = calls
    BY <1>1, <1>5, ConcatEmptySeq
  <2>2. Collected(traffic, calls, n)
    BY <1>3, <1>4, <1>5 DEF Collected
  <2>. QED BY <2>1, <2>2
<1>6. CASE \E c \in CallRecord : RecordsOf(traffic, n) = <<c>> /\ c.at = n
  <2>1. PICK c \in CallRecord : RecordsOf(traffic, n) = <<c>> /\ c.at = n
    BY <1>6
  <2>2. PICK longer : longer = calls \o RecordsOf(traffic, n)
    OBVIOUS
  <2>3. /\ longer \in Seq(CallRecord) /\ DOMAIN longer = 1 .. N + 1 /\ longer[N + 1] = c
        /\ \A i \in 1 .. N : longer[i] = calls[i]
    <3>1. longer = Append(calls, c)
      BY <1>1, <2>1, <2>2
    <3>. QED BY <1>1, <1>2, <3>1, AppendProperties
  <2>4. \A i \in 1 .. N + 1 : i = N + 1 \/ i \in 1 .. N
    OBVIOUS
  <2>5. \A i \in 1 .. N : calls[i].at \in 1 .. n - 1 /\ RecordsOf(traffic, calls[i].at) = <<calls[i]>>
    BY <1>2 DEF Collected
  <2>6. \A i \in DOMAIN longer : longer[i].at \in 1 .. n /\ RecordsOf(traffic, longer[i].at) = <<longer[i]>>
    <3>. TAKE i \in DOMAIN longer
    <3>1. CASE i = N + 1
      BY <1>1, <2>1, <2>3, <3>1
    <3>2. CASE i \in 1 .. N
      BY <1>3, <2>3, <2>5, <3>2
    <3>. QED BY <2>3, <2>4, <3>1, <3>2
  <2>7. \A i, j \in DOMAIN longer : i < j => longer[i].at < longer[j].at
    <3>. SUFFICES ASSUME NEW i \in 1 .. N + 1, NEW j \in 1 .. N + 1, i < j
                  PROVE  longer[i].at < longer[j].at
      BY <2>3
    <3>1. i \in 1 .. N
      OBVIOUS
    <3>2. CASE j = N + 1
      BY <1>3, <2>1, <2>3, <2>5, <3>1, <3>2
    <3>3. CASE j \in 1 .. N
      BY <1>2, <2>3, <3>1, <3>3 DEF Collected
    <3>. QED BY <2>4, <3>2, <3>3
  <2>8. ASSUME NEW m \in 1 .. n, RecordsOf(traffic, m) # <<>>
        PROVE  \E i \in DOMAIN longer : longer[i].at = m
    <3>1. CASE m = n
      <4>1. N + 1 \in DOMAIN longer
        BY <2>3
      <4>. QED BY <2>1, <2>3, <3>1, <4>1
    <3>2. CASE m \in 1 .. n - 1
      <4>1. PICK i \in 1 .. N : calls[i].at = m
        BY <1>2, <2>8, <3>2 DEF Collected
      <4>2. i \in DOMAIN longer
        BY <2>3
      <4>. QED BY <2>3, <4>1, <4>2
    <3>. QED BY <1>4, <3>1, <3>2
  <2>. QED BY <2>2, <2>3, <2>6, <2>7, <2>8 DEF Collected
<1>. QED BY <1>5, <1>6, RecordIs

\* collectToolCalls returns the records of all events.
LEMMA CallsAre ==
  ASSUME NEW traffic \in Seq(ContextEvent), Sensible(traffic)
  PROVE  Collected(traffic, collectToolCalls(traffic), Len(traffic))
<1> DEFINE Fold(f) == f = [m \in 0 .. Len(traffic) |-> IF m = 0 THEN <<>> ELSE f[m - 1] \o RecordsOf(traffic, m)]
           upTo == CHOOSE f : Fold(f)
           S == Seq(CallRecord)
           start == <<>>
<1>0. PICK n \in Nat : n = Len(traffic) /\ DOMAIN traffic = 1 .. n
  OBVIOUS
<1> DEFINE F == [m \in 1 .. n |-> [s \in S |-> s \o RecordsOf(traffic, m)]]
<1>1. collectToolCalls(traffic) = upTo[Len(traffic)]
  BY DEF collectToolCalls
<1>2. \A m \in 1 .. n : RecordsOf(traffic, m) \in Seq(CallRecord)
  <2>1. \A m \in 1 .. n : RecordsOf(traffic, m) = <<>> \/ \E c \in CallRecord : RecordsOf(traffic, m) = <<c>>
    BY <1>0, RecordIs
  <2>2. <<>> \in Seq(CallRecord) /\ \A c \in CallRecord : <<c>> \in Seq(CallRecord)
    OBVIOUS
  <2>. QED BY <2>1, <2>2
<1>3. F \in [1 .. n -> [S -> S]] /\ start \in S
  <2>1. ASSUME NEW m \in 1 .. n
        PROVE  [s \in S |-> s \o RecordsOf(traffic, m)] \in [S -> S]
    BY <1>2, ConcatProperties
  <2>. QED BY <2>1
<1>. HIDE DEF S
<1>4. Fold(upTo)
  <2>1. PICK f \in [0 .. n -> S] : f[0] = start /\ \A m \in 1 .. n : f[m] = F[m][f[m - 1]]
    <3>. HIDE DEF F, start
    <3>1. Runs(F, S, start, n)
      BY <1>3, RecursionExists
    <3>. QED BY <3>1 DEF Runs
  <2>2. ASSUME NEW m \in 0 .. n
        PROVE  f[m] = IF m = 0 THEN start ELSE f[m - 1] \o RecordsOf(traffic, m)
    <3>1. CASE m = 0
      <4>. HIDE DEF F
      <4>. QED BY <2>1, <3>1
    <3>2. CASE m # 0
      <4>1. m \in 1 .. n /\ m - 1 \in 0 .. n
        BY <3>2
      <4>2. f[m - 1] \in S /\ f[m] = F[m][f[m - 1]]
        <5>. HIDE DEF F
        <5>. QED BY <2>1, <4>1
      <4>3. F[m][f[m - 1]] = f[m - 1] \o RecordsOf(traffic, m)
        BY <4>1, <4>2
      <4>. HIDE DEF F
      <4>. QED BY <3>2, <4>2, <4>3
    <3>. QED BY <3>1, <3>2
  <2>3. f = [m \in 0 .. n |-> f[m]]
    BY <2>1
  <2>4. Fold(f)
    BY <1>0, <2>2, <2>3
  <2>. HIDE DEF Fold
  <2>. QED BY <2>4
<1>. HIDE DEF upTo
<1>9. upTo = [m \in 0 .. n |-> IF m = 0 THEN <<>> ELSE upTo[m - 1] \o RecordsOf(traffic, m)]
  BY <1>0, <1>4
<1>. HIDE DEF Fold
<1>5. upTo[0] = <<>> /\ \A m \in 1 .. n : upTo[m] = upTo[m - 1] \o RecordsOf(traffic, m)
  <2>1. upTo[0] = <<>>
    BY <1>9
  <2>2. ASSUME NEW m \in 1 .. n
        PROVE  upTo[m] = upTo[m - 1] \o RecordsOf(traffic, m)
    <3>1. m \in 0 .. n /\ m # 0
      OBVIOUS
    <3>. QED BY <1>9, <3>1, Zenon
  <2>. QED BY <2>1, <2>2
<1> DEFINE Good == {m \in 0 .. n : Collected(traffic, upTo[m], m)}
<1>6. 0 \in Good /\ Good \in SUBSET (0 .. n)
  <2>1. upTo[0] \in Seq(CallRecord) /\ DOMAIN upTo[0] = {}
    BY <1>5
  <2>2. Collected(traffic, upTo[0], 0)
    BY <2>1 DEF Collected
  <2>. QED BY <2>2
<1>7. ASSUME NEW m \in 1 .. n, m - 1 \in Good
      PROVE  m \in Good
  <2>1. Collected(traffic, upTo[m - 1], m - 1) /\ m \in DOMAIN traffic
    BY <1>0, <1>7
  <2>2. upTo[m] = upTo[m - 1] \o RecordsOf(traffic, m)
    BY <1>5
  <2>3. Collected(traffic, upTo[m - 1] \o RecordsOf(traffic, m), m)
    BY <2>1, CollectedGrows
  <2>4. Collected(traffic, upTo[m], m)
    BY <2>2, <2>3, Zenon
  <2>. QED BY <2>4
<1>8. n \in Good
  <2>. HIDE DEF Good
  <2>1. Good = 0 .. n
    BY <1>6, <1>7, UpTo
  <2>. QED BY <2>1
<1>. QED BY <1>0, <1>1, <1>8

-----------------------------------------------------------------------------
(* The walk over the calls. *)

RunType == [last : Nat, answer : Text, members : Seq(Nat)]
WalkState == [open : [Signature -> RunType], best : [Signature -> RunType]]
NoRuns == [open |-> [s \in Signature |-> NoRun], best |-> [s \in Signature |-> NoRun]]

\* What call i makes of the runs before it.
WalkNext(calls, i, before) ==
  LET c == calls[i]
  IN IF c.resets
     THEN [open |-> [s \in Signature |-> NoRun],
           best |-> [s \in Signature |-> Better(before.best[s], before.open[s])]]
     ELSE IF c.ignored THEN before
     ELSE LET run == before.open[c.sig] IN
          IF Repeats(run, c, i)
          THEN [before EXCEPT !.open[c.sig] = Extended(run, c, i)]
          ELSE [open |-> [before.open EXCEPT ![c.sig] = Begun(c, i)],
                best |-> [before.best EXCEPT ![c.sig] = Better(@, run)]]

\* The loops made of the runs that are left.
Reports(calls, best) ==
  {[sig |-> s,
    repeats |-> Len(best[s].members),
    errorLoop |-> 2 * Cardinality({k \in DOMAIN best[s].members :
                         calls[best[s].members[k]].failed = "yes"}) > Len(best[s].members),
    at |-> [k \in DOMAIN best[s].members |-> calls[best[s].members[k]].at]] :
   s \in {x \in Signature : best[x] # NoRun}}

\* No run is a run, and so are a new one and a longer one.
LEMMA RunsAre ==
  /\ NoRun \in RunType
  /\ \A c \in CallRecord, i \in Nat :
       /\ Begun(c, i) \in RunType
       /\ \A run \in RunType : Extended(run, c, i) \in RunType
<1>1. NoRun \in RunType
  <2>1. <<>> \in Seq(Nat) /\ 0 \in Nat
    OBVIOUS
  <2>2. "" \in Text
    BY EventsAssumption
  <2>. QED BY <2>1, <2>2 DEF NoRun, RunType
<1>2. ASSUME NEW c \in CallRecord, NEW i \in Nat
      PROVE  Begun(c, i) \in RunType /\ \A run \in RunType : Extended(run, c, i) \in RunType
  <2>1. c.outcome \in Text
    BY DEF CallRecord
  <2>2. Begun(c, i) \in RunType
    BY <2>1 DEF Begun, RunType
  <2>3. ASSUME NEW run \in RunType
        PROVE  Extended(run, c, i) \in RunType
    <3>1. run.members \in Seq(Nat) /\ run.answer \in Text
      BY DEF RunType
    <3>2. Append(run.members, i) \in Seq(Nat)
      BY <3>1
    <3>. QED BY <2>1, <3>1, <3>2 DEF Extended, RunType
  <2>. QED BY <2>2, <2>3
<1>. QED BY <1>1, <1>2

\* A step of the walk leaves runs.
LEMMA WalkNextIs ==
  ASSUME NEW calls \in Seq(CallRecord), NEW i \in DOMAIN calls, NEW before \in WalkState
  PROVE  WalkNext(calls, i, before) \in WalkState
<1>1. PICK c : c = calls[i] /\ c \in CallRecord
  OBVIOUS
<1>2. i \in Nat
  OBVIOUS
<1>3. before.open \in [Signature -> RunType] /\ before.best \in [Signature -> RunType]
  BY DEF WalkState
<1>4. NoRun \in RunType /\ Begun(c, i) \in RunType /\ \A run \in RunType : Extended(run, c, i) \in RunType
  BY <1>1, <1>2, RunsAre
<1>5. \A best, run \in RunType : Better(best, run) \in RunType
  BY DEF Better
<1>6. CASE c.resets
  <2>1. WalkNext(calls, i, before) =
          [open |-> [s \in Signature |-> NoRun],
           best |-> [s \in Signature |-> Better(before.best[s], before.open[s])]]
    BY <1>1, <1>6 DEF WalkNext
  <2>2. [s \in Signature |-> NoRun] \in [Signature -> RunType]
    BY <1>4
  <2>3. [s \in Signature |-> Better(before.best[s], before.open[s])] \in [Signature -> RunType]
    BY <1>3, <1>5
  <2>. QED BY <2>1, <2>2, <2>3 DEF WalkState
<1>7. CASE ~c.resets /\ c.ignored
  <2>1. WalkNext(calls, i, before) = before
    BY <1>1, <1>7 DEF WalkNext
  <2>. QED BY <2>1
<1>8. CASE ~c.resets /\ ~c.ignored
  <2>1. c.sig \in Signature
    BY <1>1, <1>8 DEF CallRecord
  <2>2. PICK s \in Signature : s = c.sig
    BY <2>1
  <2>3. PICK run \in RunType : run = before.open[s]
    BY <1>3
  <2>4. PICK longer \in RunType : longer = Extended(run, c, i)
    BY <1>4
  <2>5. PICK new \in RunType : new = Begun(c, i)
    BY <1>4
  <2>6. PICK better \in RunType : better = Better(before.best[s], run)
    BY <1>3, <1>5
  <2>7. [before.open EXCEPT ![s] = longer] \in [Signature -> RunType]
        /\ [before.open EXCEPT ![s] = new] \in [Signature -> RunType]
        /\ [before.best EXCEPT ![s] = better] \in [Signature -> RunType]
    BY <1>3
  <2>8. CASE Repeats(run, c, i)
    <3>1. WalkNext(calls, i, before) = [before EXCEPT !.open[s] = longer]
      BY <1>1, <1>8, <2>2, <2>3, <2>4, <2>8 DEF WalkNext
    <3>2. [before EXCEPT !.open[s] = longer] = [before EXCEPT !.open = [before.open EXCEPT ![s] = longer]]
      BY DEF WalkState
    <3>3. [before EXCEPT !.open = [before.open EXCEPT ![s] = longer]] \in WalkState
      BY <2>7 DEF WalkState
    <3>. QED BY <3>1, <3>2, <3>3
  <2>9. CASE ~Repeats(run, c, i)
    <3>1. WalkNext(calls, i, before) =
            [open |-> [before.open EXCEPT ![s] = new], best |-> [before.best EXCEPT ![s] = better]]
      BY <1>1, <1>8, <2>2, <2>3, <2>5, <2>6, <2>9 DEF WalkNext
    <3>. QED BY <2>7, <3>1 DEF WalkState
  <2>. QED BY <2>8, <2>9
<1>. QED BY <1>6, <1>7, <1>8

\* detectLoops walks: the runs after each call are made of those before it.
LEMMA WalkOfCalls ==
  ASSUME NEW calls \in Seq(CallRecord)
  PROVE  \E walk \in [0 .. Len(calls) -> WalkState] :
           /\ walk[0] = NoRuns
           /\ \A i \in DOMAIN calls : walk[i] = WalkNext(calls, i, walk[i - 1])
           /\ detectLoops(calls) =
                Reports(calls, [s \in Signature |-> Better(walk[Len(calls)].best[s], walk[Len(calls)].open[s])])
<1> DEFINE Fold(f) ==
             f = [i \in 0 .. Len(calls) |-> IF i = 0 THEN NoRuns ELSE WalkNext(calls, i, f[i - 1])]
           walk == CHOOSE f : Fold(f)
<1>0. PICK n \in Nat : n = Len(calls) /\ DOMAIN calls = 1 .. n
  OBVIOUS
<1> DEFINE F == [i \in 1 .. n |-> [w \in WalkState |-> WalkNext(calls, i, w)]]
<1>1. detectLoops(calls) =
        Reports(calls, [s \in Signature |-> Better(walk[Len(calls)].best[s], walk[Len(calls)].open[s])])
  BY DEF detectLoops, Reports, WalkNext, NoRuns
<1>2. F \in [1 .. n -> [WalkState -> WalkState]] /\ NoRuns \in WalkState
  <2>1. ASSUME NEW i \in 1 .. n
        PROVE  [w \in WalkState |-> WalkNext(calls, i, w)] \in [WalkState -> WalkState]
    BY <1>0, WalkNextIs
  <2>2. NoRuns \in WalkState
    BY RunsAre DEF NoRuns, WalkState
  <2>. QED BY <2>1, <2>2
<1>3. Fold(walk)
  <2>1. PICK f \in [0 .. n -> WalkState] : f[0] = NoRuns /\ \A i \in 1 .. n : f[i] = F[i][f[i - 1]]
    <3>. HIDE DEF F
    <3>1. Runs(F, WalkState, NoRuns, n)
      BY <1>2, RecursionExists
    <3>. QED BY <3>1 DEF Runs
  <2>2. ASSUME NEW i \in 0 .. n
        PROVE  f[i] = IF i = 0 THEN NoRuns ELSE WalkNext(calls, i, f[i - 1])
    <3>1. CASE i = 0
      <4>. HIDE DEF F
      <4>. QED BY <2>1, <3>1
    <3>2. CASE i # 0
      <4>1. i \in 1 .. n /\ i - 1 \in 0 .. n
        BY <3>2
      <4>2. f[i - 1] \in WalkState /\ f[i] = F[i][f[i - 1]]
        <5>. HIDE DEF F
        <5>. QED BY <2>1, <4>1
      <4>3. F[i][f[i - 1]] = WalkNext(calls, i, f[i - 1])
        BY <4>1, <4>2
      <4>. HIDE DEF F
      <4>. QED BY <3>2, <4>2, <4>3
    <3>. QED BY <3>1, <3>2
  <2>3. f = [i \in 0 .. n |-> f[i]]
    BY <2>1
  <2>4. Fold(f)
    BY <1>0, <2>2, <2>3
  <2>. HIDE DEF Fold
  <2>. QED BY <2>4
<1>. HIDE DEF walk
<1>4. walk = [i \in 0 .. n |-> IF i = 0 THEN NoRuns ELSE WalkNext(calls, i, walk[i - 1])]
  BY <1>0, <1>3
<1>. HIDE DEF Fold
<1>5. walk[0] = NoRuns /\ \A i \in 1 .. n : walk[i] = WalkNext(calls, i, walk[i - 1])
  <2>1. walk[0] = NoRuns
    BY <1>4
  <2>2. ASSUME NEW i \in 1 .. n
        PROVE  walk[i] = WalkNext(calls, i, walk[i - 1])
    <3>1. i \in 0 .. n /\ i # 0
      OBVIOUS
    <3>. QED BY <1>4, <3>1, Zenon
  <2>. QED BY <2>1, <2>2
<1> DEFINE Good == {i \in 0 .. n : walk[i] \in WalkState}
<1>6. 0 \in Good /\ Good \in SUBSET (0 .. n)
  BY <1>2, <1>5
<1>7. ASSUME NEW i \in 1 .. n, i - 1 \in Good
      PROVE  i \in Good
  <2>1. walk[i - 1] \in WalkState /\ i \in DOMAIN calls
    BY <1>0, <1>7
  <2>2. walk[i] \in WalkState
    BY <1>5, <2>1, WalkNextIs
  <2>. QED BY <2>2
<1>8. \A i \in 0 .. n : walk[i] \in WalkState
  <2>1. Good = 0 .. n
    <3>. HIDE DEF Good
    <3>. QED BY <1>6, <1>7, UpTo
  <2>. QED BY <2>1
<1>9. walk \in [0 .. n -> WalkState]
  BY <1>4, <1>8
<1>. QED BY <1>0, <1>1, <1>5, <1>9

-----------------------------------------------------------------------------
(* What is reported is a run. *)

\* Call m counts towards the runs of s.
Tallied(calls, s, m) == calls[m].sig = s /\ ~calls[m].resets /\ ~calls[m].ignored

\* A run of s among the first n calls: repetitions of s, in order, with one answer, and
\* nothing that resets from its first to its last.
SoundRun(calls, s, run, n) ==
  /\ Len(run.members) >= 1
  /\ \A k \in DOMAIN run.members :
       /\ run.members[k] \in 1 .. n /\ Tallied(calls, s, run.members[k])
       /\ calls[run.members[k]].outcome \in {"", run.answer}
  /\ \A j, k \in DOMAIN run.members : j < k => run.members[j] < run.members[k]
  /\ \A m \in run.members[1] .. run.members[Len(run.members)] : ~calls[m].resets

\* One that may be continued: nothing resets since.
OpenRun(calls, s, run, n) == SoundRun(calls, s, run, n) /\ \A m \in run.members[1] .. n : ~calls[m].resets

\* What the walk holds after n calls.
SoundWalk(calls, walked, n) ==
  \A s \in Signature :
    /\ walked.open[s] # NoRun => OpenRun(calls, s, walked.open[s], n)
    /\ walked.best[s] # NoRun => SoundRun(calls, s, walked.best[s], n)

\* A call begins a run.
LEMMA BegunIsSound ==
  ASSUME NEW calls \in Seq(CallRecord), NEW n \in DOMAIN calls, NEW s, Tallied(calls, s, n)
  PROVE  OpenRun(calls, s, Begun(calls[n], n), n)
<1>1. PICK run : run = Begun(calls[n], n)
  OBVIOUS
<1>2. run.members = <<n>> /\ run.answer = calls[n].outcome
  BY <1>1 DEF Begun
<1>3. n \in Nat /\ n >= 1
  OBVIOUS
<1>4. Len(run.members) = 1 /\ DOMAIN run.members = 1 .. 1 /\ run.members[1] = n
  BY <1>2
<1>5. \A m \in n .. n : m = n
  BY <1>3
<1>6. \A k \in 1 .. 1 : k = 1
  OBVIOUS
<1>7. n \in 1 .. n
  BY <1>3
<1>8. ~calls[n].resets
  BY DEF Tallied
<1>9. SoundRun(calls, s, run, n)
  <2>1. calls[n].outcome \in {"", run.answer}
    BY <1>2
  <2>2. \A k \in DOMAIN run.members :
          /\ run.members[k] \in 1 .. n /\ Tallied(calls, s, run.members[k])
          /\ calls[run.members[k]].outcome \in {"", run.answer}
    BY <1>4, <1>6, <1>7, <2>1
  <2>3. \A j, k \in DOMAIN run.members : j < k => run.members[j] < run.members[k]
    <3>1. \A j, k \in 1 .. 1 : ~(j < k)
      OBVIOUS
    <3>. QED BY <1>4, <3>1
  <2>4. \A m \in run.members[1] .. run.members[Len(run.members)] : ~calls[m].resets
    BY <1>4, <1>5, <1>8
  <2>5. Len(run.members) >= 1
    BY <1>4
  <2>. QED BY <2>2, <2>3, <2>4, <2>5 DEF SoundRun
<1>. QED BY <1>1, <1>4, <1>5, <1>8, <1>9 DEF OpenRun

\* A run and what it is made of.
LEMMA MembersAre ==
  ASSUME NEW calls, NEW s, NEW n \in Nat, NEW run \in RunType, SoundRun(calls, s, run, n)
  PROVE  \E L \in Nat \ {0} :
           /\ Len(run.members) = L /\ DOMAIN run.members = 1 .. L
           /\ \A k \in 1 .. L : run.members[k] \in 1 .. n
           /\ 1 \in 1 .. L /\ L \in 1 .. L
<1>1. run.members \in Seq(Nat)
  BY DEF RunType
<1>2. PICK L \in Nat : Len(run.members) = L /\ DOMAIN run.members = 1 .. L
  BY <1>1
<1>3. L >= 1
  BY <1>2 DEF SoundRun
<1>4. \A k \in 1 .. L : run.members[k] \in 1 .. n
  BY <1>2 DEF SoundRun
<1>. QED BY <1>2, <1>3, <1>4

\* A run is one of more calls too, and may be continued while nothing resets.
LEMMA SoundStays ==
  ASSUME NEW calls, NEW s, NEW n \in Nat \ {0}, NEW run \in RunType, SoundRun(calls, s, run, n - 1)
  PROVE  /\ SoundRun(calls, s, run, n)
         /\ OpenRun(calls, s, run, n - 1) /\ ~calls[n].resets => OpenRun(calls, s, run, n)
<1>1. \A m \in 1 .. n - 1 : m \in 1 .. n
  OBVIOUS
<1>2. SoundRun(calls, s, run, n)
  BY <1>1 DEF SoundRun
<1>3. ASSUME OpenRun(calls, s, run, n - 1), ~calls[n].resets
      PROVE  OpenRun(calls, s, run, n)
  <2>1. n - 1 \in Nat
    OBVIOUS
  <2>2. run.members[1] \in 1 .. n - 1
    BY <2>1, MembersAre
  <2>3. \A m \in run.members[1] .. n : m = n \/ m \in run.members[1] .. n - 1
    BY <2>2
  <2>. QED BY <1>2, <1>3, <2>3 DEF OpenRun
<1>. QED BY <1>2, <1>3

\* A call with a matching answer continues it.
LEMMA ExtendedIsSound ==
  ASSUME NEW calls \in Seq(CallRecord), NEW n \in DOMAIN calls, NEW s, Tallied(calls, s, n),
         NEW run \in RunType, OpenRun(calls, s, run, n - 1), sameAnswer(run, calls[n])
  PROVE  OpenRun(calls, s, Extended(run, calls[n], n), n)
<1>0. n \in Nat \ {0} /\ n - 1 \in Nat
  OBVIOUS
<1>1. PICK longer : longer = Extended(run, calls[n], n)
  OBVIOUS
<1>2. PICK L \in Nat \ {0} :
        /\ Len(run.members) = L /\ DOMAIN run.members = 1 .. L
        /\ \A k \in 1 .. L : run.members[k] \in 1 .. n - 1
        /\ 1 \in 1 .. L /\ L \in 1 .. L
  BY <1>0, MembersAre DEF OpenRun
<1>3. longer.members = Append(run.members, n) /\ run.members \in Seq(Nat)
  BY <1>1 DEF Extended, RunType
<1>4. /\ Len(longer.members) = L + 1 /\ DOMAIN longer.members = 1 .. L + 1 /\ longer.members[L + 1] = n
      /\ \A k \in 1 .. L : longer.members[k] = run.members[k]
  BY <1>0, <1>2, <1>3, AppendProperties
<1>5. \A k \in 1 .. L + 1 : k = L + 1 \/ k \in 1 .. L
  BY <1>2
<1>6. \A k \in 1 .. L : run.members[k] \in 1 .. n /\ run.members[k] < n
  BY <1>0, <1>2
<1>7. \A k \in 1 .. L : /\ Tallied(calls, s, run.members[k])
                        /\ calls[run.members[k]].outcome \in {"", run.answer}
  BY <1>2 DEF OpenRun, SoundRun
<1>8. /\ calls[n].outcome \in {"", longer.answer}
      /\ \A x : x \in {"", run.answer} => x \in {"", longer.answer}
  BY <1>1 DEF Extended, sameAnswer
<1>9. n \in 1 .. n
  BY <1>0
<1>10. \A k \in DOMAIN longer.members :
         /\ longer.members[k] \in 1 .. n /\ Tallied(calls, s, longer.members[k])
         /\ calls[longer.members[k]].outcome \in {"", longer.answer}
  BY <1>4, <1>5, <1>6, <1>7, <1>8, <1>9, Zenon
<1>11. ASSUME NEW j \in 1 .. L + 1, NEW k \in 1 .. L + 1, j < k
       PROVE  longer.members[j] < longer.members[k]
  <2>1. j \in 1 .. L
    BY <1>2, <1>11
  <2>2. CASE k = L + 1
    BY <1>4, <1>6, <2>1, <2>2
  <2>3. CASE k \in 1 .. L
    <3>1. run.members[j] < run.members[k]
      BY <1>2, <1>11, <2>1, <2>3 DEF OpenRun, SoundRun
    <3>. QED BY <1>4, <2>1, <2>3, <3>1
  <2>. QED BY <1>5, <2>2, <2>3
<1>12. \A m \in longer.members[1] .. n : ~calls[m].resets
  <2>1. longer.members[1] = run.members[1] /\ run.members[1] \in Nat
    BY <1>2, <1>4
  <2>2. \A m \in run.members[1] .. n : m = n \/ m \in run.members[1] .. n - 1
    BY <1>0, <2>1
  <2>3. ~calls[n].resets
    BY DEF Tallied
  <2>. QED BY <2>1, <2>2, <2>3 DEF OpenRun
<1>13. SoundRun(calls, s, longer, n)
  <2>1. Len(longer.members) >= 1
    BY <1>2, <1>4
  <2>2. longer.members[Len(longer.members)] = n
    BY <1>4
  <2>. QED BY <1>4, <1>10, <1>11, <1>12, <2>1, <2>2 DEF SoundRun
<1>. QED BY <1>1, <1>12, <1>13 DEF OpenRun

\* A step of the walk leaves sound runs.
LEMMA WalkStaysSound ==
  ASSUME NEW calls \in Seq(CallRecord), NEW n \in DOMAIN calls, NEW before \in WalkState,
         SoundWalk(calls, before, n - 1)
  PROVE  SoundWalk(calls, WalkNext(calls, n, before), n)
<1>1. PICK c : c = calls[n] /\ c \in CallRecord
  OBVIOUS
<1>2. n \in Nat \ {0}
  OBVIOUS
<1>3. \A s \in Signature : before.open[s] \in RunType /\ before.best[s] \in RunType
  BY DEF WalkState
<1>4. PICK after : after = WalkNext(calls, n, before)
  OBVIOUS
<1>5. \A s \in Signature :
        /\ before.open[s] # NoRun => OpenRun(calls, s, before.open[s], n - 1)
        /\ before.best[s] # NoRun => SoundRun(calls, s, before.best[s], n - 1)
  BY DEF SoundWalk
<1>6. ASSUME NEW s \in Signature
      PROVE  /\ before.open[s] # NoRun => SoundRun(calls, s, before.open[s], n)
             /\ before.best[s] # NoRun => SoundRun(calls, s, before.best[s], n)
             /\ before.open[s] # NoRun /\ ~c.resets => OpenRun(calls, s, before.open[s], n)
  BY <1>1, <1>2, <1>3, <1>5, SoundStays DEF OpenRun
<1>7. \A s \in Signature :
        LET run == Better(before.best[s], before.open[s])
        IN run # NoRun => SoundRun(calls, s, run, n)
  BY <1>6 DEF Better
<1>8. CASE c.resets
  <2>1. \A s \in Signature : after.open[s] = NoRun /\ after.best[s] = Better(before.best[s], before.open[s])
    BY <1>1, <1>4, <1>8 DEF WalkNext
  <2>2. SoundWalk(calls, after, n)
    BY <1>7, <2>1 DEF SoundWalk
  <2>. QED BY <1>4, <2>2
<1>9. CASE ~c.resets /\ c.ignored
  <2>1. after = before
    BY <1>1, <1>4, <1>9 DEF WalkNext
  <2>2. SoundWalk(calls, after, n)
    BY <1>6, <1>9, <2>1 DEF SoundWalk
  <2>. QED BY <1>4, <2>2
<1>10. CASE ~c.resets /\ ~c.ignored
  <2>1. PICK s \in Signature : s = c.sig
    BY <1>1, <1>10 DEF CallRecord
  <2>2. PICK run \in RunType : run = before.open[s]
    BY <1>3
  <2>3. Tallied(calls, s, n)
    BY <1>1, <1>10, <2>1 DEF Tallied
  <2>4. CASE Repeats(run, c, n)
    <3>1. after = [before EXCEPT !.open[s] = Extended(run, c, n)]
      BY <1>1, <1>4, <1>10, <2>1, <2>2, <2>4 DEF WalkNext
    <3>2. /\ after.open[s] = Extended(run, c, n) /\ after.best = before.best
          /\ \A r \in Signature \ {s} : after.open[r] = before.open[r]
      BY <3>1 DEF WalkState
    <3>3. OpenRun(calls, s, run, n - 1) /\ sameAnswer(run, calls[n])
      BY <1>1, <1>5, <2>2, <2>4 DEF Repeats
    <3>4. OpenRun(calls, s, Extended(run, c, n), n)
      BY <1>1, <2>3, <3>3, ExtendedIsSound
    <3>5. SoundWalk(calls, after, n)
      BY <1>6, <1>10, <3>2, <3>4 DEF SoundWalk
    <3>. QED BY <1>4, <3>5
  <2>5. CASE ~Repeats(run, c, n)
    <3>1. after = [open |-> [before.open EXCEPT ![s] = Begun(c, n)],
                   best |-> [before.best EXCEPT ![s] = Better(@, run)]]
      BY <1>1, <1>4, <1>10, <2>1, <2>2, <2>5 DEF WalkNext
    <3>2. /\ after.open[s] = Begun(c, n) /\ after.best[s] = Better(before.best[s], run)
          /\ \A r \in Signature \ {s} : after.open[r] = before.open[r] /\ after.best[r] = before.best[r]
      BY <3>1 DEF WalkState
    <3>3. OpenRun(calls, s, Begun(c, n), n)
      BY <1>1, <2>3, BegunIsSound
    <3>4. SoundWalk(calls, after, n)
      BY <1>6, <1>7, <1>10, <2>2, <3>2, <3>3 DEF SoundWalk
    <3>. QED BY <1>4, <3>4
  <2>. QED BY <2>4, <2>5
<1>. QED BY <1>8, <1>9, <1>10

\* Every loop reported is a run of the calls.
LEMMA LoopsAreRuns ==
  ASSUME NEW calls \in Seq(CallRecord), NEW f \in detectLoops(calls)
  PROVE  \E s \in Signature, run \in RunType :
           /\ SoundRun(calls, s, run, Len(calls)) /\ f.sig = s
           /\ f.at = [k \in DOMAIN run.members |-> calls[run.members[k]].at]
<1>0. PICK N \in Nat : N = Len(calls) /\ DOMAIN calls = 1 .. N
  OBVIOUS
<1>1. PICK walk \in [0 .. N -> WalkState] :
        /\ walk[0] = NoRuns
        /\ \A i \in DOMAIN calls : walk[i] = WalkNext(calls, i, walk[i - 1])
        /\ detectLoops(calls) =
             Reports(calls, [s \in Signature |-> Better(walk[N].best[s], walk[N].open[s])])
  BY <1>0, WalkOfCalls
<1> DEFINE Good == {n \in 0 .. N : SoundWalk(calls, walk[n], n)}
<1>2. 0 \in Good /\ Good \in SUBSET (0 .. N)
  BY <1>1 DEF SoundWalk, NoRuns
<1>3. ASSUME NEW n \in 1 .. N, n - 1 \in Good
      PROVE  n \in Good
  <2>1. n - 1 \in 0 .. N /\ n \in DOMAIN calls
    BY <1>0
  <2>2. walk[n - 1] \in WalkState /\ SoundWalk(calls, walk[n - 1], n - 1) /\ walk[n] = WalkNext(calls, n, walk[n - 1])
    BY <1>1, <1>3, <2>1
  <2>3. SoundWalk(calls, walk[n], n)
    BY <2>1, <2>2, WalkStaysSound
  <2>. QED BY <2>3
<1>4. SoundWalk(calls, walk[N], N)
  <2>1. Good = 0 .. N
    <3>. HIDE DEF Good
    <3>. QED BY <1>2, <1>3, UpTo
  <2>. QED BY <2>1
<1>5. PICK s \in Signature :
        LET run == Better(walk[N].best[s], walk[N].open[s]) IN
        /\ run # NoRun
        /\ f.sig = s /\ f.at = [k \in DOMAIN run.members |-> calls[run.members[k]].at]
  <2>1. PICK best : best = [s \in Signature |-> Better(walk[N].best[s], walk[N].open[s])]
    OBVIOUS
  <2>2. f \in Reports(calls, best)
    BY <1>1, <2>1
  <2>3. PICK s \in Signature :
          /\ best[s] # NoRun
          /\ f.sig = s /\ f.at = [k \in DOMAIN best[s].members |-> calls[best[s].members[k]].at]
    BY <2>2 DEF Reports
  <2>4. best[s] = Better(walk[N].best[s], walk[N].open[s])
    BY <2>1
  <2>. QED BY <2>3, <2>4
<1>6. walk[N].best[s] \in RunType /\ walk[N].open[s] \in RunType
  <2>1. walk[N] \in WalkState
    BY <1>1
  <2>. QED BY <2>1 DEF WalkState
<1>7. PICK run \in RunType : run = Better(walk[N].best[s], walk[N].open[s])
  BY <1>6 DEF Better
<1>8. SoundRun(calls, s, run, N)
  BY <1>4, <1>5, <1>7 DEF SoundWalk, OpenRun, Better
<1>. QED BY <1>0, <1>5, <1>7, <1>8

-----------------------------------------------------------------------------
(* What is repeated is reported. *)

\* The calls that count towards the runs of s, from call a to call b.
Repeated(calls, s, a, b) == {m \in a .. b : Tallied(calls, s, m)}

\* From call a to call b s is repeated, with one answer, nothing that resets and the next
\* time never far away, often enough to be a loop.
IsStretch(calls, s, a, b) ==
  /\ a \in Repeated(calls, s, a, b) /\ b \in Repeated(calls, s, a, b)
  /\ \A m \in a .. b : ~calls[m].resets
  /\ \A m \in Repeated(calls, s, a, b) : calls[m].outcome = calls[a].outcome
  /\ \A m \in Repeated(calls, s, a, b) \ {b} : \E l \in Repeated(calls, s, a, b) : m < l /\ l <= m + LOOP_WINDOW
  /\ Cardinality(Repeated(calls, s, a, b)) >= LOOP_MIN_REPEATS

\* The run the walk has open after call n has every repetition since a.
Grown(calls, s, a, run, n) ==
  /\ run # NoRun /\ Len(run.members) >= Cardinality(Repeated(calls, s, a, n))
  /\ run.last \in Repeated(calls, s, a, n) /\ \A m \in run.last + 1 .. n : ~Tallied(calls, s, m)
  /\ run.answer = calls[a].outcome \/ calls[a].outcome = ""

\* A run of s that long is open or was the best.
Held(walked, s, long) == Len(walked.open[s].members) >= long \/ Len(walked.best[s].members) >= long

\* The repetitions up to the next call.
LEMMA RepeatedGrow ==
  ASSUME NEW calls, NEW s, NEW a \in Nat \ {0}, NEW n \in Nat, a <= n
  PROVE  /\ Cardinality(Repeated(calls, s, a, n)) \in Nat
         /\ Tallied(calls, s, a) => Cardinality(Repeated(calls, s, a, a)) = 1
         /\ Cardinality(Repeated(calls, s, a, n + 1)) =
              Cardinality(Repeated(calls, s, a, n)) + (IF Tallied(calls, s, n + 1) THEN 1 ELSE 0)
<1>1. IsFiniteSet(Repeated(calls, s, a, n)) /\ Cardinality(Repeated(calls, s, a, n)) \in Nat
  <2>1. IsFiniteSet(a .. n)
    BY FS_Interval
  <2>2. Repeated(calls, s, a, n) \in SUBSET (a .. n)
    BY DEF Repeated
  <2>. QED BY <2>1, <2>2, FS_Subset, FS_CardinalityType
<1>2. ASSUME Tallied(calls, s, a)
      PROVE  Cardinality(Repeated(calls, s, a, a)) = 1
  <2>1. \A m \in a .. a : m = a
    OBVIOUS
  <2>2. a \in a .. a
    OBVIOUS
  <2>3. Repeated(calls, s, a, a) = {a}
    BY <1>2, <2>1, <2>2 DEF Repeated
  <2>. QED BY <2>3, FS_Singleton
<1>3. \A m \in a .. n + 1 : m = n + 1 \/ m \in a .. n
  OBVIOUS
<1>4. n + 1 \in a .. n + 1 /\ n + 1 \notin a .. n /\ \A m \in a .. n : m \in a .. n + 1
  OBVIOUS
<1>5. CASE Tallied(calls, s, n + 1)
  <2>1. Repeated(calls, s, a, n + 1) = Repeated(calls, s, a, n) \cup {n + 1}
    BY <1>3, <1>4, <1>5 DEF Repeated
  <2>2. n + 1 \notin Repeated(calls, s, a, n)
    BY <1>4 DEF Repeated
  <2>3. Cardinality(Repeated(calls, s, a, n) \cup {n + 1}) = Cardinality(Repeated(calls, s, a, n)) + 1
    BY <1>1, <2>2, FS_AddElement
  <2>. QED BY <1>1, <1>2, <1>5, <2>1, <2>3
<1>6. CASE ~Tallied(calls, s, n + 1)
  <2>1. Repeated(calls, s, a, n + 1) = Repeated(calls, s, a, n)
    BY <1>3, <1>4, <1>6 DEF Repeated
  <2>. QED BY <1>1, <1>2, <1>6, <2>1
<1>. QED BY <1>5, <1>6

\* What a call that counts makes of the run of its signature, and that no other does.
LEMMA WalkNextOf ==
  ASSUME NEW calls \in Seq(CallRecord), NEW n \in DOMAIN calls, NEW before \in WalkState,
         NEW s \in Signature, ~calls[n].resets
  PROVE  LET after == WalkNext(calls, n, before)
             run == before.open[s]
         IN /\ ~Tallied(calls, s, n) => after.open[s] = run /\ after.best[s] = before.best[s]
            /\ Tallied(calls, s, n) /\ Repeats(run, calls[n], n) =>
                 after.open[s] = Extended(run, calls[n], n) /\ after.best[s] = before.best[s]
            /\ Tallied(calls, s, n) /\ ~Repeats(run, calls[n], n) =>
                 after.open[s] = Begun(calls[n], n) /\ after.best[s] = Better(before.best[s], run)
<1>1. PICK c : c = calls[n] /\ c \in CallRecord
  OBVIOUS
<1>2. PICK after : after = WalkNext(calls, n, before)
  OBVIOUS
<1>3. PICK run : run = before.open[s]
  OBVIOUS
<1>4. before.open \in [Signature -> RunType] /\ before.best \in [Signature -> RunType]
  BY DEF WalkState
<1>5. CASE c.ignored
  <2>1. after = before
    BY <1>1, <1>2, <1>5 DEF WalkNext
  <2>2. ~Tallied(calls, s, n)
    BY <1>1, <1>5 DEF Tallied
  <2>. QED BY <1>2, <2>1, <2>2
<1>6. CASE ~c.ignored
  <2>1. PICK r \in Signature : r = c.sig
    BY <1>1, <1>6 DEF CallRecord
  <2>2. Tallied(calls, s, n) <=> r = s
    BY <1>1, <1>6, <2>1 DEF Tallied
  <2>3. PICK mine : mine = before.open[r]
    OBVIOUS
  <2>4. CASE Repeats(mine, c, n)
    <3>1. after = [before EXCEPT !.open[r] = Extended(mine, c, n)]
      BY <1>1, <1>2, <1>6, <2>1, <2>3, <2>4 DEF WalkNext
    <3>2. /\ after.open[r] = Extended(mine, c, n) /\ after.best = before.best
          /\ \A x \in Signature \ {r} : after.open[x] = before.open[x]
      BY <3>1 DEF WalkState
    <3>. QED BY <1>1, <1>2, <2>2, <2>3, <2>4, <3>2
  <2>5. CASE ~Repeats(mine, c, n)
    <3>1. after = [open |-> [before.open EXCEPT ![r] = Begun(c, n)],
                   best |-> [before.best EXCEPT ![r] = Better(@, mine)]]
      BY <1>1, <1>2, <1>6, <2>1, <2>3, <2>5 DEF WalkNext
    <3>2. /\ after.open[r] = Begun(c, n) /\ after.best[r] = Better(before.best[r], mine)
          /\ \A x \in Signature \ {r} : after.open[x] = before.open[x] /\ after.best[x] = before.best[x]
      BY <1>4, <3>1
    <3>. QED BY <1>1, <1>2, <2>2, <2>3, <2>5, <3>2
  <2>. QED BY <2>4, <2>5
<1>. QED BY <1>5, <1>6

\* A run that is longer by one.
LEMMA Longer ==
  ASSUME NEW run \in RunType, NEW c, NEW n \in Nat
  PROVE  /\ Len(run.members) \in Nat /\ Len(Extended(run, c, n).members) = Len(run.members) + 1
         /\ Len(Begun(c, n).members) = 1
<1>1. run.members \in Seq(Nat)
  BY DEF RunType
<1>2. Len(run.members) \in Nat /\ Len(Append(run.members, n)) = Len(run.members) + 1 /\ Len(<<n>>) = 1
  BY <1>1
<1>. QED BY <1>2 DEF Extended, Begun

\* At the first repetition a run is open.
LEMMA StretchStarts ==
  ASSUME NEW calls \in Seq(CallRecord), NEW a \in DOMAIN calls, NEW s \in Signature, Tallied(calls, s, a),
         NEW before \in WalkState
  PROVE  Grown(calls, s, a, WalkNext(calls, a, before).open[s], a)
<1>0. a \in Nat \ {0} /\ calls[a] \in CallRecord /\ ~calls[a].resets
  BY DEF Tallied
<1>1. PICK run \in RunType : run = before.open[s]
  BY DEF WalkState
<1>2. PICK new : new = WalkNext(calls, a, before).open[s]
  OBVIOUS
<1>3. Cardinality(Repeated(calls, s, a, a)) = 1
  BY <1>0, RepeatedGrow
<1>4. /\ Repeats(run, calls[a], a) => new = Extended(run, calls[a], a)
      /\ ~Repeats(run, calls[a], a) => new = Begun(calls[a], a)
  BY <1>0, <1>1, <1>2, WalkNextOf
<1>5. new.last = a /\ (new.answer = calls[a].outcome \/ calls[a].outcome = "")
  <2>1. CASE Repeats(run, calls[a], a)
    <3>1. sameAnswer(run, calls[a]) /\ new = Extended(run, calls[a], a)
      BY <1>4, <2>1 DEF Repeats
    <3>. QED BY <3>1 DEF sameAnswer, Extended
  <2>2. CASE ~Repeats(run, calls[a], a)
    <3>1. new = Begun(calls[a], a)
      BY <1>4, <2>2
    <3>. QED BY <3>1 DEF Begun
  <2>. QED BY <2>1, <2>2
<1>6. Len(new.members) >= 1
  <2>1. Len(run.members) \in Nat /\ Len(Extended(run, calls[a], a).members) = Len(run.members) + 1
        /\ Len(Begun(calls[a], a).members) = 1
    BY <1>0, Longer
  <2>2. PICK L \in Nat : L = Len(run.members)
    BY <2>1
  <2>3. Len(new.members) = L + 1 \/ Len(new.members) = 1
    BY <1>4, <2>1, <2>2
  <2>4. L + 1 >= 1 /\ 1 >= 1
    OBVIOUS
  <2>. QED BY <2>3, <2>4, Zenon
<1>7. new # NoRun
  <2>1. NoRun.last = 0 /\ a # 0
    BY <1>0 DEF NoRun
  <2>. QED BY <1>5, <2>1
<1>8. a \in Repeated(calls, s, a, a)
  <2>1. a \in a .. a
    BY <1>0
  <2>. QED BY <2>1 DEF Repeated
<1>9. a + 1 .. a = {}
  BY <1>0
<1>10. Grown(calls, s, a, new, a)
  BY <1>3, <1>5, <1>6, <1>7, <1>8, <1>9 DEF Grown
<1>. QED BY <1>2, <1>10

\* Each repetition is added to it.
LEMMA StretchGoesOn ==
  ASSUME NEW calls \in Seq(CallRecord), NEW a \in DOMAIN calls, NEW b \in DOMAIN calls, NEW s \in Signature,
         IsStretch(calls, s, a, b), NEW n \in a + 1 .. b, NEW before \in WalkState,
         Grown(calls, s, a, before.open[s], n - 1)
  PROVE  Grown(calls, s, a, WalkNext(calls, n, before).open[s], n)
<1>0. /\ a \in Nat \ {0} /\ b \in Nat /\ n \in Nat \ {0} /\ n - 1 \in Nat /\ a <= n - 1 /\ n - 1 + 1 = n
      /\ n \in DOMAIN calls /\ n \in a .. b
  <2>1. PICK N \in Nat : DOMAIN calls = 1 .. N
    OBVIOUS
  <2>2. a \in 1 .. N /\ b \in 1 .. N
    BY <2>1
  <2>3. n \in 1 .. N
    BY <2>2
  <2>. QED BY <2>1, <2>2, <2>3
<1>1. ~calls[n].resets
  BY <1>0 DEF IsStretch
<1>2. PICK run \in RunType : run = before.open[s]
  BY DEF WalkState
<1>3. PICK new : new = WalkNext(calls, n, before).open[s]
  OBVIOUS
<1>4. /\ Cardinality(Repeated(calls, s, a, n - 1)) \in Nat
      /\ Cardinality(Repeated(calls, s, a, n)) =
           Cardinality(Repeated(calls, s, a, n - 1)) + (IF Tallied(calls, s, n) THEN 1 ELSE 0)
  <2>1. /\ Cardinality(Repeated(calls, s, a, n - 1)) \in Nat
        /\ Cardinality(Repeated(calls, s, a, n - 1 + 1)) =
             Cardinality(Repeated(calls, s, a, n - 1)) + (IF Tallied(calls, s, n - 1 + 1) THEN 1 ELSE 0)
    BY <1>0, RepeatedGrow
  <2>. QED BY <1>0, <2>1, Zenon
<1>5. /\ run # NoRun /\ Len(run.members) >= Cardinality(Repeated(calls, s, a, n - 1))
      /\ run.last \in Repeated(calls, s, a, n - 1) /\ \A m \in run.last + 1 .. n - 1 : ~Tallied(calls, s, m)
      /\ run.answer = calls[a].outcome \/ calls[a].outcome = ""
  BY <1>2 DEF Grown
<1>6. run.last \in a .. n - 1 /\ Tallied(calls, s, run.last)
  BY <1>5 DEF Repeated
<1>7. CASE ~Tallied(calls, s, n)
  <2>1. new = run
    BY <1>0, <1>1, <1>2, <1>3, <1>7, WalkNextOf
  <2>2. \A m \in run.last + 1 .. n : m = n \/ m \in run.last + 1 .. n - 1
    BY <1>0, <1>6
  <2>3. run.last \in Repeated(calls, s, a, n)
    BY <1>0, <1>6 DEF Repeated
  <2>4. Len(run.members) >= Cardinality(Repeated(calls, s, a, n))
    <3>1. Cardinality(Repeated(calls, s, a, n)) = Cardinality(Repeated(calls, s, a, n - 1))
      BY <1>4, <1>7
    <3>. QED BY <1>5, <3>1, Zenon
  <2>5. Grown(calls, s, a, run, n)
    BY <1>5, <1>7, <2>2, <2>3, <2>4 DEF Grown
  <2>. QED BY <1>3, <2>1, <2>5
<1>8. CASE Tallied(calls, s, n)
  <2>1. n \in Repeated(calls, s, a, b) /\ run.last \in Repeated(calls, s, a, b) /\ run.last # b
    BY <1>0, <1>6, <1>8 DEF Repeated
  <2>2. PICK l \in Repeated(calls, s, a, b) : run.last < l /\ l <= run.last + LOOP_WINDOW
    BY <2>1 DEF IsStretch
  <2>3. l >= n
    <3>1. l \in a .. b /\ Tallied(calls, s, l)
      BY DEF Repeated
    <3>2. l < n => l \in run.last + 1 .. n - 1
      BY <1>0, <1>6, <2>2, <3>1
    <3>3. ~(l < n)
      BY <1>5, <3>1, <3>2, Zenon
    <3>4. l \in Nat
      BY <1>0, <3>1
    <3>. QED BY <1>0, <3>3, <3>4
  <2>4. n - run.last <= LOOP_WINDOW
    <3>1. l \in Nat /\ run.last \in Nat
      BY <1>0, <1>6 DEF Repeated
    <3>. QED BY <1>0, <2>2, <2>3, <3>1, LoopsAssumption
  <2>5. calls[n].outcome = calls[a].outcome
    BY <2>1 DEF IsStretch
  <2>6. Repeats(run, calls[n], n)
    BY <1>5, <2>4, <2>5 DEF Repeats, sameAnswer
  <2>7. new = Extended(run, calls[n], n)
    BY <1>0, <1>1, <1>2, <1>3, <1>8, <2>6, WalkNextOf
  <2>8. Len(new.members) = Len(run.members) + 1 /\ Len(run.members) \in Nat
    BY <1>0, <2>7, Longer
  <2>9. new.last = n /\ (new.answer = calls[a].outcome \/ calls[a].outcome = "")
    BY <1>5, <2>5, <2>7 DEF Extended
  <2>10. new # NoRun
    <3>1. NoRun.last = 0 /\ n # 0
      BY <1>0 DEF NoRun
    <3>. QED BY <2>9, <3>1
  <2>11. n \in Repeated(calls, s, a, n) /\ n + 1 .. n = {}
    BY <1>0, <1>8 DEF Repeated
  <2>12. Len(new.members) >= Cardinality(Repeated(calls, s, a, n))
    <3>1. PICK k \in Nat : k = Cardinality(Repeated(calls, s, a, n - 1))
      BY <1>4
    <3>2. Cardinality(Repeated(calls, s, a, n)) = k + 1
      BY <1>4, <1>8, <3>1
    <3>3. PICK L \in Nat : L = Len(run.members)
      BY <2>8
    <3>4. L >= k
      BY <1>5, <3>1, <3>3
    <3>5. L + 1 >= k + 1
      BY <3>4
    <3>. QED BY <2>8, <3>2, <3>3, <3>5
  <2>13. Grown(calls, s, a, new, n)
    BY <2>9, <2>10, <2>11, <2>12 DEF Grown
  <2>. QED BY <1>3, <2>13
<1>. QED BY <1>7, <1>8

\* The better of two runs is as long as either that is a loop.
LEMMA BetterIsLong ==
  ASSUME NEW best \in RunType, NEW run \in RunType, NEW long \in Nat, long >= LOOP_MIN_REPEATS,
         Len(best.members) >= long \/ Len(run.members) >= long
  PROVE  Len(Better(best, run).members) >= long
<1>1. best.members \in Seq(Nat) /\ run.members \in Seq(Nat)
  BY DEF RunType
<1>2. Len(best.members) \in Nat /\ Len(run.members) \in Nat /\ LOOP_MIN_REPEATS \in Nat
  BY <1>1, LoopsAssumption
<1>. QED BY <1>2 DEF Better

\* A run that is long enough is not lost.
LEMMA HeldStays ==
  ASSUME NEW calls \in Seq(CallRecord), NEW n \in DOMAIN calls, NEW before \in WalkState, NEW s \in Signature,
         NEW long \in Nat, long >= LOOP_MIN_REPEATS, Held(before, s, long)
  PROVE  Held(WalkNext(calls, n, before), s, long)
<1>0. n \in Nat
  OBVIOUS
<1>1. PICK run \in RunType, best \in RunType : run = before.open[s] /\ best = before.best[s]
  BY DEF WalkState
<1>2. PICK after : after = WalkNext(calls, n, before)
  OBVIOUS
<1>3. Len(Better(best, run).members) >= long
  BY <1>1, BetterIsLong DEF Held
<1>4. CASE calls[n].resets
  <2>1. after.best[s] = Better(best, run)
    BY <1>1, <1>2, <1>4 DEF WalkNext
  <2>. QED BY <1>2, <1>3, <2>1 DEF Held
<1>5. CASE ~calls[n].resets
  <2>1. \/ after.open[s] = run /\ after.best[s] = best
        \/ after.open[s] = Extended(run, calls[n], n) /\ after.best[s] = best
        \/ after.best[s] = Better(best, run)
    BY <1>1, <1>2, <1>5, WalkNextOf
  <2>2. Len(run.members) \in Nat /\ Len(Extended(run, calls[n], n).members) = Len(run.members) + 1
    BY <1>0, Longer
  <2>3. Len(run.members) >= long => Len(Extended(run, calls[n], n).members) >= long
    BY <2>2
  <2>. QED BY <1>1, <1>2, <1>3, <2>1, <2>3 DEF Held
<1>. QED BY <1>4, <1>5

\* A stretch of repetitions is reported, and not shortened.
LEMMA StretchIsFound ==
  ASSUME NEW calls \in Seq(CallRecord), NEW a \in DOMAIN calls, NEW b \in DOMAIN calls, NEW s \in Signature,
         IsStretch(calls, s, a, b)
  PROVE  \E f \in detectLoops(calls) :
           f.sig = s /\ f.repeats \in Nat /\ f.repeats >= Cardinality(Repeated(calls, s, a, b))
<1>0. PICK N \in Nat : N = Len(calls) /\ DOMAIN calls = 1 .. N
  OBVIOUS
<1>1. PICK walk \in [0 .. N -> WalkState] :
        /\ walk[0] = NoRuns
        /\ \A i \in DOMAIN calls : walk[i] = WalkNext(calls, i, walk[i - 1])
        /\ detectLoops(calls) =
             Reports(calls, [r \in Signature |-> Better(walk[N].best[r], walk[N].open[r])])
  BY <1>0, WalkOfCalls
<1>2. /\ a \in 1 .. N /\ b \in 1 .. N /\ a <= b
      /\ Tallied(calls, s, a) /\ Tallied(calls, s, b)
  <2>1. a \in 1 .. N /\ b \in 1 .. N
    BY <1>0
  <2>. QED BY <2>1 DEF IsStretch, Repeated
<1>3. PICK long \in Nat : long = Cardinality(Repeated(calls, s, a, b)) /\ long >= LOOP_MIN_REPEATS
  <2>1. a \in Nat \ {0} /\ b \in Nat
    BY <1>2
  <2>2. Cardinality(Repeated(calls, s, a, b)) \in Nat
    BY <1>2, <2>1, RepeatedGrow
  <2>. QED BY <2>2 DEF IsStretch
<1> DEFINE Good == {n \in 0 .. N : /\ n \in a .. b => Grown(calls, s, a, walk[n].open[s], n)
                                   /\ n >= b => Held(walk[n], s, long)}
<1>4. 0 \in Good /\ Good \in SUBSET (0 .. N)
  BY <1>2
<1>5. ASSUME NEW n \in 1 .. N, n - 1 \in Good
      PROVE  n \in Good
  <2>1. n \in DOMAIN calls /\ walk[n - 1] \in WalkState /\ walk[n] = WalkNext(calls, n, walk[n - 1])
    BY <1>0, <1>1
  <2>2. /\ n - 1 \in a .. b => Grown(calls, s, a, walk[n - 1].open[s], n - 1)
        /\ n - 1 >= b => Held(walk[n - 1], s, long)
    BY <1>5
  <2>3. ASSUME n \in a .. b
        PROVE  Grown(calls, s, a, walk[n].open[s], n)
    <3>1. CASE n = a
      BY <1>2, <2>1, <3>1, StretchStarts
    <3>2. CASE n # a
      <4>1. n \in a + 1 .. b /\ n - 1 \in a .. b
        BY <1>2, <2>3, <3>2
      <4>. QED BY <2>1, <2>2, <4>1, StretchGoesOn
    <3>. QED BY <3>1, <3>2
  <2>4. ASSUME n >= b
        PROVE  Held(walk[n], s, long)
    <3>1. CASE n = b
      <4>1. n \in a .. b
        BY <1>2, <3>1
      <4>2. Grown(calls, s, a, walk[n].open[s], n)
        BY <2>3, <4>1
      <4>3. Len(walk[n].open[s].members) >= long
        BY <1>3, <3>1, <4>2 DEF Grown
      <4>. QED BY <4>3 DEF Held
    <3>2. CASE n # b
      <4>1. n - 1 >= b
        BY <1>2, <2>4, <3>2
      <4>. QED BY <1>3, <2>1, <2>2, <4>1, HeldStays
    <3>. QED BY <3>1, <3>2
  <2>. HIDE DEF Held, Grown
  <2>. QED BY <2>3, <2>4
<1>6. Held(walk[N], s, long)
  <2>1. Good = 0 .. N
    <3>. HIDE DEF Good
    <3>. QED BY <1>4, <1>5, UpTo
  <2>2. N \in Good /\ N >= b
    BY <1>2, <2>1
  <2>. QED BY <2>2
<1>. HIDE DEF Good
<1>7. walk[N].best[s] \in RunType /\ walk[N].open[s] \in RunType
  <2>1. walk[N] \in WalkState
    BY <1>1
  <2>. QED BY <2>1 DEF WalkState
<1>8. PICK run \in RunType : run = Better(walk[N].best[s], walk[N].open[s])
  BY <1>7 DEF Better
<1>9. Len(run.members) >= long
  BY <1>3, <1>6, <1>7, <1>8, BetterIsLong DEF Held
<1>10. run # NoRun
  <2>1. Len(NoRun.members) = 0 /\ ~(0 >= long)
    BY <1>3, LoopsAssumption DEF NoRun
  <2>. QED BY <1>9, <2>1
<1>11. PICK best : best = [r \in Signature |-> Better(walk[N].best[r], walk[N].open[r])]
  OBVIOUS
<1>12. best[s] = run
  BY <1>8, <1>11
<1>13. \E f \in Reports(calls, best) : f.sig = s /\ f.repeats = Len(run.members)
  BY <1>10, <1>12 DEF Reports
<1>14. Len(run.members) \in Nat
  <2>1. run.members \in Seq(Nat)
    BY DEF RunType
  <2>. QED BY <2>1
<1>. QED BY <1>1, <1>3, <1>9, <1>11, <1>13, <1>14

-----------------------------------------------------------------------------
(* What the rows of a session tell of its transcript. *)

\* An entry of a transcript, and the one before or after it.
LEMMA EntryIs ==
  ASSUME Typed, NEW p \in DOMAIN transcript
  PROVE  /\ p \in Nat \ {0} /\ p <= Len(transcript) /\ transcript[p] \in Entry
         /\ transcript[p].kind \in {"call", "result", "said"}
         /\ transcript[p].kind = "said" => transcript[p].use = 0 /\ transcript[p].key = Absent
         /\ transcript[p].kind = "call" =>
              /\ transcript[p].use = p /\ transcript[p].key \in Signature \cup File
              /\ p < Len(transcript) => /\ p + 1 \in DOMAIN transcript /\ transcript[p + 1].kind = "result"
                                        /\ transcript[p + 1].key = transcript[p].key /\ transcript[p + 1].use = p
         /\ transcript[p].kind = "result" =>
              /\ p - 1 \in DOMAIN transcript /\ transcript[p - 1].kind = "call"
              /\ transcript[p].use = p - 1 /\ transcript[p].key = transcript[p - 1].key
              /\ transcript[p].key \in Signature \cup File
<1>0. PICK N \in Nat : N = Len(transcript) /\ DOMAIN transcript = 1 .. N
  BY DEF Typed
<1>1. p \in 1 .. N /\ transcript[p] \in Entry
  BY <1>0 DEF Typed
<1>2. transcript[p].kind \in {"call", "result", "said"}
  BY <1>1 DEF Entry
<1>3. transcript[p].kind = "said" => transcript[p].use = 0 /\ transcript[p].key = Absent
  BY DEF Typed, Orderly, Follows
<1>4. ASSUME NEW q \in 1 .. N, transcript[q].kind = "call"
      PROVE  transcript[q].use = q /\ transcript[q].key \in Signature \cup File
  <2>1. transcript[q].use = q /\ transcript[q].key # Absent
    BY <1>0, <1>4 DEF Typed, Orderly, Follows
  <2>2. transcript[q] \in Entry
    BY <1>0 DEF Typed
  <2>3. transcript[q].key \in Shell \cup Look \cup File \cup {Absent}
    BY <2>2 DEF Entry
  <2>. QED BY <2>1, <2>3 DEF Signature
<1>5. ASSUME NEW q \in 1 .. N, transcript[q].kind = "result"
      PROVE  /\ q - 1 \in 1 .. N /\ transcript[q - 1].kind = "call"
             /\ transcript[q].use = q - 1 /\ transcript[q].key = transcript[q - 1].key
  BY <1>0, <1>5 DEF Typed, Orderly, Follows
<1>6. ASSUME transcript[p].kind = "call", p < N
      PROVE  /\ p + 1 \in 1 .. N /\ transcript[p + 1].kind = "result"
             /\ transcript[p + 1].key = transcript[p].key /\ transcript[p + 1].use = p
  <2>1. PICK q \in 1 .. N : q = p + 1 /\ q - 1 = p
    BY <1>1, <1>6
  <2>2. transcript[q].kind = "result"
    BY <1>0, <1>6, <2>1 DEF Typed, Orderly, Follows
  <2>3. transcript[q].use = p /\ transcript[q].key = transcript[p].key
    BY <1>5, <2>1, <2>2
  <2>. QED BY <2>1, <2>2, <2>3
<1>7. p \in Nat \ {0} /\ p <= N
  BY <1>1
<1>8. transcript[p].kind = "result" => transcript[p].key \in Signature \cup File
  BY <1>1, <1>4, <1>5
<1>. QED BY <1>0, <1>1, <1>2, <1>3, <1>4, <1>5, <1>6, <1>7, <1>8

\* A row was reported of its entry, by the transcript or by a hook.
LEMMA RowIs ==
  ASSUME TrafficInv, NEW e \in Rows
  PROVE  /\ e \in ContextEvent /\ e.at \in DOMAIN transcript
         /\ \/ e = FromTail(e.at) /\ e.at <= readTo
            \/ /\ e = FromHook(e.at) /\ transcript[e.at].kind # "call" /\ "hook" \in setting.ways
               /\ e.use = 0 /\ e.type \in {"USER_MESSAGE", "COMMAND_EXECUTED", "FILE_CHANGED", "TOOL_RESULT"}
<1>1. e \in ContextEvent
  BY DEF TrafficInv, Typed, Rows
<1>2. /\ e.at \in DOMAIN transcript
      /\ \/ e = FromTail(e.at) /\ e.at <= readTo
         \/ e = FromHook(e.at) /\ transcript[e.at].kind # "call" /\ "hook" \in setting.ways
  BY DEF TrafficInv, Reported
<1>3. ASSUME e = FromHook(e.at)
      PROVE  e.use = 0 /\ e.type \in {"USER_MESSAGE", "COMMAND_EXECUTED", "FILE_CHANGED", "TOOL_RESULT"}
  <2>1. PICK p : p = e.at
    OBVIOUS
  <2>2. p \in Nat /\ transcript[p] \in Entry /\ (transcript[p].kind = "said" => transcript[p].key = Absent)
    BY <1>2, <2>1, EntryIs DEF TrafficInv
  <2>3. e = fromHook(p, transcript[p])
    BY <1>3, <2>1 DEF FromHook
  <2>. QED BY <2>2, <2>3, HookIs
<1>. QED BY <1>1, <1>2, <1>3

\* What the transcript reports of its entry p, by the kind of the entry.
LEMMA FromTailIs ==
  ASSUME Typed, NEW p \in DOMAIN transcript
  PROVE  /\ FromTail(p).at = p /\ FromTail(p).exit = Absent
         /\ FromTail(p).says = transcript[p].answer.says /\ FromTail(p).cues = transcript[p].answer.cues
         /\ transcript[p].kind = "said" <=> FromTail(p).type = "USER_MESSAGE"
         /\ transcript[p].kind = "said" => FromTail(p).use = 0
         /\ transcript[p].kind = "call" =>
              /\ FromTail(p).use = p /\ FromTail(p).key = transcript[p].key
              /\ FromTail(p).type = IF transcript[p].key \in File THEN "FILE_CHANGED" ELSE "TOOL_CALL"
         /\ transcript[p].kind = "result" =>
              /\ FromTail(p).use = p - 1 /\ FromTail(p).key = Absent
              /\ FromTail(p).type = IF transcript[p].answer.failed THEN "ERROR_DETECTED" ELSE "TOOL_RESULT"
<1>1. PICK e : e = transcript[p]
  OBVIOUS
<1>2. /\ p \in Nat /\ e \in Entry /\ e.kind \in {"call", "result", "said"}
      /\ e.kind = "call" => e.use = p
      /\ e.kind = "result" => e.use = p - 1
  BY <1>1, EntryIs
<1>3. PICK x : x = fromTranscript(p, e)
  OBVIOUS
<1>4. x = FromTail(p)
  BY <1>1, <1>3 DEF FromTail
<1>5. /\ x.at = p /\ x.exit = Absent /\ x.says = e.answer.says /\ x.cues = e.answer.cues
      /\ e.kind = "said" => x.type = "USER_MESSAGE" /\ x.key = Absent /\ x.use = 0
      /\ e.kind = "call" => /\ x.key = e.key /\ x.use = p
                            /\ x.type = IF e.key \in File THEN "FILE_CHANGED" ELSE "TOOL_CALL"
      /\ e.kind = "result" => /\ x.key = Absent /\ x.use = p - 1
                              /\ x.type = IF e.answer.failed THEN "ERROR_DETECTED" ELSE "TOOL_RESULT"
  BY <1>2, <1>3, TailIs
<1>6. e.kind # "said" => x.type # "USER_MESSAGE"
  BY <1>2, <1>5
<1>. QED BY <1>1, <1>4, <1>5, <1>6

\* A row of a tool use is what the transcript reports: the call, or what came back.
LEMMA UseIs ==
  ASSUME TrafficInv, NEW e \in Rows, e.use # 0
  PROVE  /\ e = FromTail(e.at) /\ e.at <= readTo /\ e.at \in DOMAIN transcript
         /\ e.type \in {"TOOL_CALL", "FILE_CHANGED"} => transcript[e.at].kind = "call" /\ e.at = e.use
         /\ e.type \in Answering => transcript[e.at].kind = "result" /\ e.at = e.use + 1
<1>1. PICK p \in DOMAIN transcript : p = e.at /\ e = FromTail(p) /\ p <= readTo
  BY RowIs
<1>2. p \in Nat /\ transcript[p].kind \in {"call", "result", "said"}
  BY EntryIs DEF TrafficInv
<1>3. /\ transcript[p].kind = "said" => e.use = 0
      /\ transcript[p].kind = "call" => e.use = p /\ e.type \in {"TOOL_CALL", "FILE_CHANGED"}
      /\ transcript[p].kind = "result" => e.use = p - 1 /\ e.type \in {"ERROR_DETECTED", "TOOL_RESULT"}
  BY <1>1, FromTailIs DEF TrafficInv
<1>4. e.type \in {"TOOL_CALL", "FILE_CHANGED"} => transcript[p].kind = "call" /\ p = e.use
  BY <1>2, <1>3
<1>5. e.type \in Answering => transcript[p].kind = "result"
  BY <1>2, <1>3 DEF Answering
<1>6. transcript[p].kind = "result" => p = e.use + 1
  BY <1>2, <1>3
<1>. QED BY <1>1, <1>4, <1>5, <1>6

\* The traffic of a session is sensible.
LEMMA TrafficIsSensible ==
  ASSUME TrafficInv
  PROVE  Sensible(sessionTraffic)
<1>0. stored \in Seq(ContextEvent)
  BY DEF TrafficInv, Typed
<1>1. ASSUME NEW e \in Rows
      PROVE  /\ e.type = "TOOL_CALL" => e.key \in Signature
             /\ e.type = "COMMAND_EXECUTED" => e.key \in Shell
  <2>1. PICK p \in DOMAIN transcript : p = e.at
    BY RowIs
  <2>2. /\ p \in Nat /\ transcript[p] \in Entry /\ transcript[p].kind \in {"call", "result", "said"}
        /\ transcript[p].kind = "said" => transcript[p].key = Absent
        /\ transcript[p].kind # "said" => transcript[p].key \in Signature \cup File
    BY EntryIs DEF TrafficInv
  <2>3. CASE e = FromTail(p)
    <3>1. e.type # "COMMAND_EXECUTED"
          /\ (e.type = "TOOL_CALL" => transcript[p].kind = "call" /\ transcript[p].key \notin File
                                      /\ e.key = transcript[p].key)
      BY <2>2, <2>3, FromTailIs DEF TrafficInv
    <3>. QED BY <2>2, <3>1
  <2>4. CASE e # FromTail(p)
    <3>1. e = fromHook(p, transcript[p]) /\ e.type # "TOOL_CALL"
      BY <2>1, <2>4, RowIs DEF FromHook
    <3>2. /\ transcript[p].kind = "said" => e.type = "USER_MESSAGE"
          /\ transcript[p].kind # "said" =>
               /\ e.key = transcript[p].key
               /\ e.key \in File => e.type = "FILE_CHANGED"
               /\ e.key \in Look => e.type = "TOOL_RESULT"
      BY <2>2, <3>1, HookIs
    <3>. QED BY <2>2, <3>1, <3>2 DEF Signature
  <2>. QED BY <2>3, <2>4
<1>2. \A r \in DOMAIN sessionTraffic : sessionTraffic[r] \in Rows
  BY <1>0, TrafficIs
<1>. QED BY <1>1, <1>2 DEF Sensible

\* The calls of a session: each is a record of one of its events, in their order.
LEMMA SessionCalls ==
  ASSUME TrafficInv, NEW traffic, traffic = sessionTraffic
  PROVE  /\ traffic \in Seq(ContextEvent) /\ Sensible(traffic)
         /\ \A r \in DOMAIN traffic : traffic[r] \in Rows /\ traffic[r].at \in Nat
         /\ \A e \in Rows : \E r \in DOMAIN traffic : traffic[r] = e
         /\ \A q, r \in DOMAIN traffic : q < r => traffic[q].at <= traffic[r].at
         /\ collectToolCalls(traffic) \in Seq(CallRecord)
         /\ \A m \in DOMAIN collectToolCalls(traffic) :
              /\ collectToolCalls(traffic)[m].at \in DOMAIN traffic
              /\ RecordsOf(traffic, collectToolCalls(traffic)[m].at) = <<collectToolCalls(traffic)[m]>>
         /\ \A l, m \in DOMAIN collectToolCalls(traffic) :
              l < m => collectToolCalls(traffic)[l].at < collectToolCalls(traffic)[m].at
         /\ \A r \in DOMAIN traffic : RecordsOf(traffic, r) # <<>> =>
              \E m \in DOMAIN collectToolCalls(traffic) : collectToolCalls(traffic)[m].at = r
<1>0. stored \in Seq(ContextEvent)
  BY DEF TrafficInv, Typed
<1>1. /\ traffic \in Seq(ContextEvent)
      /\ \A r \in DOMAIN traffic : traffic[r] \in Rows
      /\ \A e \in Rows : \E r \in DOMAIN traffic : traffic[r] = e
      /\ \A q, r \in DOMAIN traffic : q < r => traffic[q].at <= traffic[r].at
  BY <1>0, TrafficIs
<1>2. Sensible(traffic)
  BY TrafficIsSensible
<1>3. PICK calls : calls = collectToolCalls(traffic)
  OBVIOUS
<1>4. Collected(traffic, calls, Len(traffic))
  BY <1>1, <1>2, <1>3, CallsAre
<1>5. DOMAIN traffic = 1 .. Len(traffic)
  BY <1>1
<1>6. /\ calls \in Seq(CallRecord)
      /\ \A m \in DOMAIN calls : calls[m].at \in DOMAIN traffic /\ RecordsOf(traffic, calls[m].at) = <<calls[m]>>
      /\ \A l, m \in DOMAIN calls : l < m => calls[l].at < calls[m].at
      /\ \A r \in DOMAIN traffic : RecordsOf(traffic, r) # <<>> => \E m \in DOMAIN calls : calls[m].at = r
  BY <1>4, <1>5 DEF Collected
<1>7. \A r \in DOMAIN traffic : traffic[r].at \in Nat
  <2>1. \A r \in DOMAIN traffic : traffic[r] \in ContextEvent
    BY <1>1
  <2>. QED BY <2>1 DEF ContextEvent
<1>. QED BY <1>1, <1>2, <1>3, <1>6, <1>7

-----------------------------------------------------------------------------
(* The records of a session's calls. *)

\* What a tail has read and the engine did not drop is stored; it drops writes, and
\* results that tell nothing, alone.
LEMMA KeptIs ==
  ASSUME TrafficInv, NEW p \in DOMAIN transcript, p <= readTo
  PROVE  /\ p \notin dropped => FromTail(p) \in Rows
         /\ transcript[p].kind = "said" => FromTail(p) \in Rows
         /\ transcript[p].kind = "call" /\ transcript[p].key \in Signature => FromTail(p) \in Rows
         /\ transcript[p].kind = "result" /\ (transcript[p].answer.failed
                                              \/ ~looksLike(FromTail(p), {"nothing", "benign"}))
              => FromTail(p) \in Rows
<1>1. p \in Nat \ {0}
  BY EntryIs DEF TrafficInv
<1>2. readTo \in Nat
  BY DEF TrafficInv, Typed, TrafficTypeOK
<1>3. p \in 1 .. readTo
  BY <1>1, <1>2
<1>4. FromTail(p) \in Rows \/ (p \in dropped /\ Passing(FromTail(p)))
  BY <1>3 DEF TrafficInv, TailKept
<1>5. Signature \cap File = {}
  BY EventsAssumption DEF Signature
<1>6. /\ transcript[p].kind = "said" => ~Passing(FromTail(p))
      /\ transcript[p].kind = "call" /\ transcript[p].key \in Signature => ~Passing(FromTail(p))
      /\ transcript[p].kind = "result" /\ (transcript[p].answer.failed
                                           \/ ~looksLike(FromTail(p), {"nothing", "benign"}))
           => ~Passing(FromTail(p))
  BY <1>5, FromTailIs DEF TrafficInv, Passing
<1>. QED BY <1>4, <1>6

\* The outcome of a call is the one the transcript tells in the entry after it.
LEMMA OutcomeOfCall ==
  ASSUME TrafficInv, NEW traffic, traffic = sessionTraffic, NEW p \in DOMAIN transcript,
         transcript[p].kind = "call"
  PROVE  /\ outcomeOf(traffic, p) \in OutcomeType
         /\ \/ outcomeOf(traffic, p) = Unanswered
            \/ p + 1 \in DOMAIN transcript /\ outcomeOf(traffic, p) = Tells(FromTail(p + 1))
         /\ p + 1 \in DOMAIN transcript /\ FromTail(p + 1) \in Rows => outcomeOf(traffic, p) = Tells(FromTail(p + 1))
<1>0. /\ traffic \in Seq(ContextEvent)
      /\ \A r \in DOMAIN traffic : traffic[r] \in Rows
      /\ \A e \in Rows : \E r \in DOMAIN traffic : traffic[r] = e
  BY SessionCalls
<1>1. p \in Nat /\ p # 0 /\ p <= Len(transcript)
  BY EntryIs DEF TrafficInv
<1>2. ASSUME NEW n \in DOMAIN traffic, traffic[n].use = p, traffic[n].type \in Answering
      PROVE  p + 1 \in DOMAIN transcript /\ traffic[n] = FromTail(p + 1)
  <2>1. PICK e \in Rows : e = traffic[n]
    BY <1>0
  <2>2. e = FromTail(e.at) /\ e.at \in DOMAIN transcript /\ e.at = p + 1
    BY <1>1, <1>2, <2>1, UseIs
  <2>. QED BY <2>1, <2>2
<1>3. /\ outcomeOf(traffic, p) \in OutcomeType
      /\ \/ outcomeOf(traffic, p) = Unanswered
            /\ (p = 0 \/ \A n \in DOMAIN traffic :
                  traffic[n].use = p => traffic[n].type \notin {"ERROR_DETECTED", "TOOL_RESULT"})
         \/ \E n \in DOMAIN traffic :
              traffic[n].use = p /\ traffic[n].type \in Answering /\ outcomeOf(traffic, p) = Tells(traffic[n])
  BY <1>0, OutcomeIs
<1>4. ASSUME p + 1 \in DOMAIN transcript, FromTail(p + 1) \in Rows
      PROVE  \E n \in DOMAIN traffic :
               traffic[n].use = p /\ traffic[n].type \in {"ERROR_DETECTED", "TOOL_RESULT"}
  <2>1. PICK q \in DOMAIN transcript : q = p + 1
    BY <1>4
  <2>2. p < Len(transcript)
    <3>1. q <= Len(transcript)
      BY EntryIs DEF TrafficInv
    <3>2. Len(transcript) \in Nat
      BY DEF TrafficInv, Typed
    <3>. QED BY <1>1, <2>1, <3>1, <3>2
  <2>3. transcript[q].kind = "result" /\ q - 1 = p
    <3>1. transcript[p + 1].kind = "result"
      BY <2>2, EntryIs DEF TrafficInv
    <3>. QED BY <1>1, <2>1, <3>1
  <2>4. FromTail(q).use = p /\ FromTail(q).type \in {"ERROR_DETECTED", "TOOL_RESULT"}
    BY <2>3, FromTailIs DEF TrafficInv
  <2>5. PICK n \in DOMAIN traffic : traffic[n] = FromTail(q)
    BY <1>0, <1>4, <2>1
  <2>. QED BY <2>4, <2>5
<1>5. CASE outcomeOf(traffic, p) = Unanswered
            /\ \A n \in DOMAIN traffic :
                 traffic[n].use = p => traffic[n].type \notin {"ERROR_DETECTED", "TOOL_RESULT"}
  BY <1>3, <1>4, <1>5
<1>6. CASE \E n \in DOMAIN traffic :
             traffic[n].use = p /\ traffic[n].type \in Answering /\ outcomeOf(traffic, p) = Tells(traffic[n])
  <2>1. p + 1 \in DOMAIN transcript /\ outcomeOf(traffic, p) = Tells(FromTail(p + 1))
    BY <1>2, <1>6
  <2>. QED BY <1>3, <2>1
<1>. QED BY <1>1, <1>3, <1>5, <1>6

\* What the transcript reports of a call or a write has one record, where it is read.
LEMMA FirstRow ==
  ASSUME TrafficInv, NEW traffic, traffic = sessionTraffic, isTranscript(traffic),
         NEW p \in DOMAIN transcript, transcript[p].kind = "call", FromTail(p) \in Rows
  PROVE  \E r \in DOMAIN traffic :
           /\ traffic[r] = FromTail(p) /\ traffic[r].at = p
           /\ RecordsOf(traffic, r) =
                IF transcript[p].key \in File THEN <<Written(r, outcomeOf(traffic, p).failed)>>
                ELSE <<Called(r, transcript[p].key, outcomeOf(traffic, p))>>
<1>0. /\ traffic \in Seq(ContextEvent)
      /\ \A r \in DOMAIN traffic : traffic[r] \in Rows
      /\ \A e \in Rows : \E r \in DOMAIN traffic : traffic[r] = e
  BY SessionCalls
<1>1. p \in Nat /\ p # 0
  BY EntryIs DEF TrafficInv
<1>2. PICK x : x = FromTail(p)
  OBVIOUS
<1>3. /\ x.at = p /\ x.use = p /\ x.key = transcript[p].key
      /\ x.type = IF transcript[p].key \in File THEN "FILE_CHANGED" ELSE "TOOL_CALL"
  BY <1>2, FromTailIs DEF TrafficInv
<1> DEFINE S == {r \in DOMAIN traffic : traffic[r] = x}
<1>4. PICK r \in S : \A n \in S : r <= n
  <2>1. S \in SUBSET Nat
    BY <1>0
  <2>2. S # {}
    BY <1>0, <1>2
  <2>. HIDE DEF S
  <2>. QED BY <2>1, <2>2, Least
<1>5. firstOfItsUse(traffic, r)
  <2>1. ASSUME NEW m \in DOMAIN traffic, traffic[m].use = traffic[r].use,
               traffic[m].type \in {"TOOL_CALL", "FILE_CHANGED"}
        PROVE  m \in S
    <3>1. PICK e \in Rows : e = traffic[m]
      BY <1>0
    <3>2. e.use = p /\ e.type \in {"TOOL_CALL", "FILE_CHANGED"}
      BY <1>3, <1>4, <2>1, <3>1
    <3>3. e = FromTail(e.at) /\ e.at = p
      BY <1>1, <3>2, UseIs
    <3>. QED BY <1>2, <3>1, <3>3
  <2>2. \A m \in S : m \in Nat /\ r \in Nat
    BY <1>0
  <2>. QED BY <1>4, <2>1, <2>2 DEF firstOfItsUse
<1>6. RecordsOf(traffic, r) =
        IF x.type = "FILE_CHANGED" THEN <<Written(r, outcomeOf(traffic, x.use).failed)>>
        ELSE <<Called(r, x.key, outcomeOf(traffic, x.use))>>
  <2>1. x.type # "USER_MESSAGE" /\ x.type \in {"TOOL_CALL", "FILE_CHANGED"} /\ x.use # 0
    BY <1>1, <1>3
  <2>2. traffic[r] = x
    BY <1>4
  <2>. HIDE DEF S
  <2>. QED BY <1>5, <2>1, <2>2 DEF RecordsOf
<1>. QED BY <1>2, <1>3, <1>4, <1>6

\* Record c, of row r, is that of entry p.
CountsFor(traffic, r, c, p) ==
  /\ p = traffic[r].at /\ c.sig = transcript[p].key /\ c.sig \in Signature
  /\ isTranscript(traffic) =>
       /\ transcript[p].kind = "call" /\ p <= readTo
       /\ c = Called(r, transcript[p].key, outcomeOf(traffic, p))
  /\ ~isTranscript(traffic) =>
       /\ transcript[p].kind = "result" /\ "hook" \in setting.ways
       /\ c.outcome = transcript[p].answer.says

\* A call that may count towards a run: the transcript's, or, in a session no transcript of
\* which was read, the one a hook reported when it had come back.
LEMMA CallsThatCount ==
  ASSUME TrafficInv, NEW traffic, traffic = sessionTraffic, NEW r \in DOMAIN traffic,
         NEW c, RecordsOf(traffic, r) = <<c>>, ~c.ignored
  PROVE  \E p \in DOMAIN transcript : CountsFor(traffic, r, c, p)
<1>1. PICK e \in Rows : e = traffic[r]
  BY SessionCalls
<1>2. PICK p \in DOMAIN transcript : p = e.at
  BY RowIs
<1>3. e.type # "USER_MESSAGE"
  <2>1. Reset(r).ignored
    BY DEF Reset
  <2>2. e.type = "USER_MESSAGE" => RecordsOf(traffic, r) = <<Reset(r)>>
    BY <1>1 DEF RecordsOf
  <2>3. <<c>> = <<Reset(r)>> => c = Reset(r)
    OBVIOUS
  <2>. QED BY <2>1, <2>2, <2>3
<1>4. \A failed : Written(r, failed).ignored
  BY DEF Written, Reset
<1>5. CASE isTranscript(traffic)
  <2>1. /\ e.type \in {"TOOL_CALL", "FILE_CHANGED"} /\ e.use # 0
        /\ <<c>> = IF e.type = "FILE_CHANGED" THEN <<Written(r, outcomeOf(traffic, e.use).failed)>>
                   ELSE <<Called(r, e.key, outcomeOf(traffic, e.use))>>
    <3>1. RecordsOf(traffic, r) =
            IF e.type \notin {"TOOL_CALL", "FILE_CHANGED"} \/ e.use = 0 \/ ~ firstOfItsUse(traffic, r)
            THEN <<>>
            ELSE IF e.type = "FILE_CHANGED" THEN <<Written(r, outcomeOf(traffic, e.use).failed)>>
            ELSE <<Called(r, e.key, outcomeOf(traffic, e.use))>>
      BY <1>1, <1>3, <1>5 DEF RecordsOf
    <3>2. <<c>> # <<>>
      OBVIOUS
    <3>. QED BY <3>1, <3>2
  <2>2. e.type # "FILE_CHANGED"
    BY <1>4, <2>1
  <2>3. c = Called(r, e.key, outcomeOf(traffic, e.use)) /\ e.type = "TOOL_CALL"
    BY <2>1, <2>2
  <2>4. transcript[p].kind = "call" /\ e.use = p /\ p <= readTo /\ e = FromTail(p)
    BY <1>2, <2>1, UseIs
  <2>5. e.key = transcript[p].key
    BY <2>4, FromTailIs DEF TrafficInv
  <2>6. e.key \in Signature
    BY <1>1, <2>3, TrafficIsSensible DEF Sensible
  <2>7. c.sig = e.key
    BY <2>3 DEF Called
  <2>8. p = traffic[r].at /\ c = Called(r, transcript[p].key, outcomeOf(traffic, p))
    <3>1. p = traffic[r].at
      BY <1>1, <1>2
    <3>2. c = Called(r, transcript[p].key, outcomeOf(traffic, p))
      BY <2>3, <2>4, <2>5
    <3>. QED BY <3>1, <3>2
  <2>9. CountsFor(traffic, r, c, p)
    BY <1>5, <2>4, <2>5, <2>6, <2>7, <2>8 DEF CountsFor
  <2>. QED BY <2>9
<1>6. CASE ~isTranscript(traffic)
  <2>1. /\ e.type # "FILE_CHANGED" /\ ownOutcome(e) # {}
        /\ c = Called(r, e.key, CHOOSE o \in ownOutcome(e) : TRUE)
    <3>1. RecordsOf(traffic, r) =
            IF e.type = "FILE_CHANGED" THEN <<Written(r, "unknown")>>
            ELSE IF ownOutcome(e) = {} THEN <<>>
            ELSE <<Called(r, e.key, CHOOSE o \in ownOutcome(e) : TRUE)>>
      BY <1>1, <1>3, <1>6 DEF RecordsOf
    <3>2. <<c>> # <<>> /\ (<<c>> = <<Written(r, "unknown")>> => c = Written(r, "unknown"))
      OBVIOUS
    <3>. QED BY <1>4, <3>1, <3>2
  <2>2. /\ ownOutcome(e) = {Tells(e)}
        /\ \/ e.type = "COMMAND_EXECUTED"
           \/ e.type \in {"TOOL_RESULT", "ERROR_DETECTED"} /\ e.key \in Look
    BY <2>1 DEF ownOutcome, Tells, normalizeOutcome
  <2>3. c = Called(r, e.key, Tells(e))
    BY <2>1, <2>2
  <2>4. e # FromTail(p)
    <3>1. ASSUME e = FromTail(p)
          PROVE  FALSE
      <4>1. transcript[p].kind \in {"call", "result", "said"}
        BY EntryIs DEF TrafficInv
      <4>2. e.type # "COMMAND_EXECUTED" /\ (e.type \in {"TOOL_RESULT", "ERROR_DETECTED"} => e.key = Absent)
        BY <3>1, <4>1, FromTailIs DEF TrafficInv
      <4>3. Absent \notin Look
        BY EventsAssumption
      <4>. QED BY <2>2, <4>2, <4>3
    <3>. QED BY <3>1
  <2>5. e = fromHook(p, transcript[p]) /\ transcript[p].kind # "call" /\ "hook" \in setting.ways
    BY <1>2, <2>4, RowIs DEF FromHook
  <2>6. /\ p \in Nat /\ transcript[p] \in Entry /\ transcript[p].kind \in {"call", "result", "said"}
        /\ transcript[p].kind = "said" => transcript[p].key = Absent
    BY EntryIs DEF TrafficInv
  <2>7. /\ transcript[p].kind = "said" => e.type = "USER_MESSAGE"
        /\ transcript[p].kind # "said" =>
             /\ e.key = transcript[p].key
             /\ e.key \in Shell \cup Look => e.says = transcript[p].answer.says
    BY <2>5, <2>6, HookIs
  <2>8. e.key \in Signature
    <3>1. e.type = "COMMAND_EXECUTED" => e.key \in Shell
      BY <1>1, TrafficIsSensible DEF Sensible
    <3>. QED BY <2>2, <3>1 DEF Signature
  <2>9. c.sig = e.key /\ c.outcome = e.says
    BY <2>3 DEF Called, Tells
  <2>10. p = traffic[r].at
    BY <1>1, <1>2
  <2>11. transcript[p].kind # "said"
    BY <1>3, <2>5, <2>7
  <2>12. transcript[p].kind = "result" /\ c.sig = transcript[p].key
    BY <2>5, <2>6, <2>7, <2>9, <2>11
  <2>13. c.outcome = transcript[p].answer.says
    BY <2>7, <2>8, <2>9, <2>11 DEF Signature
  <2>14. c.sig \in Signature
    BY <2>8, <2>9
  <2>15. CountsFor(traffic, r, c, p)
    BY <1>6, <2>5, <2>10, <2>12, <2>13, <2>14 DEF CountsFor
  <2>. QED BY <2>15
<1>. QED BY <1>5, <1>6

-----------------------------------------------------------------------------
(* Loops that are reported are real. *)

\* Where the positions are in order, what comes after is at a later position.
LEMMA InOrder ==
  ASSUME NEW K \in Nat, NEW f \in [1 .. K -> Nat], \A x, y \in 1 .. K : x < y => f[x] <= f[y],
         NEW x \in 1 .. K, NEW y \in 1 .. K, f[x] < f[y]
  PROVE  x < y
<1>1. ~(y < x)
  <2>1. y < x => f[y] <= f[x]
    OBVIOUS
  <2>2. f[x] \in Nat /\ f[y] \in Nat
    OBVIOUS
  <2>. QED BY <2>1, <2>2
<1>2. x # y
  <2>1. f[x] \in Nat
    OBVIOUS
  <2>. QED BY <2>1
<1>3. x \in Nat /\ y \in Nat
  OBVIOUS
<1>. QED BY <1>1, <1>2, <1>3

\* Between the first and the last call of a run no event resets.
LEMMA NothingResets ==
  ASSUME TrafficInv, NEW traffic, traffic = sessionTraffic, NEW calls, calls = collectToolCalls(traffic),
         NEW s, NEW run \in RunType, SoundRun(calls, s, run, Len(calls)),
         NEW first \in DOMAIN traffic, first = calls[run.members[1]].at,
         NEW last \in DOMAIN traffic, last = calls[run.members[Len(run.members)]].at,
         NEW r \in DOMAIN traffic, NEW c, RecordsOf(traffic, r) = <<c>>
  PROVE  traffic[first].at < traffic[r].at /\ traffic[r].at < traffic[last].at => ~c.resets
<1>0. /\ traffic \in Seq(ContextEvent) /\ calls \in Seq(CallRecord)
      /\ \A q \in DOMAIN traffic : traffic[q].at \in Nat
      /\ \A q, x \in DOMAIN traffic : q < x => traffic[q].at <= traffic[x].at
      /\ \A m \in DOMAIN calls : calls[m].at \in DOMAIN traffic /\ RecordsOf(traffic, calls[m].at) = <<calls[m]>>
      /\ \A l, m \in DOMAIN calls : l < m => calls[l].at < calls[m].at
      /\ \A x \in DOMAIN traffic : RecordsOf(traffic, x) # <<>> => \E m \in DOMAIN calls : calls[m].at = x
  BY SessionCalls
<1>1. PICK N \in Nat : N = Len(calls) /\ DOMAIN calls = 1 .. N
  <2>1. calls \in Seq(CallRecord)
    BY <1>0
  <2>. QED BY <2>1
<1>k. PICK K \in Nat : DOMAIN traffic = 1 .. K
  <2>1. traffic \in Seq(ContextEvent)
    BY <1>0
  <2>. QED BY <2>1
<1> DEFINE moment == [q \in 1 .. K |-> traffic[q].at]
           row == [m \in 1 .. N |-> calls[m].at]
<1>m. /\ moment \in [1 .. K -> Nat] /\ \A x, y \in 1 .. K : x < y => moment[x] <= moment[y]
      /\ \A q \in 1 .. K : moment[q] = traffic[q].at
  BY <1>0, <1>k
<1>n. /\ row \in [1 .. N -> Nat] /\ \A x, y \in 1 .. N : x < y => row[x] <= row[y]
      /\ \A m \in 1 .. N : row[m] = calls[m].at
  <2>1. \A m \in 1 .. N : row[m] = calls[m].at /\ row[m] \in 1 .. K
    BY <1>0, <1>1, <1>k
  <2>2. \A m \in 1 .. N : row[m] \in Nat
    <3>. HIDE DEF row
    <3>. QED BY <2>1
  <2>3. \A x, y \in 1 .. N : x < y => row[x] < row[y]
    <3>1. \A x, y \in 1 .. N : x < y => calls[x].at < calls[y].at
      BY <1>0, <1>1
    <3>. HIDE DEF row
    <3>. QED BY <2>1, <3>1
  <2>4. row \in [1 .. N -> Nat]
    BY <2>2
  <2>5. \A x, y \in 1 .. N : x < y => row[x] <= row[y]
    <3>. HIDE DEF row
    <3>. QED BY <2>2, <2>3
  <2>. QED BY <2>1, <2>4, <2>5
<1>. HIDE DEF moment, row
<1>2. PICK L \in Nat \ {0} :
        /\ Len(run.members) = L /\ DOMAIN run.members = 1 .. L
        /\ \A k \in 1 .. L : run.members[k] \in 1 .. N
        /\ 1 \in 1 .. L /\ L \in 1 .. L
  BY <1>1, MembersAre
<1>3. PICK i \in 1 .. N, j \in 1 .. N : i = run.members[1] /\ j = run.members[L]
  BY <1>2
<1>4. PICK m \in 1 .. N : calls[m].at = r
  <2>1. RecordsOf(traffic, r) # <<>>
    OBVIOUS
  <2>. QED BY <1>0, <1>1, <2>1
<1>5. calls[m] = c
  <2>1. <<calls[m]>> = <<c>>
    BY <1>0, <1>1, <1>4
  <2>. QED BY <2>1
<1>6. ASSUME moment[first] < moment[r], moment[r] < moment[last]
      PROVE  m \in i .. j
  <2>1. first \in 1 .. K /\ r \in 1 .. K /\ last \in 1 .. K
    BY <1>k
  <2>2. first < r /\ r < last
    BY <1>6, <1>m, <2>1, InOrder
  <2>3. row[i] = first /\ row[m] = r /\ row[j] = last
    BY <1>2, <1>3, <1>4, <1>n
  <2>4. i < m /\ m < j
    BY <1>n, <2>2, <2>3, InOrder
  <2>5. i \in Nat /\ m \in Nat /\ j \in Nat
    OBVIOUS
  <2>. QED BY <2>4, <2>5
<1>7. m \in i .. j => ~c.resets
  BY <1>2, <1>3, <1>5 DEF SoundRun
<1>. QED BY <1>6, <1>7, <1>k, <1>m

\* What a move of the agent or the person leaves in the traffic, where it was told of and
\* not dropped: a record that resets.
LEMMA MovesReset ==
  ASSUME TrafficInv, NEW traffic, traffic = sessionTraffic, NEW p \in DOMAIN transcript, Moved(p),
         p \notin Unseen(traffic), p - 1 \notin Unseen(traffic),
         isTranscript(traffic) => p <= readTo,
         ~isTranscript(traffic) => "hook" \in setting.ways
  PROVE  \E r \in DOMAIN traffic : \E c :
           /\ RecordsOf(traffic, r) = <<c>> /\ c.resets
           /\ \/ traffic[r].at = p
              \/ /\ isTranscript(traffic) /\ traffic[r].at = p - 1
                 /\ transcript[p - 1].key = transcript[p].key /\ transcript[p].key \in Mutating \cup File
<1>0. \A e \in Rows : \E r \in DOMAIN traffic : traffic[r] = e
  BY SessionCalls
<1>1. /\ p \in Nat \ {0} /\ transcript[p] \in Entry /\ transcript[p].kind \in {"call", "result", "said"}
      /\ transcript[p].kind = "said" => transcript[p].key = Absent
      /\ transcript[p].kind = "result" =>
           /\ p - 1 \in DOMAIN transcript /\ transcript[p - 1].kind = "call"
           /\ transcript[p].key = transcript[p - 1].key
  BY EntryIs DEF TrafficInv
<1>2. Mutating \subseteq Signature /\ Mutating \subseteq Shell /\ Signature \cap File = {}
  BY EventsAssumption, LoopsAssumption DEF Signature
<1>3. ASSUME NEW e \in Rows, e.type = "USER_MESSAGE", e.at = p
      PROVE  \E r \in DOMAIN traffic : \E c : RecordsOf(traffic, r) = <<c>> /\ c.resets /\ traffic[r].at = p
  <2>1. PICK r \in DOMAIN traffic : traffic[r] = e
    BY <1>0
  <2>2. RecordsOf(traffic, r) = <<Reset(r)>> /\ Reset(r).resets
    BY <1>3, <2>1 DEF RecordsOf, Reset
  <2>. QED BY <1>3, <2>1, <2>2
<1>4. CASE isTranscript(traffic)
  <2>1. p \notin dropped /\ p - 1 \notin dropped /\ p <= readTo
    BY <1>4 DEF Unseen
  <2>2. CASE transcript[p].kind = "said"
    <3>1. FromTail(p) \in Rows /\ FromTail(p).type = "USER_MESSAGE" /\ FromTail(p).at = p
      BY <2>1, <2>2, KeptIs, FromTailIs DEF TrafficInv
    <3>. QED BY <1>3, <3>1
  <2>3. CASE transcript[p].kind = "result"
    <3>1. PICK x \in DOMAIN transcript : /\ x = p - 1 /\ x + 1 = p /\ transcript[x].kind = "call"
                                         /\ transcript[x].key = transcript[p].key
      BY <1>1, <2>3
    <3>2. x <= readTo
      <4>1. readTo \in Nat
        BY DEF TrafficInv, Typed, TrafficTypeOK
      <4>. QED BY <1>1, <2>1, <3>1, <4>1
    <3>3. FromTail(x) \in Rows
      BY <2>1, <3>1, <3>2, KeptIs
    <3>4. PICK r \in DOMAIN traffic :
            /\ traffic[r].at = x
            /\ RecordsOf(traffic, r) =
                 IF transcript[x].key \in File THEN <<Written(r, outcomeOf(traffic, x).failed)>>
                 ELSE <<Called(r, transcript[x].key, outcomeOf(traffic, x))>>
      BY <1>4, <3>1, <3>3, FirstRow
    <3>5. CASE transcript[p].key \in Mutating
      <4>1. RecordsOf(traffic, r) = <<Called(r, transcript[x].key, outcomeOf(traffic, x))>>
        BY <1>2, <3>1, <3>4, <3>5
      <4>2. Called(r, transcript[x].key, outcomeOf(traffic, x)).resets
        BY <3>1, <3>5 DEF Called, isMutatingCommand
      <4>. QED BY <1>4, <3>1, <3>4, <3>5, <4>1, <4>2
    <3>6. CASE transcript[p].key \in File /\ ~transcript[p].answer.failed
      <4>1. RecordsOf(traffic, r) = <<Written(r, outcomeOf(traffic, x).failed)>>
        BY <3>1, <3>4, <3>6
      <4>2. outcomeOf(traffic, x) = Unanswered \/ outcomeOf(traffic, x) = Tells(FromTail(p))
        BY <3>1, OutcomeOfCall
      <4>3. FromTail(p).type = "TOOL_RESULT" /\ FromTail(p).exit = Absent
        BY <2>3, <3>6, FromTailIs DEF TrafficInv
      <4>4. outcomeOf(traffic, x).failed # "yes"
        <5>1. Absent # "other"
          BY EventsAssumption
        <5>2. Tells(FromTail(p)).failed = "no" /\ Unanswered.failed = "unknown"
          BY <4>3, <5>1 DEF Unanswered, Tells
        <5>. QED BY <4>2, <5>2
      <4>5. Written(r, outcomeOf(traffic, x).failed).resets
        BY <4>4 DEF Written, Reset
      <4>. QED BY <1>4, <3>1, <3>4, <3>6, <4>1, <4>5
    <3>. QED BY <1>2, <2>3, <3>5, <3>6 DEF Moved
  <2>. QED BY <2>2, <2>3 DEF Moved
<1>5. CASE ~isTranscript(traffic)
  <2>1. p \notin dropped /\ p \notin untold /\ "hook" \in setting.ways /\ transcript[p].kind # "call"
    BY <1>5 DEF Unseen, Moved
  <2>2. PICK e \in Rows : e = FromHook(p)
    BY <2>1 DEF TrafficInv, HookKept
  <2>3. PICK r \in DOMAIN traffic : traffic[r] = e
    BY <1>0
  <2>4. e = fromHook(p, transcript[p])
    BY <2>2 DEF FromHook
  <2>5. /\ e.at = p
        /\ transcript[p].kind = "said" => e.type = "USER_MESSAGE"
        /\ transcript[p].kind # "said" =>
             /\ e.key = transcript[p].key
             /\ e.key \in Shell => e.type = "COMMAND_EXECUTED" /\ e.exit # Absent
             /\ e.key \in File => e.type = "FILE_CHANGED"
    BY <1>1, <2>4, HookIs
  <2>6. CASE transcript[p].kind = "said"
    BY <1>3, <2>5, <2>6
  <2>7. CASE transcript[p].kind = "result" /\ transcript[p].key \in Mutating
    <3>1. e.type = "COMMAND_EXECUTED" /\ e.exit # Absent /\ e.key \in Mutating
      BY <1>2, <2>5, <2>7
    <3>2. RecordsOf(traffic, r) = <<Called(r, e.key, CHOOSE o \in ownOutcome(e) : TRUE)>>
      <4>1. ownOutcome(e) # {}
        BY <3>1 DEF ownOutcome
      <4>2. RecordsOf(traffic, r) =
              IF e.type = "FILE_CHANGED" THEN <<Written(r, "unknown")>>
              ELSE IF ownOutcome(e) = {} THEN <<>>
              ELSE <<Called(r, e.key, CHOOSE o \in ownOutcome(e) : TRUE)>>
        BY <1>5, <2>3, <3>1 DEF RecordsOf
      <4>. QED BY <3>1, <4>1, <4>2
    <3>3. Called(r, e.key, CHOOSE o \in ownOutcome(e) : TRUE).resets
      BY <3>1 DEF Called, isMutatingCommand
    <3>. QED BY <2>3, <2>5, <3>2, <3>3
  <2>8. CASE transcript[p].kind = "result" /\ transcript[p].key \in File
    <3>1. e.type = "FILE_CHANGED"
      BY <2>5, <2>8
    <3>2. RecordsOf(traffic, r) = <<Written(r, "unknown")>>
      BY <1>5, <2>3, <3>1 DEF RecordsOf
    <3>3. Written(r, "unknown").resets
      BY DEF Written, Reset
    <3>. QED BY <2>3, <2>5, <3>2, <3>3
  <2>. QED BY <2>6, <2>7, <2>8 DEF Moved
<1>. QED BY <1>4, <1>5

\* Finding g is made of this run: call k of it is at the moment of its record.
MadeOf(traffic, calls, g, run, L) ==
  /\ SoundRun(calls, g.sig, run, Len(calls)) /\ g.sig \in Signature
  /\ Len(run.members) = L /\ DOMAIN run.members = 1 .. L
  /\ Len(g.at) = L /\ DOMAIN g.at = 1 .. L
  /\ \A k \in 1 .. L :
       /\ run.members[k] \in DOMAIN calls
       /\ calls[run.members[k]].at \in DOMAIN traffic
       /\ g.at[k] = traffic[calls[run.members[k]].at].at
       /\ calls[run.members[k]].sig = g.sig
       /\ ~calls[run.members[k]].resets /\ ~calls[run.members[k]].ignored
       /\ calls[run.members[k]].outcome \in {"", run.answer}

\* A loop that is reported, and the run it is made of.
LEMMA FindingIs ==
  ASSUME TrafficInv, NEW traffic, traffic = sessionTraffic, NEW calls, calls = collectToolCalls(traffic),
         NEW g \in Findings(traffic)
  PROVE  \E run \in RunType, L \in Nat \ {0} : MadeOf(traffic, calls, g, run, L)
<1>0. /\ calls \in Seq(CallRecord)
      /\ \A m \in DOMAIN calls : calls[m].at \in DOMAIN traffic
  BY SessionCalls
<1>1. PICK f \in detectLoops(calls) : g = [f EXCEPT !.at = [k \in DOMAIN @ |-> traffic[@[k]].at]]
  BY DEF Findings
<1>2. PICK s \in Signature, run \in RunType :
        /\ SoundRun(calls, s, run, Len(calls)) /\ f.sig = s
        /\ f.at = [k \in DOMAIN run.members |-> calls[run.members[k]].at]
  BY <1>0, LoopsAreRuns
<1>3. PICK N \in Nat : N = Len(calls) /\ DOMAIN calls = 1 .. N
  BY <1>0
<1>4. PICK L \in Nat \ {0} :
        /\ Len(run.members) = L /\ DOMAIN run.members = 1 .. L
        /\ \A k \in 1 .. L : run.members[k] \in 1 .. N
  BY <1>2, <1>3, MembersAre
<1>5. \E sig, repeats, errors, at : f = [sig |-> sig, repeats |-> repeats, errorLoop |-> errors, at |-> at]
  <2>1. PICK walk : detectLoops(calls) =
          Reports(calls, [x \in Signature |-> Better(walk[Len(calls)].best[x], walk[Len(calls)].open[x])])
    BY <1>0, WalkOfCalls
  <2>2. PICK best : f \in Reports(calls, best)
    BY <2>1
  <2>. QED BY <2>2 DEF Reports
<1>6. g.sig = s /\ g.at = [k \in DOMAIN f.at |-> traffic[f.at[k]].at]
  BY <1>1, <1>2, <1>5
<1>7. DOMAIN f.at = 1 .. L /\ \A k \in 1 .. L : f.at[k] = calls[run.members[k]].at
  BY <1>2, <1>4
<1>8. g.at = [k \in 1 .. L |-> traffic[f.at[k]].at]
  BY <1>6, <1>7
<1>9. Len(g.at) = L /\ DOMAIN g.at = 1 .. L
  BY <1>8
<1>10. \A k \in 1 .. L : g.at[k] = traffic[calls[run.members[k]].at].at
  BY <1>7, <1>8
<1>11. \A k \in 1 .. L : /\ Tallied(calls, s, run.members[k])
                         /\ calls[run.members[k]].outcome \in {"", run.answer}
  BY <1>2, <1>4 DEF SoundRun
<1>12. \A k \in 1 .. L : /\ calls[run.members[k]].sig = s
                         /\ ~calls[run.members[k]].resets /\ ~calls[run.members[k]].ignored
  BY <1>11 DEF Tallied
<1>13. \A k \in 1 .. L : run.members[k] \in DOMAIN calls /\ calls[run.members[k]].at \in DOMAIN traffic
  BY <1>0, <1>3, <1>4
<1>14. MadeOf(traffic, calls, g, run, L)
  BY <1>2, <1>4, <1>6, <1>9, <1>10, <1>11, <1>12, <1>13 DEF MadeOf
<1>. QED BY <1>14

\* Entry p is a call of a loop of s, as far as the traffic tells: the transcript's call
\* itself, or what came back of it.
CallOf(traffic, s, p, answer) ==
  /\ p \in DOMAIN transcript /\ transcript[p].key = s /\ s \in Signature
  /\ isTranscript(traffic) =>
       /\ transcript[p].kind = "call" /\ p <= readTo
       /\ ~isMutatingCommand(s)
       /\ outcomeOf(traffic, p).says \in {"", answer}
  /\ ~isTranscript(traffic) =>
       /\ transcript[p].kind = "result" /\ "hook" \in setting.ways
       /\ transcript[p].answer.says \in {"", answer}

\* The calls of a loop that is reported are the same call, and are in the transcript.
LEMMA LoopCalls ==
  ASSUME TrafficInv, NEW traffic, traffic = sessionTraffic, NEW g \in Findings(traffic)
  PROVE  \E L \in Nat \ {0}, answer \in Text :
           Len(g.at) = L /\ DOMAIN g.at = 1 .. L /\ \A k \in 1 .. L : CallOf(traffic, g.sig, g.at[k], answer)
<1>1. PICK calls : calls = collectToolCalls(traffic)
  OBVIOUS
<1>m. PICK run \in RunType, L \in Nat \ {0} : MadeOf(traffic, calls, g, run, L)
  BY <1>1, FindingIs
<1>2. /\ Len(g.at) = L /\ DOMAIN g.at = 1 .. L
      /\ \A k \in 1 .. L :
           /\ run.members[k] \in DOMAIN calls
           /\ calls[run.members[k]].at \in DOMAIN traffic
           /\ g.at[k] = traffic[calls[run.members[k]].at].at
           /\ calls[run.members[k]].sig = g.sig
           /\ ~calls[run.members[k]].resets /\ ~calls[run.members[k]].ignored
           /\ calls[run.members[k]].outcome \in {"", run.answer}
  BY <1>m DEF MadeOf
<1>3. ASSUME NEW k \in 1 .. L
      PROVE  CallOf(traffic, g.sig, g.at[k], run.answer)
  <2>1. PICK c : c = calls[run.members[k]]
    OBVIOUS
  <2>2. PICK r \in DOMAIN traffic : r = c.at
    BY <1>2, <2>1
  <2>3. /\ g.at[k] = traffic[r].at /\ c.sig = g.sig /\ ~c.resets /\ ~c.ignored /\ c.outcome \in {"", run.answer}
    BY <1>2, <2>1, <2>2
  <2>4. RecordsOf(traffic, r) = <<c>>
    BY <1>1, <1>2, <2>1, <2>2, SessionCalls
  <2>5a. ~c.ignored
    BY <2>3
  <2>5b. \E p \in DOMAIN transcript : CountsFor(traffic, r, c, p)
    <3> HIDE DEF TrafficInv
    <3>. QED BY <2>4, <2>5a, CallsThatCount, Zenon
  <2>5c. PICK p \in DOMAIN transcript : CountsFor(traffic, r, c, p)
    BY <2>5b
  <2>5. /\ p = traffic[r].at /\ c.sig = transcript[p].key /\ c.sig \in Signature
        /\ isTranscript(traffic) =>
             /\ transcript[p].kind = "call" /\ p <= readTo
             /\ c = Called(r, transcript[p].key, outcomeOf(traffic, p))
        /\ ~isTranscript(traffic) =>
             /\ transcript[p].kind = "result" /\ "hook" \in setting.ways
             /\ c.outcome = transcript[p].answer.says
    BY <2>5c DEF CountsFor
  <2>6. c = Called(r, transcript[p].key, outcomeOf(traffic, p)) =>
          (c.resets <=> isMutatingCommand(transcript[p].key)) /\ c.outcome = outcomeOf(traffic, p).says
    BY DEF Called
  <2>7. g.at[k] = p /\ transcript[p].key = g.sig
    BY <2>3, <2>5
  <2>8. isTranscript(traffic) => ~isMutatingCommand(g.sig) /\ outcomeOf(traffic, p).says \in {"", run.answer}
    BY <2>3, <2>5, <2>6, <2>7
  <2>9. ~isTranscript(traffic) => transcript[p].answer.says \in {"", run.answer}
    BY <2>3, <2>5
  <2>10. CallOf(traffic, g.sig, p, run.answer)
    BY <2>3, <2>5, <2>7, <2>8, <2>9 DEF CallOf
  <2>. QED BY <2>7, <2>10
<1>4. run.answer \in Text
  BY DEF RunType
<1>. QED BY <1>2, <1>3, <1>4

\* The answers the calls of a loop are known to have had are one.
LEMMA OneAnswer ==
  ASSUME TrafficInv, NEW traffic, traffic = sessionTraffic, NEW g \in Findings(traffic)
  PROVE  Cardinality(KnownAnswers(g, traffic)) <= 1
<1>1. PICK L \in Nat \ {0}, answer \in Text :
        Len(g.at) = L /\ DOMAIN g.at = 1 .. L /\ \A k \in 1 .. L : CallOf(traffic, g.sig, g.at[k], answer)
  BY LoopCalls
<1>2. ASSUME NEW q \in DOMAIN transcript, transcript[q].kind = "result",
             NEW k \in 1 .. L, transcript[g.at[k]].use = transcript[q].use,
             isTranscript(traffic) => q <= readTo,
             ~looksLike(FromTail(q), {"nothing", "benign"})
      PROVE  transcript[q].answer.says = answer
  <2>1. PICK p \in DOMAIN transcript : p = g.at[k] /\ CallOf(traffic, g.sig, p, answer)
    BY <1>1 DEF CallOf
  <2>2. /\ q \in Nat /\ transcript[q].use = q - 1
        /\ p \in Nat /\ (transcript[p].kind = "call" => transcript[p].use = p)
        /\ (transcript[p].kind = "result" => transcript[p].use = p - 1)
    BY <1>2, EntryIs DEF TrafficInv
  <2>3. transcript[q].answer.says # ""
    <3>1. BlankLooksIt(transcript[q])
      BY DEF TrafficInv, Typed
    <3>2. FromTail(q).cues = transcript[q].answer.cues
      BY FromTailIs DEF TrafficInv
    <3>3. "nothing" \notin transcript[q].answer.cues
      BY <1>2, <3>2 DEF looksLike
    <3>. QED BY <1>2, <3>1, <3>3 DEF BlankLooksIt
  <2>4. CASE isTranscript(traffic)
    <3>1. transcript[p].kind = "call" /\ outcomeOf(traffic, p).says \in {"", answer} /\ q = p + 1
      <4>1. transcript[p].kind = "call" /\ outcomeOf(traffic, p).says \in {"", answer}
        BY <2>1, <2>4 DEF CallOf
      <4>2. p = q - 1
        BY <1>2, <2>1, <2>2, <4>1
      <4>3. q = p + 1
        BY <2>2, <4>2
      <4>. QED BY <4>1, <4>3
    <3>2. FromTail(q) \in Rows
      BY <1>2, <2>4, KeptIs
    <3>3. outcomeOf(traffic, p) = Tells(FromTail(q))
      BY <3>1, <3>2, OutcomeOfCall
    <3>4. outcomeOf(traffic, p).says = transcript[q].answer.says
      <4>1. FromTail(q).says = transcript[q].answer.says
        BY FromTailIs DEF TrafficInv
      <4>. QED BY <3>3, <4>1 DEF Tells
    <3>. QED BY <2>3, <3>1, <3>4
  <2>5. CASE ~isTranscript(traffic)
    <3>1. transcript[p].kind = "result" /\ transcript[p].answer.says \in {"", answer}
      BY <2>1, <2>5 DEF CallOf
    <3>2. q = p
      <4>1. p - 1 = q - 1
        BY <1>2, <2>1, <2>2, <3>1
      <4>. QED BY <2>2, <4>1
    <3>. QED BY <2>3, <3>1, <3>2
  <2>. QED BY <2>4, <2>5
<1>3. KnownAnswers(g, traffic) \in SUBSET {answer}
  <2>1. ASSUME NEW x \in KnownAnswers(g, traffic)
        PROVE  x = answer
    <3>1. PICK q \in DOMAIN transcript :
            /\ x = transcript[q].answer.says /\ transcript[q].kind = "result"
            /\ \E k \in DOMAIN g.at : transcript[g.at[k]].use = transcript[q].use
            /\ isTranscript(traffic) => q <= readTo
            /\ ~looksLike(FromTail(q), {"nothing", "benign"})
      BY DEF KnownAnswers, FromTail
    <3>. QED BY <1>1, <1>2, <3>1
  <2>. QED BY <2>1
<1>4. Cardinality({answer}) = 1 /\ IsFiniteSet({answer})
  BY FS_Singleton
<1>5. Cardinality(KnownAnswers(g, traffic)) <= Cardinality({answer})
  BY <1>3, <1>4, FS_Subset
<1>. QED BY <1>4, <1>5

\* Nothing that was told of and not dropped happened between its calls.
LEMMA NothingMoved ==
  ASSUME TrafficInv, NEW traffic, traffic = sessionTraffic, NEW g \in Findings(traffic),
         NEW p \in Span(g), Moved(p)
  PROVE  {p, p - 1} \cap Unseen(traffic) # {}
<1> SUFFICES ASSUME p \notin Unseen(traffic), p - 1 \notin Unseen(traffic)
             PROVE  FALSE
  OBVIOUS
<1>1. PICK calls : calls = collectToolCalls(traffic)
  OBVIOUS
<1>m. PICK run \in RunType, L \in Nat \ {0} : MadeOf(traffic, calls, g, run, L)
  BY <1>1, FindingIs
<1>2. /\ SoundRun(calls, g.sig, run, Len(calls))
      /\ Len(run.members) = L /\ DOMAIN run.members = 1 .. L
      /\ Len(g.at) = L
      /\ \A k \in 1 .. L :
           /\ calls[run.members[k]].at \in DOMAIN traffic
           /\ g.at[k] = traffic[calls[run.members[k]].at].at
  BY <1>m DEF MadeOf
<1>c. PICK M \in Nat \ {0}, answer \in Text :
        Len(g.at) = M /\ DOMAIN g.at = 1 .. M /\ \A k \in 1 .. M : CallOf(traffic, g.sig, g.at[k], answer)
  BY LoopCalls
<1>4. 1 \in 1 .. L /\ L \in 1 .. L /\ M = L
  BY <1>2, <1>c
<1>3. /\ g.at[1] \in DOMAIN transcript /\ g.at[L] \in DOMAIN transcript
      /\ CallOf(traffic, g.sig, g.at[1], answer) /\ CallOf(traffic, g.sig, g.at[L], answer)
  BY <1>c, <1>4 DEF CallOf
<1>5. PICK first \in DOMAIN traffic, last \in DOMAIN traffic :
        /\ first = calls[run.members[1]].at /\ last = calls[run.members[L]].at
        /\ g.at[1] = traffic[first].at /\ g.at[L] = traffic[last].at
  BY <1>2, <1>4
<1>6. PICK a \in DOMAIN transcript, b \in DOMAIN transcript : a = g.at[1] /\ b = g.at[L]
  BY <1>3
<1>7. a \in Nat /\ b \in Nat /\ p \in a + 1 .. b - 1
  <2>1. p \in g.at[1] + 1 .. g.at[L] - 1
    BY <1>2 DEF Span
  <2>2. a \in Nat /\ b \in Nat
    BY EntryIs DEF TrafficInv
  <2>. QED BY <1>6, <2>1, <2>2
<1>8. p \in DOMAIN transcript
  <2>1. PICK N \in Nat : DOMAIN transcript = 1 .. N
    BY DEF TrafficInv, Typed
  <2>2. a \in 1 .. N /\ b \in 1 .. N
    BY <2>1
  <2>3. p \in 1 .. N
    BY <1>7, <2>2
  <2>. QED BY <2>1, <2>3
<1>9. isTranscript(traffic) => p <= readTo
  <2>1. readTo \in Nat
    BY DEF TrafficInv, Typed, TrafficTypeOK
  <2>2. isTranscript(traffic) => b <= readTo
    BY <1>3, <1>6 DEF CallOf
  <2>. QED BY <1>7, <2>1, <2>2
<1>10. ~isTranscript(traffic) => "hook" \in setting.ways
  BY <1>3 DEF CallOf
<1>r. PICK r \in DOMAIN traffic : \E c :
         /\ RecordsOf(traffic, r) = <<c>> /\ c.resets
         /\ \/ traffic[r].at = p
            \/ /\ isTranscript(traffic) /\ traffic[r].at = p - 1
               /\ transcript[p - 1].key = transcript[p].key /\ transcript[p].key \in Mutating \cup File
  BY <1>8, <1>9, <1>10, MovesReset
<1>11. PICK c :
         /\ RecordsOf(traffic, r) = <<c>> /\ c.resets
         /\ \/ traffic[r].at = p
            \/ /\ isTranscript(traffic) /\ traffic[r].at = p - 1
               /\ transcript[p - 1].key = transcript[p].key /\ transcript[p].key \in Mutating \cup File
  BY <1>r
<1>12. a < traffic[r].at /\ traffic[r].at < b
  <2>1. CASE traffic[r].at = p
    BY <1>7, <2>1
  <2>2. CASE isTranscript(traffic) /\ traffic[r].at = p - 1
    <3>1. transcript[p - 1].key \in Mutating \cup File \/ traffic[r].at = p
      BY <1>11
    <3>2. transcript[a].key = g.sig /\ g.sig \notin Mutating /\ g.sig \in Signature
      <4>1. transcript[a].key = g.sig /\ ~isMutatingCommand(g.sig) /\ g.sig \in Signature
        BY <1>3, <1>6, <2>2 DEF CallOf
      <4>. QED BY <4>1 DEF isMutatingCommand
    <3>3. g.sig \notin File
      BY <3>2, EventsAssumption DEF Signature
    <3>4. p - 1 # a \/ traffic[r].at = p
      BY <3>1, <3>2, <3>3
    <3>. QED BY <1>7, <2>2, <3>4
  <2>. QED BY <1>11, <2>1, <2>2
<1>13. ~c.resets
  BY <1>1, <1>2, <1>5, <1>6, <1>11, <1>12, NothingResets
<1>. QED BY <1>11, <1>13

\* A loop that status reports is one.
LEMMA Real == TrafficInv => LoopsAreReal
<1> SUFFICES ASSUME TrafficInv, NEW traffic \in {sessionTraffic}, NEW g \in Findings(traffic)
             PROVE  /\ SameCall(g) /\ Cardinality(KnownAnswers(g, traffic)) <= 1
                    /\ \A p \in Span(g) : Moved(p) => {p, p - 1} \cap Unseen(traffic) # {}
  BY DEF LoopsAreReal
<1>1. traffic = sessionTraffic
  OBVIOUS
<1>2. SameCall(g)
  <2>1. PICK L \in Nat \ {0}, answer \in Text :
          Len(g.at) = L /\ DOMAIN g.at = 1 .. L /\ \A k \in 1 .. L : CallOf(traffic, g.sig, g.at[k], answer)
    BY <1>1, LoopCalls
  <2>. QED BY <2>1 DEF SameCall, CallOf
<1>3. Cardinality(KnownAnswers(g, traffic)) <= 1
  BY <1>1, OneAnswer
<1>4. \A p \in Span(g) : Moved(p) => {p, p - 1} \cap Unseen(traffic) # {}
  BY <1>1, NothingMoved
<1>. QED BY <1>2, <1>3, <1>4

\* Whatever is reported, hooked, read twice or dropped, a loop that is reported is one.
THEOREM LoopsReported == TrafficSpec => []LoopsAreReal
BY Real, TrafficInvInit, TrafficInvStep, PTL DEF TrafficSpec

-----------------------------------------------------------------------------
(* A loop is not missed. *)

\* A sequence that rises does so by one a step at least.
LEMMA Rises ==
  ASSUME NEW a \in Nat, NEW b \in Nat, NEW f \in [a .. b -> Nat],
         \A x, y \in a .. b : x < y => f[x] < f[y],
         NEW m \in a .. b, NEW n \in a .. b, m <= n
  PROVE  f[n] - f[m] >= n - m
<1>1. PICK D \in Nat : n = m + D
  <2>1. n - m \in Nat /\ n = m + (n - m)
    OBVIOUS
  <2>. QED BY <2>1
<1> DEFINE Good == {d \in 0 .. D : f[m + d] >= f[m] + d}
<1>2. \A d \in 0 .. D : m + d \in a .. b
  BY <1>1
<1>3. 0 \in Good /\ Good \in SUBSET (0 .. D)
  <2>1. f[m + 0] = f[m] /\ f[m] \in Nat
    OBVIOUS
  <2>. QED BY <2>1
<1>4. ASSUME NEW d \in 1 .. D, d - 1 \in Good
      PROVE  d \in Good
  <2>1. PICK x \in a .. b, y \in a .. b : x = m + (d - 1) /\ y = m + d /\ x < y
    <3>1. m + (d - 1) \in a .. b /\ m + d \in a .. b
      BY <1>2
    <3>2. m + (d - 1) < m + d
      OBVIOUS
    <3>. QED BY <3>1, <3>2
  <2>2. f[x] < f[y] /\ f[x] \in Nat /\ f[y] \in Nat /\ f[m] \in Nat
    BY <2>1
  <2>3. f[x] >= f[m] + (d - 1)
    BY <1>4, <2>1
  <2>4. f[y] >= f[m] + d
    BY <2>2, <2>3
  <2>5. f[m + d] >= f[m] + d
    BY <2>1, <2>4
  <2>. QED BY <2>5
<1>5. D \in Good
  <2>. HIDE DEF Good
  <2>1. Good = 0 .. D
    BY <1>3, <1>4, UpTo
  <2>. QED BY <2>1
<1>6. f[n] >= f[m] + D /\ f[n] \in Nat /\ f[m] \in Nat
  BY <1>1, <1>5
<1>. QED BY <1>1, <1>6

\* Where each of S is the image of one of M, in order, M is as many, and as near.
LEMMA Matching ==
  ASSUME NEW a \in Nat, NEW b \in Nat, NEW f \in [a .. b -> Nat],
         \A x, y \in a .. b : x < y => f[x] < f[y],
         NEW M \in SUBSET (a .. b), NEW S,
         \A m \in M : f[m] \in S, \A k \in S : \E m \in M : f[m] = k, NEW W \in Nat
  PROVE  /\ Cardinality(M) \in Nat /\ Cardinality(S) \in Nat /\ Cardinality(M) >= Cardinality(S)
         /\ \A m \in M : (\E l \in S : f[m] < l /\ l <= f[m] + W) => \E n \in M : m < n /\ n <= m + W
<1>1. IsFiniteSet(M)
  <2>1. IsFiniteSet(a .. b)
    BY FS_Interval
  <2>. QED BY <2>1, FS_Subset
<1> DEFINE image == [m \in M |-> f[m]]
<1>2. image \in Surjection(M, S)
  <2>1. image \in [M -> S]
    OBVIOUS
  <2>2. \A k \in S : \E m \in M : image[m] = k
    OBVIOUS
  <2>. HIDE DEF image
  <2>. QED BY <2>1, <2>2 DEF Surjection
<1>3. IsFiniteSet(S) /\ Cardinality(S) <= Cardinality(M)
  <2>. HIDE DEF image
  <2>. QED BY <1>1, <1>2, FS_Surjection
<1>4. Cardinality(M) \in Nat /\ Cardinality(S) \in Nat
  BY <1>1, <1>3, FS_CardinalityType
<1>5. ASSUME NEW m \in M, NEW l \in S, f[m] < l, l <= f[m] + W
      PROVE  \E n \in M : m < n /\ n <= m + W
  <2>1. PICK n \in M : f[n] = l
    OBVIOUS
  <2>2. m \in a .. b /\ n \in a .. b /\ f[m] \in Nat /\ f[n] \in Nat /\ f[m] < f[n]
    BY <1>5, <2>1
  <2>3. ~(n < m) /\ n # m
    <3>1. n < m => f[n] < f[m]
      BY <2>2
    <3>. QED BY <2>2, <3>1
  <2>4. m \in Nat /\ n \in Nat /\ m < n
    BY <2>2, <2>3
  <2>5. f[n] - f[m] >= n - m
    <3>1. m <= n
      BY <2>4
    <3>. HIDE DEF image
    <3>. QED BY <2>2, <3>1, Rises
  <2>6. n <= m + W
    BY <1>5, <2>1, <2>2, <2>4, <2>5
  <2>. QED BY <2>4, <2>6
<1>. QED BY <1>3, <1>4, <1>5

\* Only a tail tells of the session, and has read all of it.
Whole(traffic) == /\ setting.ways = {"tail"} /\ readTo = Len(transcript)
                  /\ traffic = sessionTraffic /\ isTranscript(traffic)
\* The entry a record is of.
PlaceOf(traffic, calls, m) == traffic[calls[m].at].at
\* The record that a call or a write has.
RecordFor(traffic, p, n) ==
  IF transcript[p].key \in File THEN Written(n, outcomeOf(traffic, p).failed)
  ELSE Called(n, transcript[p].key, outcomeOf(traffic, p))

\* A record is of a remark, and resets, or of a call; and a call has one.
LEMMA RecordsArePlaced ==
  ASSUME TrafficInv, NEW traffic, Whole(traffic), NEW calls, calls = collectToolCalls(traffic),
         NEW m \in DOMAIN calls
  PROVE  \E p \in DOMAIN transcript :
           /\ p = PlaceOf(traffic, calls, m) /\ transcript[p].kind \in {"call", "said"}
           /\ transcript[p].kind = "call" =>
                calls[m] = RecordFor(traffic, p, calls[m].at) /\ firstOfItsUse(traffic, calls[m].at)
                /\ traffic[calls[m].at] = FromTail(p)
<1>0. /\ traffic = sessionTraffic /\ isTranscript(traffic) /\ "hook" \notin setting.ways
  BY DEF Whole
<1>1. PICK r \in DOMAIN traffic : r = calls[m].at /\ RecordsOf(traffic, r) = <<calls[m]>> /\ traffic[r] \in Rows
  BY <1>0, SessionCalls
<1>2. PICK e \in Rows : e = traffic[r]
  BY <1>1
<1>3. PICK p \in DOMAIN transcript : p = e.at /\ e = FromTail(p)
  BY <1>0, RowIs
<1>4. transcript[p].kind \in {"call", "result", "said"} /\ p \in Nat \ {0}
  BY EntryIs DEF TrafficInv
<1>5. p = PlaceOf(traffic, calls, m)
  BY <1>1, <1>2, <1>3 DEF PlaceOf
<1>6. ASSUME transcript[p].kind # "said"
      PROVE  /\ e.type \in {"TOOL_CALL", "FILE_CHANGED"} /\ e.use # 0 /\ firstOfItsUse(traffic, r)
             /\ calls[m] = IF e.type = "FILE_CHANGED" THEN Written(r, outcomeOf(traffic, e.use).failed)
                           ELSE Called(r, e.key, outcomeOf(traffic, e.use))
  <2>1. e.type # "USER_MESSAGE"
    BY <1>3, <1>6, FromTailIs DEF TrafficInv
  <2>2. RecordsOf(traffic, r) =
          IF e.type \notin {"TOOL_CALL", "FILE_CHANGED"} \/ e.use = 0 \/ ~ firstOfItsUse(traffic, r)
          THEN <<>>
          ELSE IF e.type = "FILE_CHANGED" THEN <<Written(r, outcomeOf(traffic, e.use).failed)>>
          ELSE <<Called(r, e.key, outcomeOf(traffic, e.use))>>
    BY <1>0, <1>2, <2>1 DEF RecordsOf
  <2>3. PICK c : c = calls[m]
    OBVIOUS
  <2>4. <<c>> # <<>> /\ \A d : <<c>> = <<d>> => c = d
    OBVIOUS
  <2>. QED BY <1>1, <2>2, <2>3, <2>4
<1>7. CASE transcript[p].kind = "said"
  BY <1>5, <1>7
<1>8. CASE transcript[p].kind = "result"
  <2>1. e.type \in {"ERROR_DETECTED", "TOOL_RESULT"}
    BY <1>3, <1>8, FromTailIs DEF TrafficInv
  <2>. QED BY <1>6, <1>8, <2>1
<1>9. CASE transcript[p].kind = "call"
  <2>1. /\ e.use = p /\ e.key = transcript[p].key
        /\ e.type = IF transcript[p].key \in File THEN "FILE_CHANGED" ELSE "TOOL_CALL"
    BY <1>3, <1>9, FromTailIs DEF TrafficInv
  <2>2. calls[m] = RecordFor(traffic, p, r)
    BY <1>6, <1>9, <2>1 DEF RecordFor
  <2>3. firstOfItsUse(traffic, r)
    BY <1>6, <1>9
  <2>. QED BY <1>1, <1>2, <1>3, <1>5, <1>9, <2>2, <2>3
<1>. QED BY <1>4, <1>7, <1>8, <1>9

\* The places of the records rise, and strictly where they are calls.
LEMMA PlacesRise ==
  ASSUME TrafficInv, NEW traffic, Whole(traffic), NEW calls, calls = collectToolCalls(traffic),
         NEW l \in DOMAIN calls, NEW m \in DOMAIN calls, l < m
  PROVE  /\ PlaceOf(traffic, calls, l) <= PlaceOf(traffic, calls, m)
         /\ transcript[PlaceOf(traffic, calls, m)].kind = "call" =>
              PlaceOf(traffic, calls, l) < PlaceOf(traffic, calls, m)
<1>0. traffic = sessionTraffic
  BY DEF Whole
<1>1. PICK q \in DOMAIN traffic, r \in DOMAIN traffic :
        /\ q = calls[l].at /\ r = calls[m].at /\ q < r /\ traffic[q].at <= traffic[r].at
        /\ traffic[q].at \in Nat /\ traffic[r].at \in Nat
  BY <1>0, SessionCalls
<1>2. PlaceOf(traffic, calls, l) = traffic[q].at /\ PlaceOf(traffic, calls, m) = traffic[r].at
  BY <1>1 DEF PlaceOf
<1>3. ASSUME transcript[PlaceOf(traffic, calls, m)].kind = "call"
      PROVE  traffic[q].at # traffic[r].at
  <2>. SUFFICES ASSUME traffic[q].at = traffic[r].at
                PROVE  FALSE
    OBVIOUS
  <2>1. PICK p \in DOMAIN transcript : p = traffic[r].at
    BY <1>2, RecordsArePlaced
  <2>2. transcript[p].kind = "call"
    BY <1>2, <1>3, <2>1
  <2>3. firstOfItsUse(traffic, r) /\ traffic[r] = FromTail(p)
    BY <1>1, <1>2, <2>1, <2>2, RecordsArePlaced
  <2>4. traffic[q] = FromTail(p)
    BY <1>1, <1>2, <2>1, <2>2, RecordsArePlaced
  <2>5. FromTail(p).type \in {"TOOL_CALL", "FILE_CHANGED"}
    BY <2>2, FromTailIs DEF TrafficInv
  <2>6. q >= r
    BY <2>3, <2>4, <2>5 DEF firstOfItsUse
  <2>7. q \in Nat /\ r \in Nat
    <3>1. traffic \in Seq(ContextEvent)
      BY <1>0, SessionCalls
    <3>. QED BY <3>1
  <2>. QED BY <1>1, <2>6, <2>7
<1>. QED BY <1>1, <1>2, <1>3

\* A call that is read has a record.
LEMMA CallsHaveRecords ==
  ASSUME TrafficInv, NEW traffic, Whole(traffic), NEW calls, calls = collectToolCalls(traffic),
         NEW p \in DOMAIN transcript, transcript[p].kind = "call", transcript[p].key \in Signature
  PROVE  \E m \in DOMAIN calls : PlaceOf(traffic, calls, m) = p
<1>0. traffic = sessionTraffic /\ isTranscript(traffic) /\ p <= readTo
  BY EntryIs DEF Whole, TrafficInv
<1>1. FromTail(p) \in Rows
  BY <1>0, KeptIs
<1>2. PICK r \in DOMAIN traffic :
        /\ traffic[r].at = p
        /\ RecordsOf(traffic, r) =
             IF transcript[p].key \in File THEN <<Written(r, outcomeOf(traffic, p).failed)>>
             ELSE <<Called(r, transcript[p].key, outcomeOf(traffic, p))>>
  BY <1>0, <1>1, FirstRow
<1>3. RecordsOf(traffic, r) # <<>>
  BY <1>2
<1>4. PICK m \in DOMAIN calls : calls[m].at = r
  BY <1>0, <1>3, SessionCalls
<1>. QED BY <1>2, <1>4 DEF PlaceOf

\* What came back of a call, where a tail has read it and it tells something.
LEMMA AnswersAreKnown ==
  ASSUME TrafficInv, NEW traffic, Whole(traffic), NEW p \in DOMAIN transcript,
         transcript[p].kind = "call", p < Len(transcript),
         transcript[p + 1].answer.failed \/ ~looksLike(FromTail(p + 1), {"nothing", "benign"})
  PROVE  /\ outcomeOf(traffic, p) = Tells(FromTail(p + 1))
         /\ outcomeOf(traffic, p).says = transcript[p + 1].answer.says
         /\ outcomeOf(traffic, p).harness = ("harness" \in transcript[p + 1].answer.cues)
         /\ transcript[p + 1].answer.failed => outcomeOf(traffic, p).failed = "yes"
<1>0. traffic = sessionTraffic
  BY DEF Whole
<1>1. PICK q \in DOMAIN transcript : q = p + 1 /\ transcript[q].kind = "result"
  BY EntryIs DEF TrafficInv
<1>2. q <= readTo
  BY <1>1, EntryIs DEF Whole, TrafficInv
<1>3. FromTail(q) \in Rows
  BY <1>1, <1>2, KeptIs
<1>4. outcomeOf(traffic, p) = Tells(FromTail(q))
  BY <1>0, <1>1, <1>3, OutcomeOfCall
<1>5. PICK e : e = FromTail(q)
  OBVIOUS
<1>6. /\ e.says = transcript[q].answer.says /\ e.cues = transcript[q].answer.cues
      /\ transcript[q].answer.failed => e.type = "ERROR_DETECTED"
  BY <1>1, <1>5, FromTailIs DEF TrafficInv
<1>7. /\ Tells(e).says = e.says /\ Tells(e).harness = ("harness" \in e.cues)
      /\ e.type = "ERROR_DETECTED" => Tells(e).failed = "yes"
  BY DEF Tells, isHarnessError
<1>. QED BY <1>1, <1>4, <1>5, <1>6, <1>7

\* Where nothing moves, up to a call that is not itself a change, nothing resets.
LEMMA QuietMeansNoReset ==
  ASSUME TrafficInv, NEW traffic, Whole(traffic), NEW calls, calls = collectToolCalls(traffic),
         NEW P \in DOMAIN transcript, NEW Q \in DOMAIN transcript, transcript[Q].kind = "call",
         transcript[Q].key \in Signature \ Mutating, \A p \in P .. Q : ~Moved(p),
         NEW m \in DOMAIN calls, PlaceOf(traffic, calls, m) \in P .. Q
  PROVE  transcript[PlaceOf(traffic, calls, m)].kind = "call" /\ ~calls[m].resets
<1>1. PICK p \in DOMAIN transcript :
        /\ p = PlaceOf(traffic, calls, m) /\ transcript[p].kind \in {"call", "said"}
        /\ transcript[p].kind = "call" => calls[m] = RecordFor(traffic, p, calls[m].at)
  BY RecordsArePlaced
<1>2. p \in P .. Q /\ ~Moved(p)
  BY <1>1
<1>3. transcript[p].kind = "call"
  BY <1>1, <1>2 DEF Moved
<1>4. p \in Nat /\ P \in Nat /\ Q \in Nat /\ Q <= Len(transcript) /\ Len(transcript) \in Nat
  BY EntryIs DEF TrafficInv, Typed
<1>5. ASSUME p # Q
      PROVE  /\ p < Len(transcript) /\ transcript[p + 1].kind = "result"
             /\ transcript[p + 1].key = transcript[p].key /\ ~Moved(p + 1)
  <2>1. p < Len(transcript) /\ p + 1 \in P .. Q
    BY <1>2, <1>4, <1>5
  <2>2. transcript[p + 1].kind = "result" /\ transcript[p + 1].key = transcript[p].key
    BY <1>3, <2>1, EntryIs DEF TrafficInv
  <2>. QED BY <2>1, <2>2
<1>6. CASE transcript[p].key \in File
  <2>1. p # Q
    BY <1>6, EventsAssumption DEF Signature
  <2>2. transcript[p + 1].answer.failed
    BY <1>5, <1>6, <2>1 DEF Moved
  <2>3. outcomeOf(traffic, p).failed = "yes"
    BY <1>3, <1>5, <2>1, <2>2, AnswersAreKnown
  <2>4. calls[m] = Written(calls[m].at, "yes")
    BY <1>1, <1>3, <1>6, <2>3 DEF RecordFor
  <2>5. ~Written(calls[m].at, "yes").resets
    BY DEF Written, Reset
  <2>. QED BY <1>1, <1>3, <2>4, <2>5
<1>7. CASE transcript[p].key \notin File
  <2>1. transcript[p].key \notin Mutating
    <3>1. p # Q => ~(transcript[p].key \in Mutating)
      BY <1>5 DEF Moved
    <3>. QED BY <3>1
  <2>2. calls[m] = Called(calls[m].at, transcript[p].key, outcomeOf(traffic, p))
    BY <1>1, <1>3, <1>7 DEF RecordFor
  <2>3. ~Called(calls[m].at, transcript[p].key, outcomeOf(traffic, p)).resets
    BY <2>1 DEF Called, isMutatingCommand
  <2>. QED BY <1>1, <1>3, <2>2, <2>3
<1>. QED BY <1>6, <1>7

\* Record m, of the call at p, counts if p is a repetition, and to no other signature.
CountsIfRepeated(calls, m, p) ==
  /\ Counts(p) => Tallied(calls, transcript[p].key, m) /\ calls[m].outcome = transcript[p + 1].answer.says
  /\ \A s \in Signature : Tallied(calls, s, m) => transcript[p].key = s

\* The record of a repetition counts, and knows what came back; and no other does.
LEMMA RepetitionsCount ==
  ASSUME TrafficInv, NEW traffic, Whole(traffic), NEW calls, calls = collectToolCalls(traffic),
         NEW m \in DOMAIN calls, NEW p \in DOMAIN transcript, p = PlaceOf(traffic, calls, m),
         transcript[p].kind = "call"
  PROVE  CountsIfRepeated(calls, m, p)
<1>1. calls[m] = RecordFor(traffic, p, calls[m].at)
  BY RecordsArePlaced
<1>2. PICK n : n = calls[m].at
  OBVIOUS
<1>3. PICK o : o = outcomeOf(traffic, p)
  OBVIOUS
<1>4. CASE transcript[p].key \in File
  <2>1. ~Counts(p)
    BY <1>4, EventsAssumption DEF Counts, Signature
  <2>2. calls[m] = Written(n, o.failed) /\ Written(n, o.failed).sig = Absent
    BY <1>1, <1>2, <1>3, <1>4 DEF RecordFor, Written, Reset
  <2>3. Absent \notin Signature
    BY EventsAssumption DEF Signature
  <2>. QED BY <2>1, <2>2, <2>3 DEF CountsIfRepeated, Tallied
<1>5. CASE transcript[p].key \notin File
  <2>1. calls[m] = Called(n, transcript[p].key, o)
    BY <1>1, <1>2, <1>3, <1>5 DEF RecordFor
  <2>2. calls[m].sig = transcript[p].key /\ calls[m].outcome = o.says
    BY <2>1 DEF Called
  <2>3. ASSUME Counts(p)
        PROVE  ~calls[m].resets /\ ~calls[m].ignored /\ o.says = transcript[p + 1].answer.says
    <3>1. /\ transcript[p].key \notin Polling /\ transcript[p].key \notin Mutating /\ p < Len(transcript)
          /\ ~looksLike(FromTail(p + 1), {"nothing", "benign", "harness"})
      BY <2>3 DEF Counts, FromTail
    <3>2. PICK q \in DOMAIN transcript : q = p + 1
      BY <3>1, EntryIs DEF TrafficInv
    <3>3. ~looksLike(FromTail(q), {"nothing", "benign"}) /\ "harness" \notin transcript[q].answer.cues
      <4>1. FromTail(q).cues = transcript[q].answer.cues
        BY FromTailIs DEF TrafficInv
      <4>. QED BY <3>1, <3>2, <4>1 DEF looksLike
    <3>4. o.says = transcript[q].answer.says /\ ~o.harness
      BY <1>3, <3>1, <3>2, <3>3, AnswersAreKnown
    <3>5. ~Called(n, transcript[p].key, o).resets
      BY <3>1 DEF Called, isMutatingCommand
    <3>6. ~Called(n, transcript[p].key, o).ignored
      BY <3>1, <3>4 DEF Called, isPollingCommand, isMutatingCommand
    <3>. QED BY <2>1, <3>2, <3>4, <3>5, <3>6
  <2>. QED BY <2>2, <2>3 DEF CountsIfRepeated, Tallied
<1>. QED BY <1>4, <1>5

\* The turns are the entries that are no result, in order.
LEMMA TurnsAre ==
  ASSUME TrafficInv, NEW turns, turns = Turns
  PROVE  \E T \in Nat :
           /\ DOMAIN turns = 1 .. T
           /\ \A k \in 1 .. T : turns[k] \in DOMAIN transcript /\ turns[k] \in Nat
                                 /\ transcript[turns[k]].kind # "result"
           /\ \A k, l \in 1 .. T : k < l => turns[k] < turns[l]
           /\ \A p \in DOMAIN transcript : transcript[p].kind # "result" => \E k \in 1 .. T : turns[k] = p
<1>1. PICK N \in Nat : N = Len(transcript) /\ DOMAIN transcript = 1 .. N
  BY DEF TrafficInv, Typed
<1>2. PICK those : those = {p \in DOMAIN transcript : transcript[p].kind # "result"}
  OBVIOUS
<1>3. Places(turns, those, N)
  BY <1>1, <1>2, InTurnIs DEF Turns
<1>4. PICK T \in Nat : T = Len(turns) /\ DOMAIN turns = 1 .. T
  <2>1. turns \in Seq(1 .. N)
    BY <1>3 DEF Places
  <2>. QED BY <2>1
<1>5. \A k \in 1 .. T : turns[k] \in those
  BY <1>3, <1>4 DEF Places
<1>6. \A k, l \in 1 .. T : k < l => turns[k] < turns[l]
  BY <1>3, <1>4 DEF Places
<1>7. \A p \in 1 .. N : p \in those => \E k \in 1 .. T : turns[k] = p
  BY <1>3, <1>4 DEF Places
<1>. QED BY <1>1, <1>2, <1>4, <1>5, <1>6, <1>7

\* What ascends is in the order of its positions.
LEMMA Ascends ==
  ASSUME NEW T \in Nat, NEW f, \A k \in 1 .. T : f[k] \in Nat,
         \A k, l \in 1 .. T : k < l => f[k] < f[l], NEW x \in 1 .. T, NEW y \in 1 .. T
  PROVE  (x < y <=> f[x] < f[y]) /\ (x = y <=> f[x] = f[y]) /\ (x <= y <=> f[x] <= f[y])
<1>1. /\ f[x] \in Nat /\ f[y] \in Nat /\ x \in Nat /\ y \in Nat
      /\ x < y => f[x] < f[y]
      /\ y < x => f[y] < f[x]
  OBVIOUS
<1>2. x = y => f[x] = f[y]
  OBVIOUS
<1>3. PICK u \in Nat, v \in Nat : u = f[x] /\ v = f[y]
  BY <1>1
<1>. QED BY <1>1, <1>2, <1>3

\* The repetitions of a loop are records the walk counts, the same number and as near.
LEMMA LoopIsStretch ==
  ASSUME TrafficInv, NEW traffic, Whole(traffic), NEW calls, calls = collectToolCalls(traffic),
         NEW turns, turns = Turns, NEW i \in DOMAIN turns, NEW j \in DOMAIN turns, i < j, IsLoop(turns, i, j),
         NEW s, s = transcript[turns[i]].key
  PROVE  /\ s \in Signature
         /\ \E a \in DOMAIN calls, b \in DOMAIN calls :
              /\ IsStretch(calls, s, a, b)
              /\ Cardinality(Repeated(calls, s, a, b)) \in Nat /\ Cardinality(Repetitions(turns, i, j)) \in Nat
              /\ Cardinality(Repeated(calls, s, a, b)) >= Cardinality(Repetitions(turns, i, j))
<1>0. traffic = sessionTraffic /\ calls \in Seq(CallRecord)
  BY SessionCalls DEF Whole
<1>1. PICK T \in Nat :
        /\ DOMAIN turns = 1 .. T
        /\ \A k \in 1 .. T : turns[k] \in DOMAIN transcript /\ turns[k] \in Nat
                              /\ transcript[turns[k]].kind # "result"
        /\ \A k, l \in 1 .. T : k < l => turns[k] < turns[l]
        /\ \A p \in DOMAIN transcript : transcript[p].kind # "result" => \E k \in 1 .. T : turns[k] = p
  BY TurnsAre
<1>2. PICK N \in Nat : DOMAIN calls = 1 .. N
  BY <1>0
<1>3. i \in 1 .. T /\ j \in 1 .. T /\ i \in Nat /\ j \in Nat
  BY <1>1
<1>o. \A x, y \in 1 .. T : (x < y <=> turns[x] < turns[y]) /\ (x = y <=> turns[x] = turns[y])
                           /\ (x <= y <=> turns[x] <= turns[y])
  <2>. TAKE x \in 1 .. T, y \in 1 .. T
  <2>. QED BY <1>1, Ascends
<1>4. PICK S : S = Repetitions(turns, i, j)
  OBVIOUS
<1>5. /\ i \in S /\ j \in S /\ Cardinality(S) >= LOOP_MIN_REPEATS
      /\ \A k \in i .. j : transcript[turns[k]].key = s => k \in S
      /\ \A k \in S : transcript[turns[k] + 1].answer.says = transcript[turns[i] + 1].answer.says
      /\ \A k \in S \ {j} : \E l \in S : k < l /\ l <= k + LOOP_WINDOW
      /\ \A p \in turns[i] .. turns[j] : ~Moved(p)
  BY <1>4 DEF IsLoop
<1>6. \A k \in S : k \in i .. j /\ k \in 1 .. T /\ transcript[turns[k]].key = s /\ Counts(turns[k])
  <2>1. \A k \in S : k \in i .. j /\ transcript[turns[k]].key = s /\ Counts(turns[k])
    BY <1>4 DEF Repetitions
  <2>2. \A k \in i .. j : k \in 1 .. T
    BY <1>3
  <2>. QED BY <2>1, <2>2
<1>7. s \in Signature /\ s \notin Mutating /\ s \notin Polling
  BY <1>5 DEF Counts, IsLoop, Repetitions
<1>8. ASSUME NEW k \in S
      PROVE  /\ turns[k] \in DOMAIN transcript /\ transcript[turns[k]].kind = "call"
             /\ transcript[turns[k]].key = s /\ Counts(turns[k]) /\ turns[k] \in turns[i] .. turns[j]
  <2>1. k \in i .. j /\ k \in 1 .. T /\ transcript[turns[k]].key = s /\ Counts(turns[k])
    BY <1>6
  <2>2. PICK p \in DOMAIN transcript : p = turns[k] /\ transcript[p].kind # "result"
    BY <1>1, <2>1
  <2>3. transcript[p].kind \in {"call", "result", "said"} /\ (transcript[p].kind = "said" => transcript[p].key = Absent)
    BY EntryIs DEF TrafficInv
  <2>4. Absent \notin Signature
    BY EventsAssumption DEF Signature
  <2>5. transcript[p].kind = "call"
    BY <1>7, <2>1, <2>2, <2>3, <2>4
  <2>6. turns[i] <= turns[k] /\ turns[k] <= turns[j]
    BY <1>3, <1>o, <2>1
  <2>7. turns[k] \in turns[i] .. turns[j]
    BY <1>1, <1>3, <2>1, <2>6
  <2>. QED BY <2>1, <2>2, <2>5, <2>7
<1>9. PICK P \in DOMAIN transcript, Q \in DOMAIN transcript :
        /\ P = turns[i] /\ Q = turns[j] /\ transcript[P].kind = "call" /\ transcript[Q].kind = "call"
        /\ transcript[P].key = s /\ transcript[Q].key = s /\ P \in Nat /\ Q \in Nat
  BY <1>1, <1>3, <1>5, <1>8
<1>10. PICK a \in 1 .. N, b \in 1 .. N : PlaceOf(traffic, calls, a) = P /\ PlaceOf(traffic, calls, b) = Q
  BY <1>2, <1>7, <1>9, CallsHaveRecords
<1>11. \A l, m \in 1 .. N : l < m =>
          /\ PlaceOf(traffic, calls, l) <= PlaceOf(traffic, calls, m)
          /\ transcript[PlaceOf(traffic, calls, m)].kind = "call" =>
               PlaceOf(traffic, calls, l) < PlaceOf(traffic, calls, m)
  BY <1>2, PlacesRise
<1>12. \A m \in 1 .. N : PlaceOf(traffic, calls, m) \in DOMAIN transcript /\ PlaceOf(traffic, calls, m) \in Nat
  <2>. TAKE m \in 1 .. N
  <2>1. PICK p \in DOMAIN transcript : p = PlaceOf(traffic, calls, m)
    BY <1>2, RecordsArePlaced
  <2>2. p \in Nat
    BY EntryIs DEF TrafficInv
  <2>. QED BY <2>1, <2>2
<1>13. a < b /\ a \in Nat /\ b \in Nat
  <2>1. a \in Nat /\ b \in Nat
    OBVIOUS
  <2>2. P < Q
    BY <1>3, <1>9, <1>o
  <2>3. ~(b < a) /\ b # a
    BY <1>9, <1>10, <1>11, <2>2
  <2>. QED BY <2>1, <2>3
<1>14. \A m \in a .. b : m \in 1 .. N /\ m \in Nat
  BY <1>13
<1>15. ASSUME NEW m \in a .. b
       PROVE  /\ PlaceOf(traffic, calls, m) \in P .. Q
              /\ transcript[PlaceOf(traffic, calls, m)].kind = "call" /\ ~calls[m].resets
  <2>1. m \in 1 .. N /\ PlaceOf(traffic, calls, m) \in Nat
    BY <1>12, <1>14
  <2>2. P <= PlaceOf(traffic, calls, m)
    <3>1. m = a \/ a < m
      BY <1>13
    <3>. QED BY <1>9, <1>10, <1>11, <2>1, <3>1
  <2>3. PlaceOf(traffic, calls, m) <= Q
    <3>1. m = b \/ m < b
      BY <1>13
    <3>. QED BY <1>9, <1>10, <1>11, <2>1, <3>1
  <2>4. PlaceOf(traffic, calls, m) \in P .. Q
    BY <1>9, <2>1, <2>2, <2>3
  <2>5. \A p \in P .. Q : ~Moved(p)
    BY <1>5, <1>9
  <2>6. transcript[Q].key \in Signature \ Mutating /\ m \in DOMAIN calls
    BY <1>2, <1>7, <1>9, <2>1
  <2>7. transcript[PlaceOf(traffic, calls, m)].kind = "call" /\ ~calls[m].resets
    BY <1>9, <2>4, <2>5, <2>6, QuietMeansNoReset
  <2>. QED BY <2>4, <2>7
<1> DEFINE t == [m \in a .. b |-> CHOOSE k \in 1 .. T : turns[k] = PlaceOf(traffic, calls, m)]
<1>16. \A m \in a .. b : t[m] \in 1 .. T /\ turns[t[m]] = PlaceOf(traffic, calls, m)
  <2>. TAKE m \in a .. b
  <2>1. \E k \in 1 .. T : turns[k] = PlaceOf(traffic, calls, m)
    BY <1>1, <1>12, <1>14, <1>15
  <2>. QED BY <2>1
<1>17. t \in [a .. b -> Nat]
  <2>1. \A m \in a .. b : (CHOOSE k \in 1 .. T : turns[k] = PlaceOf(traffic, calls, m)) \in Nat
    BY <1>16
  <2>. QED BY <2>1
<1>. HIDE DEF t
<1>18. \A x, y \in a .. b : x < y => t[x] < t[y]
  <2>. SUFFICES ASSUME NEW x \in a .. b, NEW y \in a .. b, x < y
                PROVE  t[x] < t[y]
    OBVIOUS
  <2>1. turns[t[x]] < turns[t[y]]
    BY <1>11, <1>14, <1>15, <1>16
  <2>. QED BY <1>16, <1>o, <2>1
<1>19. PICK M : M = Repeated(calls, s, a, b)
  OBVIOUS
<1>20. M \in SUBSET (a .. b) /\ \A m \in a .. b : m \in M <=> Tallied(calls, s, m)
  BY <1>19 DEF Repeated
<1>21. ASSUME NEW m \in a .. b
       PROVE  /\ transcript[turns[t[m]]].kind = "call" /\ turns[t[m]] \in P .. Q /\ t[m] \in i .. j
              /\ Tallied(calls, s, m) => transcript[turns[t[m]]].key = s
              /\ Counts(turns[t[m]]) /\ transcript[turns[t[m]]].key = s =>
                   /\ Tallied(calls, s, m) /\ calls[m].outcome = transcript[turns[t[m]] + 1].answer.says
  <2>1. PICK p \in DOMAIN transcript : p = PlaceOf(traffic, calls, m) /\ p = turns[t[m]]
    BY <1>12, <1>14, <1>16
  <2>2. transcript[p].kind = "call" /\ p \in P .. Q /\ m \in DOMAIN calls
    BY <1>2, <1>14, <1>15, <2>1
  <2>a. CountsIfRepeated(calls, m, p)
    BY <2>1, <2>2, RepetitionsCount
  <2>3. /\ Counts(p) => Tallied(calls, transcript[p].key, m) /\ calls[m].outcome = transcript[p + 1].answer.says
        /\ Tallied(calls, s, m) => transcript[p].key = s
    BY <1>7, <2>a DEF CountsIfRepeated
  <2>4. t[m] \in i .. j
    <3>1. t[m] \in 1 .. T /\ turns[i] <= turns[t[m]] /\ turns[t[m]] <= turns[j]
      BY <1>9, <1>16, <2>1, <2>2
    <3>2. i <= t[m] /\ t[m] <= j
      BY <1>3, <1>o, <3>1
    <3>. QED BY <1>3, <3>1, <3>2
  <2>. QED BY <1>7, <2>1, <2>2, <2>3, <2>4
<1>22. \A m \in M : t[m] \in S
  BY <1>5, <1>20, <1>21
<1>23. ASSUME NEW k \in S
       PROVE  \E m \in M : t[m] = k
  <2>1. turns[k] \in DOMAIN transcript /\ turns[k] \in P .. Q /\ transcript[turns[k]].kind = "call"
        /\ transcript[turns[k]].key = s /\ Counts(turns[k]) /\ k \in 1 .. T
    BY <1>6, <1>8, <1>9
  <2>2. PICK m \in 1 .. N : PlaceOf(traffic, calls, m) = turns[k]
    BY <1>2, <1>7, <2>1, CallsHaveRecords
  <2>3. ~(m < a) /\ ~(b < m)
    <3>1. m < a => turns[k] < P
      BY <1>9, <1>10, <1>11, <2>2
    <3>2. b < m => Q < turns[k]
      BY <1>10, <1>11, <2>1, <2>2
    <3>3. P <= turns[k] /\ turns[k] <= Q /\ turns[k] \in Nat
      BY <1>1, <1>9, <2>1
    <3>. QED BY <1>9, <3>1, <3>2, <3>3
  <2>4. m \in a .. b
    BY <1>13, <2>3
  <2>5. t[m] = k
    BY <1>16, <1>o, <2>1, <2>2, <2>4
  <2>6. m \in M
    BY <1>20, <1>21, <2>1, <2>4, <2>5
  <2>. QED BY <2>5, <2>6
<1>24. t[a] = i /\ t[b] = j /\ a \in a .. b /\ b \in a .. b
  <2>1. a \in a .. b /\ b \in a .. b
    BY <1>13
  <2>2. turns[t[a]] = turns[i] /\ turns[t[b]] = turns[j] /\ t[a] \in 1 .. T /\ t[b] \in 1 .. T
    BY <1>9, <1>10, <1>16, <2>1
  <2>. QED BY <1>3, <1>o, <2>1, <2>2
<1>25. LOOP_WINDOW \in Nat /\ LOOP_MIN_REPEATS \in Nat
  BY LoopsAssumption
<1>26. /\ Cardinality(M) \in Nat /\ Cardinality(S) \in Nat /\ Cardinality(M) >= Cardinality(S)
       /\ \A m \in M : (\E l \in S : t[m] < l /\ l <= t[m] + LOOP_WINDOW) =>
            \E n \in M : m < n /\ n <= m + LOOP_WINDOW
  BY <1>13, <1>17, <1>18, <1>20, <1>22, <1>23, <1>25, Matching
<1>27. a \in M /\ b \in M
  <2>1. Tallied(calls, s, a) /\ Tallied(calls, s, b)
    BY <1>5, <1>8, <1>21, <1>24
  <2>. QED BY <1>20, <1>24, <2>1
<1>28. \A m \in M : calls[m].outcome = calls[a].outcome
  <2>1. \A m \in M : calls[m].outcome = transcript[turns[i] + 1].answer.says
    <3>. TAKE m \in M
    <3>1. PICK k \in S : k = t[m]
      BY <1>22
    <3>2. calls[m].outcome = transcript[turns[k] + 1].answer.says
      BY <1>8, <1>20, <1>21, <3>1
    <3>. QED BY <1>5, <3>2
  <2>. QED BY <1>27, <2>1
<1>29. \A m \in M \ {b} : \E n \in M : m < n /\ n <= m + LOOP_WINDOW
  <2>. TAKE m \in M \ {b}
  <2>1. t[m] # j
    <3>1. m \in a .. b /\ m < b
      BY <1>13, <1>20
    <3>2. t[m] < t[b] /\ t[m] \in Nat
      BY <1>17, <1>18, <1>24, <3>1
    <3>. QED BY <1>3, <1>24, <3>2
  <2>2. \E l \in S : t[m] < l /\ l <= t[m] + LOOP_WINDOW
    BY <1>5, <1>22, <2>1
  <2>. QED BY <1>26, <2>2
<1>30. Cardinality(M) >= LOOP_MIN_REPEATS
  BY <1>5, <1>25, <1>26
<1>31. IsStretch(calls, s, a, b)
  BY <1>15, <1>19, <1>27, <1>28, <1>29, <1>30 DEF IsStretch
<1>32. a \in DOMAIN calls /\ b \in DOMAIN calls
  BY <1>2
<1>. QED BY <1>4, <1>7, <1>19, <1>26, <1>31, <1>32

\* A loop is not missed, nor shown shorter than it was.
LEMMA Seen == TrafficInv => LoopsAreSeen
<1> SUFFICES ASSUME TrafficInv, setting.ways = {"tail"}, readTo = Len(transcript),
                    NEW turns, turns = Turns, NEW findings, findings = Findings(sessionTraffic),
                    NEW i \in DOMAIN turns, NEW j \in DOMAIN turns, i < j, IsLoop(turns, i, j)
             PROVE  \E f \in findings : f.sig = transcript[turns[i]].key
                                        /\ f.repeats >= Cardinality(Repetitions(turns, i, j))
  BY DEF LoopsAreSeen
<1>1. PICK traffic : traffic = sessionTraffic
  OBVIOUS
<1>2. PICK s : s = transcript[turns[i]].key
  OBVIOUS
<1>3. isTranscript(traffic)
  <2>1. i \in Repetitions(turns, i, j)
    BY DEF IsLoop
  <2>2. s \in Signature
    BY <1>2, <2>1 DEF Counts, Repetitions
  <2>3. PICK p \in DOMAIN transcript : p = turns[i] /\ transcript[p].kind # "result" /\ transcript[p].key = s
    BY <1>2, TurnsAre
  <2>4. Absent \notin Signature /\ Signature \cap File = {}
    BY EventsAssumption DEF Signature
  <2>5. transcript[p].kind = "call" /\ p <= readTo /\ p # 0
    BY <2>2, <2>3, <2>4, EntryIs DEF TrafficInv
  <2>6. FromTail(p) \in Rows
    BY <2>2, <2>3, <2>5, KeptIs
  <2>7. FromTail(p).type = "TOOL_CALL" /\ FromTail(p).use # 0
    BY <2>2, <2>3, <2>4, <2>5, FromTailIs DEF TrafficInv
  <2>8. PICK r \in DOMAIN traffic : traffic[r] = FromTail(p)
    BY <1>1, <2>6, SessionCalls
  <2>. QED BY <2>7, <2>8 DEF isTranscript
<1>4. Whole(traffic)
  BY <1>1, <1>3 DEF Whole
<1>5. PICK calls : calls = collectToolCalls(traffic)
  OBVIOUS
<1>6. calls \in Seq(CallRecord)
  BY <1>1, <1>5, SessionCalls
<1>7. PICK a \in DOMAIN calls, b \in DOMAIN calls :
        /\ s \in Signature /\ IsStretch(calls, s, a, b)
        /\ Cardinality(Repeated(calls, s, a, b)) \in Nat /\ Cardinality(Repetitions(turns, i, j)) \in Nat
        /\ Cardinality(Repeated(calls, s, a, b)) >= Cardinality(Repetitions(turns, i, j))
  BY <1>2, <1>4, <1>5, LoopIsStretch
<1>8. PICK f \in detectLoops(calls) :
        f.sig = s /\ f.repeats \in Nat /\ f.repeats >= Cardinality(Repeated(calls, s, a, b))
  BY <1>6, <1>7, StretchIsFound
<1>9. \E sig, repeats, errors, at : f = [sig |-> sig, repeats |-> repeats, errorLoop |-> errors, at |-> at]
  <2>1. PICK walk : detectLoops(calls) =
          Reports(calls, [x \in Signature |-> Better(walk[Len(calls)].best[x], walk[Len(calls)].open[x])])
    BY <1>6, WalkOfCalls
  <2>2. PICK best : f \in Reports(calls, best)
    BY <2>1
  <2>. QED BY <2>2 DEF Reports
<1>10. PICK g : g = [f EXCEPT !.at = [k \in DOMAIN @ |-> traffic[@[k]].at]]
  OBVIOUS
<1>11. g.sig = f.sig /\ g.repeats = f.repeats
  BY <1>9, <1>10
<1>12. g \in findings
  BY <1>1, <1>5, <1>8, <1>10 DEF Findings
<1>. QED BY <1>2, <1>7, <1>8, <1>11, <1>12

\* In a session of which the whole transcript was read, and only it, every loop of it is
\* reported, and not shorter than it was, whatever was read when.
THEOREM LoopsFound == TrafficSpec => []LoopsAreSeen
BY Seen, TrafficInvInit, TrafficInvStep, PTL DEF TrafficSpec

=============================================================================
