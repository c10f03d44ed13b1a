---------------------------- MODULE MCContextStore ----------------------------
(***************************************************************************)
(* Instances of ContextStore for TLC: which patches each caller may write  *)
(* in each run.  Every set holds whole families (one patch per id, per     *)
(* pair of ids) so that a patch meets states it was not written for.       *)
(***************************************************************************)
EXTENDS ContextStore

CONSTANTS e1, e2, t1, t2, T1, T2

Item(id, category, text, importance, confidence, source, evidence, replaced) ==
  [id |-> id, category |-> category, text |-> text, importance |-> importance,
   confidence |-> confidence, source |-> source, evidence |-> evidence,
   ttl |-> FALSE, closed |-> FALSE, supersedes |-> replaced]

NoChange(id) ==
  [id |-> id, text |-> None, importance |-> None, confidence |-> None,
   status |-> None, ttl |-> None, closed |-> None, evidence |-> {}]

Only(entry) == [EmptyList EXCEPT ![1] = entry]
Adding(a) == [EmptyPatch EXCEPT !.add = Only(a)]
Updating(u) == [EmptyPatch EXCEPT !.update = Only(u)]
Pairs == {q \in Id \X Id : q[1] # q[2]}

\* What a person does: remember, retire (with and without consent), close,
\* reopen, link and set the task.
Remember(id, text) == Adding(Item(id, "goals", text, "critical", Certain, "user", {}, {}))
RememberReplacing(id, old) == Adding(Item(id, "goals", t2, "high", Certain, "user", {}, {old}))
Retire(id) == [EmptyPatch EXCEPT !.remove = {id}]
Release(id) == [Retire(id) EXCEPT !.release = {id}]
CloseIt(id, evidence) == [EmptyPatch EXCEPT !.close = {[id |-> id, evidence |-> evidence]}]
Reopen(id) == [EmptyPatch EXCEPT !.reopen = {id}]
Link(q, kind) == [EmptyPatch EXCEPT !.link = {[from |-> q[1], to |-> q[2], kind |-> kind]}]
UnlinkAll(q) == [EmptyPatch EXCEPT !.unlink = {[from |-> q[1], to |-> q[2], kind |-> None]}]
SetTask(task) == [EmptyPatch EXCEPT !.working = task]

\* What a model may answer with.
Extract(id, text, source, evidence) ==
  Adding(Item(id, "goals", text, "critical", Certain, source, evidence, {}))
ExtractReplacing(id, old) == Adding(Item(id, "goals", t2, "high", Certain, "worker", {e1}, {old}))
Replace(q) == [EmptyPatch EXCEPT !.supersede = Only([id |-> q[1], by |-> q[2]])]
SetStatus(id, status) == Updating([NoChange(id) EXCEPT !.status = status])
Lower(id) == Updating([NoChange(id) EXCEPT !.importance = "low"])
Raise(id) == Updating([NoChange(id) EXCEPT !.importance = "critical"])
Doubt(id) == Updating([NoChange(id) EXCEPT !.confidence = 0])
Rewrite(id, text) == Updating([NoChange(id) EXCEPT !.text = text])

\* Protection: everything that retires or weakens, by whoever may write it.
ProtectUser ==
  {Remember(x, t1) : x \in Id} \cup {Retire(x) : x \in Id} \cup {Release(x) : x \in Id}
    \cup {Reopen(x) : x \in Id}
ProtectFold == {SetStatus(x, "stale") : x \in Id} \cup {SetStatus(x, "active") : x \in Id}
ProtectWorker ==
  UNION {{Extract(x, t1, "user", {e1}), Extract(x, t2, "user", {}), Lower(x), Raise(x), Doubt(x),
          Release(x), CloseIt(x, {}), CloseIt(x, {e1}), SetStatus(x, "archived")} : x \in Id}
    \cup UNION {{Replace(q), ExtractReplacing(q[1], q[2])} : q \in Pairs}
ProtectImport == {Release(x) : x \in Id}

\* The log: everything that writes more than the item it names, the edges, the
\* task, and the same extraction under several ids while items come and go.
Batch(a, b) == [EmptyPatch EXCEPT !.add = [EmptyList EXCEPT ![1] = a, ![2] = b]]
Derived(id, text, replaced) == Item(id, "goals", text, "high", 1, "worker", {}, replaced)
ReplaceAndRewrite(q) == [Replace(q) EXCEPT !.update = Rewrite(q[2], t1).update]
ExtractAndLink(q) == [Link(q, "relates_to") EXCEPT !.add = Only(Derived(q[1], t1, {}))]
ReplayUser ==
  {Remember(x, t1) : x \in Id} \cup {RememberReplacing(q[1], q[2]) : q \in Pairs}
    \cup UNION {{Link(q, "governs"), UnlinkAll(q)} : q \in Pairs} \cup {Retire(x) : x \in Id} \cup {SetTask(T1)}
ReplayFold == {SetStatus(x, "active") : x \in Id}
ReplayWorker ==
  UNION {{ExtractAndLink(q), ReplaceAndRewrite(q),
          Batch(Derived(q[1], t1, {}), Derived(q[2], t2, {q[1]})),
          Batch(Derived(q[1], t1, {}), Derived(q[2], t1, {}))} : q \in Pairs}
    \cup {SetTask(T2)}
ReplayImport == {Adding(Derived(x, t1, {})) : x \in Id}

\* Patches that meet a promise the code does not keep.
WriteClosed(id) == Updating([NoChange(id) EXCEPT !.closed = TRUE])
ClosingWorker == {WriteClosed(x) : x \in Id}
ReplacingWorker == ReplayWorker \cup {Replace(q) : q \in Pairs}
AgainImport == {CloseIt(x, {}) : x \in Id} \cup ReplayImport
RememberUser == {Remember(x, t1) : x \in Id}

NoPatches == {}

=============================================================================
