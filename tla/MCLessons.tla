------------------------------ MODULE MCLessons ------------------------------
(***************************************************************************)
(* Instances of Lessons for TLC.  One wrong path that may have meant two   *)
(* files, one malformed command and its correction, one failing command    *)
(* that works after a repair or once something else was done.              *)
(***************************************************************************)
EXTENDS Lessons

CONSTANTS f, g, l, m

Commands == {"tset", "test", "up", "cd-test"}
Paths == {"a", "b", "c"}
Moved == {<<"test", "cd-test">>}
Corrects == {<<"tset", "test">>, <<"a", "b">>, <<"a", "c">>}
Processes == Permutations({f, g}) \cup Permutations({l, m})

Made(ambiguous, fixes) == [failed |-> "a", ambiguous |-> ambiguous, fixes |-> fixes, after |-> 0]
Active(ids) == [r \in ids |-> [fixes |-> r.fixes, status |-> "active"]]
Plain == [r \in {Made(FALSE, {"b"})} |-> [fixes |-> {"b"}, status |-> "stale"]]
Vague == Active({Made(TRUE, {"b", "c"})})
Split == Active({Made(FALSE, {"b"}), Made(FALSE, {"c"})})

Setting(calls, runs, length) ==
  [calls |-> calls, runs |-> runs, refolds |-> FALSE, racing |-> FALSE, late |-> FALSE,
   learns |-> "never", shared |-> FALSE, ties |-> FALSE, length |-> length]

\* Paths are read, by one process at a time; by several, as rules fade and are retired;
\* by several, a mistake put right in two ways; and reported late.
Reads == {<<"a", "missing">>, <<"b", "ok">>, <<"c", "ok">>}
Reading == Setting(Reads \cup {<<"a", "ok">>, <<"b", "missing">>}, {}, 5)
Revising == [Setting(Reads, {}, 4) EXCEPT !.racing = TRUE]
Racing == [Revising EXCEPT !.length = 6]
Late == [Setting(Reads \ {<<"c", "ok">>}, {}, 4) EXCEPT !.late = TRUE]
\* A command is put right, and what waits is folded again.
Folding ==
  [Setting({}, {<<"tset", "malformed">>, <<"test", "ok">>}, 4) EXCEPT !.refolds = TRUE]

\* A session is learned from when it is over; as it goes; and by two at a time.
Runs == {<<"test", "trace">>, <<"test", "ok">>, <<"up", "ok">>}
Ended == [Setting({}, Runs \cup {<<"cd-test", "ok">>}, 6) EXCEPT !.learns = "after"]
Along == [Setting({}, Runs, 5) EXCEPT !.learns = "during", !.late = TRUE]
Together == [Setting({}, Runs, 6) EXCEPT !.learns = "during", !.shared = TRUE]

Sessions == {Reading, Revising, Racing, Late, Folding, Ended, Along, Together}
Memories(s) ==
  CASE s = Reading -> {<<>>, Plain, Vague}
    [] s = Revising -> {<<>>, Plain, Vague, Split}
    [] OTHER -> {<<>>}

=============================================================================
