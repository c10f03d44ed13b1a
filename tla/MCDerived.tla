------------------------------ MODULE MCDerived ------------------------------
(***************************************************************************)
(* An instance of Derived for TLC: what the user said, two decisions, two  *)
(* learned rules and a convention the user stated; a short text, one that  *)
(* is cut in the slice, and one between.  Sections are too small for all   *)
(* of their items, and of three conventions byCategory reads two rows.     *)
(***************************************************************************)
EXTENDS Derived

Of(category, importance, stated, rule) ==
  [category |-> category, importance |-> importance, stated |-> stated, sure |-> TRUE, rule |-> rule]
Kinds ==
  <<Of("constraints", "critical", TRUE, FALSE), Of("decisions", "high", FALSE, FALSE),
    Of("decisions", "medium", FALSE, FALSE), Of("conventions", "medium", FALSE, TRUE),
    Of("conventions", "medium", FALSE, TRUE), Of("conventions", "medium", TRUE, FALSE)>>
Texts == {"short", "middle", "long"}
Sizes == [short |-> 2, middle |-> 4, long |-> 9]

Searched == [words |-> TRUE, exact |-> "none", categories |-> {}]
Exactly == [words |-> TRUE, exact |-> "strong", categories |-> {}]
Listing == [words |-> FALSE, exact |-> "none", categories |-> {"decisions"}]
Queries == {Searched, Exactly, Listing}
Relevances == [q \in Queries |-> [short |-> 0, middle |-> 1, long |-> 2]]
Alike == [q \in Queries |-> [short |-> 9, middle |-> 1, long |-> 3]]

Signals ==
  [short |-> [short |-> 1, middle |-> 0, long |-> 3],
   middle |-> [short |-> 0, middle |-> 1, long |-> 2],
   long |-> [short |-> 3, middle |-> 2, long |-> 1]]

AnyBudget == {None, 12}
Always ==
  <<[categories |-> <<"constraints", "conventions">>, allowance |-> 9],
    [categories |-> <<"decisions">>, allowance |-> 8]>>
Edges == {<<2, 1>>, <<4, 3>>}
Replaced == {{4, 5}}

Live(text) == [text |-> text, status |-> "active", closed |-> FALSE, expired |-> FALSE, at |-> 0]
Gone(text) == [Live(text) EXCEPT !.status = "retired"]
Full == <<Live("short"), Live("long"), Live("middle"), Live("long"), Live("short"), Gone("middle")>>
Few == [i \in Id |-> IF i <= 3 THEN Full[i] ELSE Gone(Full[i].text)]
Crowded == [Full EXCEPT ![6] = Live("middle")]

Setting(start, changes, queries, indexes, judges) ==
  [start |-> start, edits |-> changes, queries |-> queries, indexes |-> indexes, judges |-> judges]
Modes ==
  {Setting(Few, {"rewrite", "retire"}, {}, TRUE, FALSE),
   Setting(Full, {"rewrite", "retire"}, {Searched}, FALSE, FALSE),
   Setting(Few, {"age"}, {Exactly}, FALSE, FALSE),
   Setting(Full, {"rewrite", "close", "age"}, {Listing}, FALSE, FALSE),
   Setting(Crowded, {"rewrite", "age"}, {}, FALSE, FALSE),
   Setting(Few, {"rewrite"}, {}, FALSE, TRUE),
   Setting(Few, {"clear"}, {}, FALSE, TRUE)}

=============================================================================
