------------------------------- MODULE EventLife -------------------------------
(***************************************************************************)
(* What the event queue promises of each event, whoever works on it: it is *)
(* absent, or stored and waiting, or stored and resolved.  A waiting event *)
(* is never dropped and a resolved one never waits again; only a resolved  *)
(* event is ever deleted, and only an absent one is stored.                *)
(***************************************************************************)
CONSTANT Record
VARIABLE life

Init == life = [r \in Record |-> "absent"]

Move(S, from, to) ==
  /\ S # {} /\ \A r \in S : life[r] = from
  /\ life' = [r \in Record |-> IF r \in S THEN to ELSE life[r]]

Store(S) == Move(S, "absent", "waiting")
Resolve(S) == Move(S, "waiting", "resolved")
Forget(S) == Move(S, "resolved", "absent")

Next == \E S \in SUBSET Record : Store(S) \/ Resolve(S) \/ Forget(S)
Spec == Init /\ [][Next]_life

=============================================================================
