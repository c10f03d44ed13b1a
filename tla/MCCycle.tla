------------------------------- MODULE MCCycle -------------------------------
(***************************************************************************)
(* An instance of Cycle for TLC: two processes, one hourly call short of   *)
(* two, and windows in units of 50,000 tokens.                             *)
(***************************************************************************)
EXTENDS Cycle

Given2 == [p \in Process |-> IF p = "p" THEN {"watch", "compact"} ELSE {"hook", "act", "learn"}]

Weights == [k \in Kind |-> IF k = "urgent" THEN 2 ELSE 1]

Quiet == [occupied |-> 0, peak |-> 0, model |-> "other"]
Filling == [occupied |-> 3, peak |-> 3, model |-> "known"]
Full == [occupied |-> 4, peak |-> 4, model |-> "known"]
FewUsages == {Quiet, Filling, Full}

Setting(shared, calm, localOnly, learns) ==
  [shared |-> shared, calm |-> calm, localOnly |-> localOnly, learns |-> learns]
FewSettings ==
  {Setting(TRUE, TRUE, FALSE, FALSE), Setting(FALSE, FALSE, FALSE, TRUE),
   Setting(FALSE, TRUE, TRUE, TRUE)}

=============================================================================
