------------------------------- MODULE MCLadder -------------------------------
(***************************************************************************)
(* Instances of Ladder for TLC: windows in units of 50,000 tokens, turns   *)
(* that fill a small window or prove a larger one.                         *)
(***************************************************************************)
EXTENDS Ladder, TLC

CONSTANTS h1, h2

Saw(n, model) == [occupied |-> n, model |-> model]
FewTurns == {Saw(1, "known"), Saw(3, "known"), Saw(5, "other"), Saw(18, "long")}

Mode(shared, followed) == [shared |-> shared, followed |-> followed]
AnyMode == {Mode(TRUE, FALSE), Mode(FALSE, TRUE), Mode(FALSE, FALSE)}
Hooks == Permutations(Process)
Simple == {Mode(FALSE, FALSE)}

=============================================================================
