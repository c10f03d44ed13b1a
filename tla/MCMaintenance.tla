--------------------------- MODULE MCMaintenance ---------------------------
(***************************************************************************)
(* Instances of Maintenance for TLC: one path, an item that needs it and a *)
(* rule that says it does not exist, so that every change of the file      *)
(* breaks one of the two and mends the other.                              *)
(***************************************************************************)
EXTENDS Maintenance

CONSTANTS a, r, f

OneNeeds == [i \in Item |-> IF i = a THEN {f} ELSE {}]
OneDenies == [i \in Item |-> IF i = r THEN {f} ELSE {}]

=============================================================================
