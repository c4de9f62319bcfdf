----------------------------- MODULE MCCircuit -----------------------------
(* Instances of Circuit for TLC. *)
EXTENDS Circuit, TLC

CONSTANTS c1, c2, c3

Calls3 == {c1, c2, c3}

\* A success, an error, and an event that is neither.
AllOutcomes == {"success", "failure", "context_canceled"}

\* Calls differ in nothing but their names.
Symmetry3 == Permutations(Calls3)
=============================================================================
