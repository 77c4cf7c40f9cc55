----------------------------- MODULE MCStarGate -----------------------------
(* Small instances of StarGate for TLC. *)
EXTENDS StarGate, TLC

(* A schedule of two steps that leads from 0 to 2 and back on a circle of 8. *)
ShortPattern == <<2, 6>>

(* STAR_STEP_PATTERN *)
TwoThree == <<2, 2, 2, 2, 2, 3, 3, 3, 3, 3>>

AllNodes == {Node}

Permuted == Permutations(Node)
=============================================================================
