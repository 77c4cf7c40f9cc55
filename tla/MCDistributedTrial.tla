------------------------- MODULE MCDistributedTrial -------------------------
(* Small instances of DistributedTrial for TLC. *)
EXTENDS DistributedTrial, TLC

CONSTANTS a, b, c, d,
  Contested  \* the trials that a sandbox may reject

ThreeNodes == {a, b, c}
FourNodes  == {a, b, c, d}

(* Callers that tell every other node. *)
AllOthers == {Node}

Verdicts == [t \in Trial |-> IF t \in Contested THEN {TRUE, FALSE} ELSE {TRUE}]

(* With every node a listener; with a the only one. *)
Permuted == Permutations(Node)
PermutedPeers ==
  Permutations(Node \ {a}) \union Permutations(Trial) \union Permutations(Proposal)
=============================================================================
