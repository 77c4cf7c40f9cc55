--------------------------- MODULE MCRhythmNetwork ---------------------------
(* Small instances of RhythmNetwork for TLC. *)
EXTENDS RhythmNetwork, TLC

FewPhases == {0, Circle \div 2}

FullMesh == [n \in Node |-> Node \ {n}]

Permuted == Permutations(Node)
=============================================================================
