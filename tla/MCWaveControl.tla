--------------------------- MODULE MCWaveControl ---------------------------
(* Small instances of WaveControl for TLC. *)
EXTENDS WaveControl, TLC

(* Cosines of eighths of a turn, 17 long. *)
Cosines == <<17, 12, 0, -12, -17, -12, 0, 12>>
CosOf == [p \in 0 .. 7 |-> Cosines[p + 1]]

(* At a step the phases stay, or draw apart or together, node n by n units.  *)
FewMoves == {[n \in Node |-> d * n] : d \in {-1, 0, 1}}

(* Together, astray, and spread over the circle but for the first. *)
FewStarts == {[n \in Node |-> 0], [n \in Node |-> IF n = 1 THEN 3 ELSE 0],
              [n \in Node |-> CASE n = 1 -> 3 [] n = 2 -> 5 [] OTHER -> 0]}

Pair(k, d) == [coupling |-> k, damping |-> d]
One == Pair(1, 1)
Two == Pair(2, 2)
Three == Pair(3, 3)
=============================================================================
