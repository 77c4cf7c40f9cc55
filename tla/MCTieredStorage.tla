-------------------------- MODULE MCTieredStorage ---------------------------
(* Small instances of TieredStorage for TLC. *)
EXTENDS TieredStorage, TLC

CONSTANTS v1, v2

(* A vector that takes its record back to the hottest zone, and one that     *)
(* leaves it warm.                                                          *)
Targets == (v1 :> 4) @@ (v2 :> 2)
=============================================================================
