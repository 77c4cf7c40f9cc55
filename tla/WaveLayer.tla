------------------------------ MODULE WaveLayer ------------------------------
(***************************************************************************)
(* The wave synchronization layer of mother_intelligence: a network of     *)
(* oscillators (wave_synchronization_layer.py) that the Kuramoto engine    *)
(* (kuramoto_engine.py) moves step by step, and what the perception engine *)
(* (kuma_004_wave_perception.py) reads off it.                             *)
(*                                                                         *)
(* Phases are multiples of a turn divided in Circle units.  How far a step *)
(* moves each of them is any of Moves: the integration, its damping and    *)
(* the delays of the links are not modelled, but everything that is read   *)
(* off the phases is computed from them as the code does it, the order     *)
(* parameter as far as hundredths tell.  The geometry decoders, the phase  *)
(* and coherence of the global field (those of the last step) and the      *)
(* histories, which nothing here reads, are left out.                      *)
(***************************************************************************)
EXTENDS Integers, FiniteSets, FiniteSetsExt, Functions

CONSTANTS
  Size,     \* num_nodes: nodes are numbered from 0
  Circle,   \* phase units in a full turn
  Unit,     \* the length of a unit vector, to compute with integers
  Cos,      \* Cos[p]: Unit times the cosine of p, rounded
  Moves,    \* bound: the moves of one step
  Starts,   \* bound: the random phases a new network starts from
  Shapes,   \* topologies that are created
  Extra,    \* small_world: int(num_nodes * small_world_prob * num_nodes / 2)
  Degree    \* sparse_degree

Node == 0 .. Size - 1

ASSUME LayerAssumption ==
  /\ Size \in Nat \ {0}
  /\ Circle \in Nat \ {0} /\ Circle % 4 = 0
  /\ Unit \in Nat \ {0} /\ Cos \in [0 .. Circle - 1 -> Int]
  /\ Moves \subseteq [Node -> Int]
  /\ Starts \subseteq [Node -> 0 .. Circle - 1]
  /\ Shapes \subseteq {"complete", "ring", "star", "sparse", "small_world"}
  /\ Degree \in Nat /\ Extra \in Nat

VARIABLES
  members,    \* nodes of the topology
  links,      \* its links, as pairs of source and target
  phase,      \* phases of the members, 0 for the others
  order,      \* order parameter that the last step returned
  mind,       \* _mind_state
  outOfPhase  \* _out_of_phase_nodes

layer == <<members, links, phase, order, mind, outOfPhase>>

Phase == 0 .. Circle - 1

-----------------------------------------------------------------------------
(* What is read off the phases ph of a set S of nodes. *)

(* |sum of e^(i theta)| / N in hundredths, doubled, and one more when it lies *)
(* between two hundredths, so that it compares with each of them exactly;    *)
(* 201 is left to tables of cosines that are rounded up.                    *)
OrderOf(ph, S) ==
  LET x == SumFunctionOnSet([n \in S |-> Cos[ph[n]]], S)
      y == SumFunctionOnSet([n \in S |-> Cos[(ph[n] - Circle \div 4) % Circle]], S)
      r == 10000 * (x * x + y * y)
      N == Unit * Cardinality(S)
      h == CHOOSE k \in 0 .. 100 :
             k * k * N * N <= r /\ (k = 100 \/ (k + 1) * (k + 1) * N * N > r)
  IN  IF S = {} THEN 0 ELSE IF h * h * N * N = r THEN 2 * h ELSE 2 * h + 1

Above(r, hundredths) == r > 2 * hundredths
Below(r, hundredths) == r < 2 * hundredths

(* The distance of n to the mean, Cardinality(S) times: the mean is taken    *)
(* along the line, the distance around the circle.                          *)
Deviation(ph, S, n) ==
  LET turn == Cardinality(S) * Circle
      d == (Cardinality(S) * ph[n] - SumFunctionOnSet(ph, S)) % turn
  IN  IF 2 * d > turn THEN turn - d ELSE d

(* More than a quarter of a turn from the mean. *)
Strays(ph, S) == {n \in S : 4 * Deviation(ph, S, n) > Cardinality(S) * Circle}

MindState(r, S) ==
  IF S = {} THEN "idle"
  ELSE IF Above(r, 90) THEN "coherent" ELSE IF Above(r, 70) THEN "converging"
  ELSE IF Above(r, 40) THEN "transitioning" ELSE "chaotic"

(* The variance exceeds v hundredths of a square radian: (2 pi)^2 = 39.478. *)
VarianceAbove(v, S) ==
  LET s == SumFunctionOnSet(phase, S)
      q == SumFunctionOnSet([n \in S |-> phase[n] * phase[n]], S)
  IN  39478 * (Cardinality(S) * q - s * s) >
        10 * v * Circle * Circle * Cardinality(S) * Cardinality(S)

(* The mean deviation exceeds half a radian: 4 pi = 12.566. *)
DeviationAboveHalf(S) ==
  12566 * SumFunctionOnSet([n \in S |-> Deviation(phase, S, n)], S) >
    1000 * Circle * Cardinality(S) * Cardinality(S)

Coherence == OrderOf(phase, members)

(* risk_score of the pattern perceive finds, in hundredths, from COHERENT    *)
(* through STABLE, CONVERGING, TRANSIENT, AMPLIFYING, COLLAPSING,            *)
(* OUT_OF_PHASE and DIVERGING to CHAOTIC.                                   *)
Risk ==
  LET R == Coherence
  IN  IF members = {} THEN 100
      ELSE IF Above(R, 95) /\ ~VarianceAbove(1, members) THEN 0
      ELSE IF Above(R, 85) /\ ~VarianceAbove(5, members) THEN 5
      ELSE IF Above(R, 60) /\ ~VarianceAbove(10, members) THEN 20
      ELSE IF Above(R, 50) /\ ~VarianceAbove(20, members) THEN 40
      ELSE IF Above(R, 40) /\ ~DeviationAboveHalf(members) THEN 30
      ELSE IF Above(R, 20) /\ DeviationAboveHalf(members) THEN 80
      ELSE IF 10 * Cardinality(Strays(phase, members)) > 3 * Cardinality(members) THEN 70
      ELSE IF Below(R, 30) /\ VarianceAbove(20, members) THEN 90 ELSE 100

-----------------------------------------------------------------------------
(* Topologies of n nodes. *)

Both(ls) == ls \union {<<l[2], l[1]>> : l \in ls}

Ring(n) == Both({<<i, (i + 1) % n>> : i \in 0 .. n - 1})

Complete(n) == {l \in (0 .. n - 1) \X (0 .. n - 1) : l[1] # l[2]}

Hub(n) == {<<0, i>> : i \in 1 .. n - 1}

Sparse(n) == {<<i, (i + d) % n>> : i \in 0 .. n - 1, d \in 1 .. Degree} \ {<<i, i>> : i \in Node}

(* The ring and some pairs drawn at random, in one direction each. *)
SmallWorlds(n) ==
  {Ring(n) \union more : more \in
     {x \in SUBSET Complete(n) : Cardinality(x) <= Extra /\ \A l \in x : <<l[2], l[1]>> \notin x}}

(* The sets of links that the shape may give. *)
Wirings(shape, n) ==
  IF shape = "small_world" THEN SmallWorlds(n)
  ELSE {[complete |-> Complete(n), ring |-> Ring(n), star |-> Hub(n), sparse |-> Sparse(n)][shape]}

(* A network as create_network and create_topology make it: new nodes and    *)
(* links.  What the last step returned, and found out of phase, stays.      *)
NewNetwork ==
  \E shape \in Shapes : \E wiring \in Wirings(shape, Size), start \in Starts :
    /\ members' = Node
    /\ links' = wiring
    /\ phase' = start
    /\ UNCHANGED <<order, mind, outOfPhase>>

LayerInit ==
  \E shape \in Shapes : \E wiring \in Wirings(shape, Size), start \in Starts :
    /\ members = Node
    /\ links = wiring
    /\ phase = start
    /\ order = 0
    /\ mind = "idle"
    /\ outOfPhase = {}

-----------------------------------------------------------------------------
(* The operations of the layer. *)

(* evolve: the phases move, and wrap around. *)
Evolved(move) == [n \in Node |-> IF n \in members THEN (phase[n] + move[n]) % Circle ELSE 0]

(* step: evolve moves the phases, then the state of mind and the nodes out   *)
(* of phase are found anew.                                                 *)
Step ==
  \E move \in Moves :
    /\ phase' = Evolved(move)
    /\ order' = OrderOf(phase', members)
    /\ mind' = MindState(order', members)
    /\ outOfPhase' = IF Cardinality(members) < 2 THEN {} ELSE Strays(phase', members)
    /\ UNCHANGED <<members, links>>

(* The callers give a new node a name of its own. *)
AddNode(n, p) ==
  /\ n \notin members
  /\ members' = members \union {n}
  /\ phase' = [phase EXCEPT ![n] = p]
  /\ links' = links \union Both({<<n, m>> : m \in members})
  /\ UNCHANGED <<order, mind, outOfPhase>>

(* Mutant of RemoveNodes: the links that lead to a removed node stay. *)
RemoveNodesForward(gone) ==
  /\ members' = members \ gone
  /\ links' = {l \in links : l[1] \notin gone}
  /\ phase' = [n \in Node |-> IF n \in gone THEN 0 ELSE phase[n]]
  /\ UNCHANGED <<order, mind, outOfPhase>>

(* remove_node, once for each node of gone.  Like the rest of the status,    *)
(* the list of the nodes out of phase is that of the last step.             *)
RemoveNodes(gone) ==
  /\ members' = members \ gone
  /\ links' = {l \in links : l[1] \notin gone /\ l[2] \notin gone}
  /\ phase' = [n \in Node |-> IF n \in gone THEN 0 ELSE phase[n]]
  /\ UNCHANGED <<order, mind, outOfPhase>>

-----------------------------------------------------------------------------

LayerTypeOK ==
  /\ members \subseteq Node
  /\ links \subseteq Node \X Node
  /\ phase \in [Node -> Phase]
  /\ order \in 0 .. 201
  /\ mind \in {"idle", "coherent", "converging", "transitioning", "chaotic"}
  /\ outOfPhase \subseteq Node

(* Whatever adds, removes and replaces nodes, no link leads to or from a     *)
(* node that is not in the topology.                                        *)
NothingDangles == links \subseteq members \X members

=============================================================================
