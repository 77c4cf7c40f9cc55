------------------------- MODULE WaveControlProofs --------------------------
(***************************************************************************)
(* What the calls that drive the wave layer keep, for any network, moves,  *)
(* gains and lengths of calls, and any predictions: no link dangles, and   *)
(* what was only tried is put back.                                        *)
(***************************************************************************)
EXTENDS WaveControl, TLAPS, FiniteSetTheorems, FiniteSums

-----------------------------------------------------------------------------
(* Links. *)

(* Taking both directions of links between nodes gives links between nodes. *)
LEMMA BothLinkNodes ==
  ASSUME NEW S, NEW ls, ls \subseteq S \X S
  PROVE  Both(ls) \subseteq S \X S
BY DEF Both

(* A step around the numbers of the nodes ends at a node. *)
LEMMA AroundIsNode ==
  ASSUME NEW i \in Node, NEW d \in Nat
  PROVE  (i + d) % Size \in Node
BY LayerAssumption DEF LayerAssumption, Node

LEMMA RingLinksNodes == Ring(Size) \subseteq Node \X Node
<1>1. \A i \in Node : (i + 1) % Size \in Node
  BY AroundIsNode
<1>2. {<<i, (i + 1) % Size>> : i \in 0 .. Size - 1} \subseteq Node \X Node
  BY <1>1 DEF Node
<1> QED BY <1>2, BothLinkNodes DEF Ring

(* Every shape links nodes only. *)
LEMMA WiringsLinkNodes ==
  ASSUME NEW shape \in Shapes, NEW wiring \in Wirings(shape, Size)
  PROVE  wiring \subseteq Node \X Node
<1>1. shape \in {"complete", "ring", "star", "sparse", "small_world"}
  BY LayerAssumption DEF LayerAssumption
<1>2. Complete(Size) \subseteq Node \X Node
  BY DEF Complete, Node
<1>3. CASE shape = "complete"
  BY <1>2, <1>3 DEF Wirings
<1>4. CASE shape = "ring"
  BY RingLinksNodes, <1>4 DEF Wirings
<1>5. CASE shape = "star"
  <2>1. Hub(Size) \subseteq Node \X Node
    BY LayerAssumption DEF LayerAssumption, Node, Hub
  <2> QED BY <1>5, <2>1 DEF Wirings
<1>6. CASE shape = "sparse"
  <2>1. \A i \in Node, d \in 1 .. Degree : (i + d) % Size \in Node
    BY AroundIsNode, LayerAssumption DEF LayerAssumption
  <2>2. Sparse(Size) \subseteq Node \X Node
    BY <2>1 DEF Sparse, Node
  <2> QED BY <1>6, <2>2 DEF Wirings
<1>7. CASE shape = "small_world"
  <2>1. wiring \in SmallWorlds(Size)
    BY <1>7 DEF Wirings
  <2>2. PICK more \in SUBSET Complete(Size) : wiring = Ring(Size) \union more
    BY <2>1 DEF SmallWorlds
  <2> QED BY <1>2, <2>2, RingLinksNodes
<1> QED BY <1>1, <1>3, <1>4, <1>5, <1>6, <1>7

(* What the calls do to the network: each action is one operation of the     *)
(* layer, puts the phases of a snapshot back, or leaves the layer alone.     *)
NetworkMoves ==
  \/ UNCHANGED layer
  \/ Restore
  \/ Step
  \/ NewNetwork
  \/ \E n \in Node, p \in Phase : AddNode(n, p)
  \/ \E gone : RemoveNodes(gone)

LEMMA NextMovesNetwork ==
  ASSUME [Next]_vars
  PROVE  NetworkMoves
<1>1. ASSUME UNCHANGED layer PROVE NetworkMoves
  BY <1>1, Zenon DEF NetworkMoves
<1>2. ASSUME NEW b, Isolate(b) PROVE NetworkMoves
  BY <1>1, <1>2, Zenon DEF Isolate, NetworkMoves
<1>3. CASE UNCHANGED vars
  BY <1>1, <1>3 DEF vars
<1>4. CASE Idle \/ LoopStep \/ SimulationStep \/ SuperviseStep \/ ReplayStep
           \/ DropStep \/ CascadeStep
  BY <1>4, Zenon DEF NetworkMoves, Idle, LoopStep, SimulationStep, SuperviseStep, ReplayStep,
     DropStep, CascadeStep
<1>5. CASE Rebuild
  BY <1>5, Zenon DEF NetworkMoves, Rebuild
<1>6. ASSUME NEW n \in Node, NEW p \in Phase, Join(n, p) PROVE NetworkMoves
  BY <1>6, Zenon DEF NetworkMoves, Join
<1>7. ASSUME NEW b \in Proposal, ApplyAction(b) PROVE NetworkMoves
  BY <1>2, <1>7, Zenon DEF ApplyAction
<1>8. CASE Decide
  <2>1. PICK b : UNCHANGED layer \/ Isolate(b)
    BY <1>8 DEF Decide, Try
  <2> QED BY <1>1, <1>2, <2>1, Zenon
<1>9. CASE StartLoop \/ Judge \/ EndLoop \/ StartSupervisor \/ EndSupervisor
           \/ StartReplay \/ EndReplay
  BY <1>1, <1>9
     DEF StartLoop, Judge, EndLoop, StartSupervisor, EndSupervisor, StartReplay, EndReplay
<1>10. CASE Restore
  BY <1>10 DEF NetworkMoves
<1>11. ASSUME NEW gone \in SUBSET Node, Drop(gone) PROVE NetworkMoves
  BY <1>11, Zenon DEF Drop, NetworkMoves
<1>12. ASSUME NEW first \in SUBSET members, NEW most \in Limits, StartCascade(first, most)
       PROVE  NetworkMoves
  BY <1>12, Zenon DEF StartCascade, NetworkMoves
<1>13. CASE Fall
  <2>1. UNCHANGED layer \/ \E gone : RemoveNodes(gone)
    BY <1>13 DEF Fall
  <2> QED BY <1>1, <2>1, Zenon DEF NetworkMoves
<1> QED
  BY <1>3, <1>4, <1>5, <1>6, <1>7, <1>8, <1>9, <1>10, <1>11, <1>12, <1>13, Zenon DEF Next

(* No link leads to or from a node that was dropped, that failed, or that    *)
(* was isolated for good or in a simulation, whatever calls follow           *)
(* (remove_node, add_node, create_topology).                                *)
THEOREM NothingDanglesHolds == Spec => []NothingDangles
<1>1. Init => NothingDangles
  BY WiringsLinkNodes DEF Init, LayerInit, NothingDangles
<1>2. NothingDangles /\ [Next]_vars => NothingDangles'
  <2> SUFFICES ASSUME NothingDangles, [Next]_vars PROVE NothingDangles'
    OBVIOUS
  <2>1. CASE UNCHANGED layer \/ Restore \/ Step
    BY <2>1 DEF NothingDangles, layer, Restore, Step
  <2>2. CASE NewNetwork
    BY <2>2, WiringsLinkNodes DEF NewNetwork, NothingDangles
  <2>3. ASSUME NEW n \in Node, NEW p \in Phase, AddNode(n, p) PROVE NothingDangles'
    <3>1. {<<n, m>> : m \in members} \subseteq members' \X members'
      BY <2>3 DEF AddNode
    <3>2. Both({<<n, m>> : m \in members}) \subseteq members' \X members'
      BY <3>1, BothLinkNodes
    <3> QED BY <2>3, <3>2 DEF NothingDangles, AddNode
  <2>4. ASSUME NEW gone, RemoveNodes(gone) PROVE NothingDangles'
    BY <2>4 DEF NothingDangles, RemoveNodes
  <2> QED BY <2>1, <2>2, <2>3, <2>4, NextMovesNetwork, Zenon DEF NetworkMoves
<1> QED BY <1>1, <1>2, PTL DEF Spec

-----------------------------------------------------------------------------
(* Gains. *)

(* Outside of a simulation and of the supervisor the gains are declared;     *)
(* these, and the run before a replay, hold the declared ones aside.         *)
GainsKept ==
  /\ mode \notin {"simulate", "supervise"} => gain = declared
  /\ mode \in {"simulate", "supervise", "live"} => saved.gain = declared

(* The gains of the layer between calls are those of the history of actions: *)
(* whatever a simulation, the supervisor or a replay set is put back         *)
(* (simulate_action, simulate_grf_supervisor, simulate_causal_replay).      *)
THEOREM GainsAreDeclaredHolds == Spec => []GainsAreDeclared
<1>1. Init => GainsKept
  BY DEF Init, GainsKept
<1>2. GainsKept /\ [Next]_vars => GainsKept'
  <2> SUFFICES ASSUME GainsKept, [Next]_vars PROVE GainsKept'
    OBVIOUS
  <2>1. CASE UNCHANGED vars
    BY <2>1 DEF vars, control, GainsKept
  <2>2. CASE Idle
    BY <2>2 DEF Idle, control, GainsKept
  <2>3. CASE Rebuild
    BY <2>3 DEF Rebuild, Call, GainsKept
  <2>4. ASSUME NEW n \in Node, NEW p \in Phase, Join(n, p) PROVE GainsKept'
    BY <2>4 DEF Join, Call, GainsKept
  <2>5. ASSUME NEW b \in Proposal, ApplyAction(b) PROVE GainsKept'
    BY <2>5 DEF ApplyAction, Call, GainsKept
  <2>6. CASE StartLoop
    BY <2>6 DEF StartLoop, Call, GainsKept
  <2>7. CASE LoopStep
    BY <2>7 DEF LoopStep, GainsKept
  <2>8. CASE Decide
    <3>1. PICK b : \/ mode' = "loop" /\ UNCHANGED <<gain, saved>>
                   \/ Try(b)
      BY <2>8 DEF Decide
    <3>2. UNCHANGED declared /\ mode = "decide"
      BY <2>8 DEF Decide
    <3> QED BY <3>1, <3>2 DEF Try, None, GainsKept
  <2>9. CASE SimulationStep
    BY <2>9 DEF SimulationStep, GainsKept
  <2>10. CASE Judge
    <3>1. mode = "simulate" /\ mode' = "loop"
      BY <2>10 DEF Judge
    <3>2. \/ gain' = gain /\ declared' = gain
          \/ gain' = saved.gain /\ declared' = declared
      <4>1. CASE Improvement > 2
        BY <2>10, <4>1, Zenon DEF Judge
      <4>2. CASE ~(Improvement > 2)
        BY <2>10, <4>2, Zenon DEF Judge
      <4> QED BY <4>1, <4>2, Zenon
    <3> QED BY <3>1, <3>2 DEF GainsKept
  <2>11. CASE EndLoop
    BY <2>11 DEF EndLoop, Return, GainsKept
  <2>12. CASE StartSupervisor
    BY <2>12 DEF StartSupervisor, Call, None, GainsKept
  <2>13. CASE SuperviseStep
    BY <2>13 DEF SuperviseStep, GainsKept
  <2>14. CASE EndSupervisor
    BY <2>14 DEF EndSupervisor, Return, GainsKept
  <2>15. CASE StartReplay
    BY <2>15 DEF StartReplay, Call, None, GainsKept
  <2>16. CASE ReplayStep
    BY <2>16 DEF ReplayStep, GainsKept
  <2>17. CASE Restore
    BY <2>17 DEF Restore, GainsKept
  <2>18. CASE EndReplay
    BY <2>18 DEF EndReplay, Return, GainsKept
  <2>19. ASSUME NEW gone \in SUBSET Node, Drop(gone) PROVE GainsKept'
    BY <2>19 DEF Drop, Call, GainsKept
  <2>20. CASE DropStep
    BY <2>20 DEF DropStep, Return, GainsKept
  <2>21. ASSUME NEW first \in SUBSET members, NEW most \in Limits, StartCascade(first, most)
         PROVE  GainsKept'
    BY <2>21 DEF StartCascade, Call, GainsKept
  <2>22. CASE CascadeStep
    BY <2>22 DEF CascadeStep, GainsKept
  <2>23. CASE Fall
    BY <2>23 DEF Fall, Return, GainsKept
  <2> QED
    BY <2>1, <2>2, <2>3, <2>4, <2>5, <2>6, <2>7, <2>8, <2>9, <2>10, <2>11, <2>12, <2>13,
       <2>14, <2>15, <2>16, <2>17, <2>18, <2>19, <2>20, <2>21, <2>22, <2>23, Zenon DEF Next
<1>3. GainsKept => GainsAreDeclared
  BY DEF GainsKept, GainsAreDeclared
<1> QED BY <1>1, <1>2, <1>3, PTL DEF Spec

-----------------------------------------------------------------------------
(* Types. *)

LEMMA NodesAreFinite ==
  ASSUME NEW S \in SUBSET Node
  PROVE  IsFiniteSet(S) /\ Cardinality(S) \in Nat
<1>1. IsFiniteSet(Node)
  BY FS_Interval, LayerAssumption DEF LayerAssumption, Node
<1> QED BY <1>1, FS_Subset, FS_CardinalityType

LEMMA LeastOfTwo ==
  ASSUME NEW a \in Int, NEW b \in Int
  PROVE  Min({a, b}) \in {a, b} /\ Min({a, b}) <= a /\ Min({a, b}) <= b
<1>1. \E x \in {a, b} : \A y \in {a, b} : x <= y
  OBVIOUS
<1> QED BY <1>1 DEF Min

LEMMA GreatestOfTwo ==
  ASSUME NEW a \in Int, NEW b \in Int
  PROVE  Max({a, b}) \in {a, b} /\ Max({a, b}) >= a /\ Max({a, b}) >= b
<1>1. \E x \in {a, b} : \A y \in {a, b} : x >= y
  OBVIOUS
<1> QED BY <1>1 DEF Max

(* The hundredths of any fraction below, or up to, a hundred are found. *)
LEMMA HundredthsExist ==
  ASSUME NEW N \in Nat, NEW r \in Nat
  PROVE  \E k \in 0 .. 100 : k * k * N * N <= r /\ (k = 100 \/ (k + 1) * (k + 1) * N * N > r)
<1> DEFINE part(k) == k * k * N * N
           K == {k \in 0 .. 100 : part(k) <= r}
<1>1. part(0) = 0 /\ \A k \in 0 .. 101 : part(k) \in Int
  OBVIOUS
<1> HIDE DEF part
<1>2. PICK k \in K : \A j \in K : j <= k
  <2>1. IsFiniteSet(0 .. 100)
    <3>1. 0 \in Int /\ 100 \in Int
      OBVIOUS
    <3> QED BY <3>1, FS_Interval, Zenon
  <2>2. IsFiniteSet(K)
    <3>1. K \in SUBSET (0 .. 100)
      OBVIOUS
    <3> HIDE DEF K
    <3> QED BY <2>1, <3>1, FS_Subset
  <2>3. K \in SUBSET Int /\ 0 \in K
    BY <1>1
  <2> HIDE DEF K
  <2> QED BY <2>2, <2>3, MaxExists
<1>3. k \in 0 .. 100 /\ part(k) <= r
  OBVIOUS
<1>4. ASSUME k # 100 PROVE part(k + 1) > r
  <2>1. k + 1 \in 0 .. 100 /\ k + 1 \notin K
    BY <1>2, <1>3, <1>4
  <2>2. ~(part(k + 1) <= r) /\ part(k + 1) \in Int
    BY <1>1, <2>1
  <2> QED BY <2>2
<1> QED BY <1>3, <1>4 DEF part

LEMMA SquareIsNat ==
  ASSUME NEW x \in Int
  PROVE  x * x \in Nat
<1>1. CASE x >= 0
  BY <1>1
<1>2. CASE x < 0
  <2>1. PICK n \in Nat : x = -n
    BY <1>2
  <2> QED BY <2>1
<1> QED BY <1>1, <1>2

(* The order parameter is one of the numbers that TypeOK gives it. *)
LEMMA OrderIsBounded ==
  ASSUME NEW ph \in [Node -> Phase], NEW S \in SUBSET Node
  PROVE  OrderOf(ph, S) \in 0 .. 201
<1> DEFINE x == SumFunctionOnSet([n \in S |-> Cos[ph[n]]], S)
           y == SumFunctionOnSet([n \in S |-> Cos[(ph[n] - Circle \div 4) % Circle]], S)
           r == 10000 * (x * x + y * y)
           N == Unit * Cardinality(S)
           h == CHOOSE k \in 0 .. 100 :
                  k * k * N * N <= r /\ (k = 100 \/ (k + 1) * (k + 1) * N * N > r)
<1>1. IsFiniteSet(S) /\ Cardinality(S) \in Nat
  BY NodesAreFinite
<1>2. Circle \in Nat \ {0} /\ Unit \in Nat /\ Cos \in [0 .. Circle - 1 -> Int]
  BY LayerAssumption DEF LayerAssumption
<1>3. x \in Int
  <2>1. \A n \in S : [m \in S |-> Cos[ph[m]]][n] \in Int
    BY <1>2 DEF Phase
  <2> QED BY <1>1, <2>1, SumType
<1>4. y \in Int
  <2>1. ASSUME NEW n \in S PROVE (ph[n] - Circle \div 4) % Circle \in 0 .. Circle - 1
    <3>1. PICK q \in Int : q = Circle \div 4
      BY <1>2
    <3>2. ph[n] \in Int
      BY <1>2 DEF Phase
    <3> QED BY <1>2, <3>1, <3>2
  <2>2. \A n \in S : [m \in S |-> Cos[(ph[m] - Circle \div 4) % Circle]][n] \in Int
    BY <1>2, <2>1
  <2> QED BY <1>1, <2>2, SumType
<1> HIDE DEF x, y
<1>5. r \in Nat /\ N \in Nat
  <2>1. x * x \in Nat /\ y * y \in Nat
    BY <1>3, <1>4, SquareIsNat
  <2> QED BY <1>1, <1>2, <2>1
<1> HIDE DEF r, N
<1>6. h \in 0 .. 100
  BY <1>5, HundredthsExist
<1> HIDE DEF h
<1>7. OrderOf(ph, S) = IF S = {} THEN 0 ELSE IF h * h * N * N = r THEN 2 * h ELSE 2 * h + 1
  BY DEF OrderOf, x, y, r, N, h
<1> QED BY <1>6, <1>7

LEMMA MindIsState ==
  ASSUME NEW r, NEW S
  PROVE  MindState(r, S) \in {"idle", "coherent", "converging", "transitioning", "chaotic"}
BY DEF MindState

LEMMA StepKeepsLayer ==
  ASSUME LayerTypeOK, Step
  PROVE  LayerTypeOK'
<1>1. PICK move \in Moves :
        /\ phase' = Evolved(move)
        /\ order' = OrderOf(phase', members)
        /\ mind' = MindState(order', members)
        /\ outOfPhase' = IF Cardinality(members) < 2 THEN {} ELSE Strays(phase', members)
  BY Zenon DEF Step
<1>2. UNCHANGED <<members, links>>
  BY DEF Step
<1>3. phase' \in [Node -> Phase]
  <2>1. Circle \in Nat \ {0} /\ move \in [Node -> Int]
    BY LayerAssumption DEF LayerAssumption
  <2>2. ASSUME NEW n \in Node
        PROVE  (IF n \in members THEN (phase[n] + move[n]) % Circle ELSE 0) \in Phase
    <3>1. phase[n] \in Int
      BY <2>1 DEF LayerTypeOK, Phase
    <3>2. (phase[n] + move[n]) % Circle \in 0 .. Circle - 1
      BY <2>1, <3>1
    <3> QED BY <2>1, <3>2 DEF Phase
  <2> QED BY <1>1, <2>2 DEF Evolved
<1>4. order' \in 0 .. 201
  BY <1>1, <1>3, OrderIsBounded DEF LayerTypeOK
<1>5. mind' \in {"idle", "coherent", "converging", "transitioning", "chaotic"}
  BY <1>1, MindIsState
<1>6. outOfPhase' \subseteq Node
  BY <1>1 DEF Strays, LayerTypeOK
<1> QED BY <1>2, <1>3, <1>4, <1>5, <1>6 DEF LayerTypeOK

(* What a call puts aside can be put back: gains between those of the        *)
(* decision engine, and phases.                                             *)
Between(g) == g \in Gains /\ \A x \in {"coupling", "damping"} : g[x] \in MinGain[x] .. MaxGain[x]

Aside(x) ==
  /\ x \in [gain : Gains, phase : [Node -> Phase], order : 0 .. 201]
  /\ Between(x.gain)

LEMMA LayerStays ==
  ASSUME LayerTypeOK, Aside(saved), [Next]_vars
  PROVE  LayerTypeOK'
<1>0. 0 \in Phase
  BY LayerAssumption DEF LayerAssumption, Phase
<1>1. CASE UNCHANGED layer
  BY <1>1 DEF layer, LayerTypeOK
<1>2. CASE Restore
  BY <1>0, <1>2 DEF Restore, Aside, LayerTypeOK
<1>3. CASE Step
  BY <1>3, StepKeepsLayer
<1>4. CASE NewNetwork
  <2>1. Starts \subseteq [Node -> Phase]
    BY LayerAssumption DEF LayerAssumption, Phase
  <2> QED BY <1>4, <2>1, WiringsLinkNodes DEF NewNetwork, LayerTypeOK
<1>5. ASSUME NEW n \in Node, NEW p \in Phase, AddNode(n, p) PROVE LayerTypeOK'
  <2>1. Both({<<n, m>> : m \in members}) \subseteq Node \X Node
    <3>1. {<<n, m>> : m \in members} \subseteq Node \X Node
      BY DEF LayerTypeOK
    <3> QED BY <3>1, BothLinkNodes
  <2> QED BY <1>5, <2>1 DEF AddNode, LayerTypeOK
<1>6. ASSUME NEW gone, RemoveNodes(gone) PROVE LayerTypeOK'
  BY <1>0, <1>6 DEF RemoveNodes, LayerTypeOK
<1> QED
  BY <1>1, <1>2, <1>3, <1>4, <1>5, <1>6, NextMovesNetwork, Zenon DEF NetworkMoves

ControlTyped ==
  /\ Between(gain) /\ declared \in Gains
  /\ mode \in {"idle", "loop", "decide", "simulate", "supervise", "live", "replay",
               "drop", "drops", "cascade", "fall"}
  /\ Aside(saved)
  /\ proposal \in Proposal
  /\ samples \in 0 .. Enough
  /\ {count, done, taken, limit, calls} \subseteq Nat
  /\ failed \subseteq Node

LEMMA GainNumbers ==
  /\ \A g \in {StartGain, MinGain, MaxGain, LoopGain, SupervisorMin, SupervisorMax,
               SupervisorUp, SupervisorDown} :
       g \in Gains /\ g.coupling \in Nat /\ g.damping \in Nat
  /\ \A x \in {"coupling", "damping"} :
       /\ MinGain[x] <= StartGain[x] /\ StartGain[x] <= MaxGain[x]
       /\ MinGain[x] <= SupervisorMin[x] /\ SupervisorMin[x] <= SupervisorMax[x]
       /\ SupervisorMax[x] <= MaxGain[x]
BY ControlAssumption DEF ControlAssumption, Gains

(* Gains set one by one. *)
LEMMA GainsAreTwo ==
  ASSUME NEW k \in Nat, NEW d \in Nat,
         MinGain.coupling <= k, k <= MaxGain.coupling, MinGain.damping <= d, d <= MaxGain.damping,
         NEW g \in Gains, g.coupling = k, g.damping = d
  PROVE  Between(g)
BY GainNumbers DEF Between

LEMMA BetweenGives ==
  ASSUME NEW g, Between(g)
  PROVE  /\ g \in Gains /\ g.coupling \in Nat /\ g.damping \in Nat
         /\ MinGain.coupling <= g.coupling /\ g.coupling <= MaxGain.coupling
         /\ MinGain.damping <= g.damping /\ g.damping <= MaxGain.damping
BY GainNumbers DEF Between, Gains

(* A decision keeps the gains between its limits. *)
LEMMA EnactedIsBetween ==
  ASSUME Between(gain), NEW b \in Proposal
  PROVE  Between(Enacted(b))
<1>1. /\ gain \in Gains /\ gain.coupling \in Nat /\ gain.damping \in Nat
      /\ MinGain.coupling <= gain.coupling /\ gain.coupling <= MaxGain.coupling
      /\ MinGain.damping <= gain.damping /\ gain.damping <= MaxGain.damping
  BY BetweenGives
<1>2. /\ MinGain.coupling \in Nat /\ MaxGain.coupling \in Nat /\ LoopGain.coupling \in Nat
      /\ MinGain.damping \in Nat /\ MaxGain.damping \in Nat /\ LoopGain.damping \in Nat
  BY GainNumbers
<1>3. ASSUME NEW x \in {"coupling", "damping"}
      PROVE  Between(Up(x, LoopGain[x])) /\ Between(Down(x, LoopGain[x]))
  <2>1. gain[x] \in Nat /\ LoopGain[x] \in Nat /\ MaxGain[x] \in Nat /\ MinGain[x] \in Nat
        /\ MinGain[x] <= gain[x] /\ gain[x] <= MaxGain[x]
    BY <1>1, <1>2
  <2>2. PICK up \in Nat : up = Min({gain[x] + LoopGain[x], MaxGain[x]})
                          /\ MinGain[x] <= up /\ up <= MaxGain[x]
    <3>1. PICK a \in Nat : a = gain[x] + LoopGain[x]
      BY <2>1
    <3>2. a \in Int /\ MaxGain[x] \in Int
      BY <2>1
    <3>3. Min({a, MaxGain[x]}) \in {a, MaxGain[x]} /\ Min({a, MaxGain[x]}) <= MaxGain[x]
      BY <3>2, LeastOfTwo, Zenon
    <3> QED BY <2>1, <3>1, <3>3
  <2>3. PICK down \in Nat : down = Max({gain[x] - LoopGain[x], MinGain[x]})
                            /\ MinGain[x] <= down /\ down <= MaxGain[x]
    <3>1. PICK a \in Int : a = gain[x] - LoopGain[x]
      BY <2>1
    <3>2. a \in Int /\ MinGain[x] \in Int
      BY <2>1
    <3>3. Max({a, MinGain[x]}) \in {a, MinGain[x]} /\ Max({a, MinGain[x]}) >= MinGain[x]
      BY <3>2, GreatestOfTwo, Zenon
    <3> QED BY <2>1, <3>1, <3>3
  <2>4. Up(x, LoopGain[x]) = [gain EXCEPT ![x] = up]
        /\ Down(x, LoopGain[x]) = [gain EXCEPT ![x] = down]
    BY <1>1, <2>2, <2>3 DEF Up, Down
  <2>5. ASSUME NEW n \in Nat, MinGain[x] <= n, n <= MaxGain[x]
        PROVE  Between([gain EXCEPT ![x] = n])
    <3>1. [gain EXCEPT ![x] = n] \in Gains
      BY <1>1 DEF Gains
    <3>2. CASE x = "coupling"
      BY <1>1, <2>5, <3>1, <3>2, GainsAreTwo DEF Gains
    <3>3. CASE x = "damping"
      BY <1>1, <2>5, <3>1, <3>3, GainsAreTwo DEF Gains
    <3> QED BY <3>2, <3>3
  <2> QED BY <2>2, <2>3, <2>4, <2>5
<1> QED BY <1>3 DEF Enacted

(* So does the supervisor. *)
LEMMA SupervisedIsBetween ==
  ASSUME Between(gain)
  PROVE  Between([g \in {"coupling", "damping"} |-> Supervised(g)])
<1>1. /\ gain \in Gains /\ gain.coupling \in Nat /\ gain.damping \in Nat
      /\ MinGain.coupling <= gain.coupling /\ gain.coupling <= MaxGain.coupling
      /\ MinGain.damping <= gain.damping /\ gain.damping <= MaxGain.damping
  BY BetweenGives
<1>2. ASSUME NEW x \in {"coupling", "damping"}
      PROVE  Supervised(x) \in Nat /\ MinGain[x] <= Supervised(x) /\ Supervised(x) <= MaxGain[x]
  <2>1. /\ gain[x] \in Nat /\ MinGain[x] \in Nat /\ MaxGain[x] \in Nat
        /\ SupervisorMin[x] \in Nat /\ SupervisorMax[x] \in Nat
        /\ SupervisorUp[x] \in Nat /\ SupervisorDown[x] \in Nat
        /\ MinGain[x] <= gain[x] /\ gain[x] <= MaxGain[x]
        /\ MinGain[x] <= SupervisorMin[x] /\ SupervisorMin[x] <= SupervisorMax[x]
        /\ SupervisorMax[x] <= MaxGain[x]
    BY <1>1, GainNumbers
  <2>2. PICK up \in Nat : up = Min({gain[x] + SupervisorUp[x], SupervisorMax[x]})
                          /\ MinGain[x] <= up /\ up <= MaxGain[x]
    <3>1. PICK a \in Nat : a = gain[x] + SupervisorUp[x]
      BY <2>1
    <3>2. a \in Int /\ SupervisorMax[x] \in Int
      BY <2>1
    <3>3. /\ Min({a, SupervisorMax[x]}) \in {a, SupervisorMax[x]}
          /\ Min({a, SupervisorMax[x]}) <= SupervisorMax[x]
      BY <3>2, LeastOfTwo, Zenon
    <3> QED BY <2>1, <3>1, <3>3
  <2>3. PICK down \in Nat : down = Max({gain[x] - SupervisorDown[x], SupervisorMin[x]})
                            /\ MinGain[x] <= down /\ down <= MaxGain[x]
    <3>1. PICK a \in Int : a = gain[x] - SupervisorDown[x]
      BY <2>1
    <3>2. a \in Int /\ SupervisorMin[x] \in Int
      BY <2>1
    <3>3. /\ Max({a, SupervisorMin[x]}) \in {a, SupervisorMin[x]}
          /\ Max({a, SupervisorMin[x]}) >= SupervisorMin[x]
      BY <3>2, GreatestOfTwo, Zenon
    <3> QED BY <2>1, <3>1, <3>3
  <2> QED BY <2>1, <2>2, <2>3 DEF Supervised
<1>3. [g \in {"coupling", "damping"} |-> Supervised(g)] \in Gains
  <2> DEFINE f == [g \in {"coupling", "damping"} |-> Supervised(g)]
  <2>1. f = [coupling |-> f.coupling, damping |-> f.damping]
    OBVIOUS
  <2>2. f.coupling \in Nat /\ f.damping \in Nat
    BY <1>2
  <2>3. PICK k \in Nat, d \in Nat : k = f.coupling /\ d = f.damping
    BY <2>2
  <2>4. [coupling |-> k, damping |-> d] \in Gains
    BY DEF Gains
  <2> HIDE DEF f
  <2>5. f \in Gains
    BY <2>1, <2>3, <2>4
  <2> QED BY <2>5 DEF f
<1> QED BY <1>2, <1>3 DEF Between

LEMMA CoherenceIsBounded == LayerTypeOK => Coherence \in 0 .. 201
BY OrderIsBounded DEF LayerTypeOK, Coherence

LEMMA NoneIsAside ==
  ASSUME NEW g, Between(g), NEW ph \in [Node -> Phase], NEW r \in 0 .. 201
  PROVE  /\ Aside(None)
         /\ Aside([None EXCEPT !.gain = g])
         /\ Aside([gain |-> g, phase |-> None.phase, order |-> r])
         /\ Aside([gain |-> g, phase |-> ph, order |-> 0])
<1>1. Between(StartGain)
  BY GainNumbers DEF Between
<1>2. [n \in Node |-> 0] \in [Node -> Phase]
  BY LayerAssumption DEF LayerAssumption, Phase
<1>3. PICK zeros \in [Node -> Phase] : zeros = [n \in Node |-> 0]
  BY <1>2
<1>4. g \in Gains /\ StartGain \in Gains
  BY <1>1 DEF Between
<1>5. None = [gain |-> StartGain, phase |-> zeros, order |-> 0]
  BY <1>3 DEF None
<1>6. ASSUME NEW x \in Gains, Between(x), NEW y \in [Node -> Phase], NEW z \in 0 .. 201
      PROVE  Aside([gain |-> x, phase |-> y, order |-> z])
  BY <1>6 DEF Aside
<1>7. [None EXCEPT !.gain = g] = [gain |-> g, phase |-> zeros, order |-> 0] /\ None.phase = zeros
  BY <1>5
<1>8. 0 \in 0 .. 201
  OBVIOUS
<1>9. Aside([gain |-> StartGain, phase |-> zeros, order |-> 0])
  BY <1>1, <1>4, <1>6, <1>8, Zenon
<1>10. /\ Aside([gain |-> g, phase |-> zeros, order |-> 0])
       /\ Aside([gain |-> g, phase |-> zeros, order |-> r])
       /\ Aside([gain |-> g, phase |-> ph, order |-> 0])
  BY <1>4, <1>6, <1>8, Zenon
<1> QED BY <1>5, <1>7, <1>9, <1>10, Zenon

LEMMA LeastIsSample ==
  ASSUME samples \in 0 .. Enough
  PROVE  Sampled \in 0 .. Enough
<1>1. Enough \in Nat /\ samples + 1 \in Int /\ Enough \in Int
  BY ControlAssumption DEF ControlAssumption
<1>2. Min({samples + 1, Enough}) \in {samples + 1, Enough} /\ Min({samples + 1, Enough}) <= Enough
  BY <1>1, LeastOfTwo, Zenon
<1> QED BY <1>1, <1>2 DEF Sampled

(* The best of the proposals is one. *)
LEMMA BestIsProposal ==
  ASSUME LayerTypeOK, NEW p, NEW b \in Best(p)
  PROVE  b \in Proposal
<1>1. 0 \in Node
  BY LayerAssumption DEF LayerAssumption, Node
<1>2. Strays(phase, members) \subseteq Node
  BY DEF Strays, LayerTypeOK
<1>3. Propose("reconfigure_topology") \subseteq Proposal /\ Propose("increase_coupling") \subseteq Proposal
  BY <1>1 DEF Propose, Proposal
<1>4. Propose("increase_damping") \subseteq Proposal /\ Propose("no_action") \subseteq Proposal
  BY <1>1 DEF Propose, Proposal
<1>5. \A strays \in SUBSET Node : [action : {"isolate_node"}, target : strays] \subseteq Proposal
  BY DEF Proposal
<1> QED BY <1>2, <1>3, <1>4, <1>5 DEF Best

(* A call begins and returns. *)
LEMMA CallsKeepTypes ==
  ASSUME ControlTyped
  PROVE  /\ \A m : Call(m) => mode' = m /\ calls' \in Nat /\ count' \in Nat
         /\ Return => mode' = "idle" /\ Aside(saved') /\ count' \in Nat
<1>1. Aside(None)
  <2>1. PICK ph \in [Node -> Phase] : TRUE
    BY DEF ControlTyped, Aside
  <2>2. 0 \in 0 .. 201
    OBVIOUS
  <2> QED BY <2>1, <2>2, NoneIsAside DEF ControlTyped
<1> QED BY <1>1 DEF Call, Return, ControlTyped

LEMMA ControlStays ==
  ASSUME LayerTypeOK, ControlTyped, [Next]_vars
  PROVE  ControlTyped'
<1>0. /\ \A m : Call(m) => mode' = m /\ calls' \in Nat /\ count' \in Nat
      /\ Return => mode' = "idle" /\ Aside(saved') /\ count' \in Nat
  BY CallsKeepTypes
<1>a. /\ \A b \in Proposal : Between(Enacted(b))
      /\ gain \in Gains
      /\ Coherence \in 0 .. 201
  BY EnactedIsBetween, CoherenceIsBounded DEF ControlTyped, Between
<1>b. Aside([None EXCEPT !.gain = gain])
      /\ Aside([gain |-> gain, phase |-> None.phase, order |-> Coherence])
      /\ Aside([gain |-> gain, phase |-> phase, order |-> 0]) /\ Aside(None)
  <2>1. Between(gain) /\ phase \in [Node -> Phase]
    BY DEF ControlTyped, LayerTypeOK
  <2> QED BY <1>a, <2>1, NoneIsAside
<1>c. ASSUME UNCHANGED <<gain, declared, mode, saved, proposal, samples, failed>>,
             {count', done', taken', limit', calls'} \subseteq Nat
      PROVE  ControlTyped'
  BY <1>c DEF ControlTyped, Aside, Between
<1>1. CASE UNCHANGED vars \/ Idle
  BY <1>1 DEF vars, Idle, control, ControlTyped, Aside, Between
<1>2. CASE Rebuild \/ \E n \in Node, p \in Phase : Join(n, p)
  BY <1>0, <1>2 DEF Rebuild, Join, ControlTyped, Aside, Between
<1>3. ASSUME NEW b \in Proposal, ApplyAction(b) PROVE ControlTyped'
  <2>1. gain' = Enacted(b) /\ declared' = Enacted(b)
    BY <1>3 DEF ApplyAction
  <2>2. Between(gain)' /\ declared' \in Gains
    BY <1>a, <2>1 DEF Between
  <2>3. mode' = "idle" /\ calls' \in Nat /\ count' \in Nat
    BY <1>0, <1>3 DEF ApplyAction
  <2>4. UNCHANGED <<done, saved, proposal, samples, taken, failed, limit>>
    BY <1>3 DEF ApplyAction
  <2> QED BY <2>2, <2>3, <2>4 DEF ControlTyped, Aside, Between
<1>4. CASE StartLoop
  BY <1>0, <1>4 DEF StartLoop, ControlTyped, Aside, Between
<1>5. CASE LoopStep
  BY <1>5 DEF LoopStep, ControlTyped, Aside, Between
<1>6. CASE Decide
  <2>0. PICK p : \E b \in Best(p) :
          IF b.action = "no_action"
            THEN mode' = "loop" /\ UNCHANGED <<layer, gain, count, done, saved, proposal>>
            ELSE Try(b)
    BY <1>6, Zenon DEF Decide
  <2>1. PICK b \in Best(p) :
          \/ mode' = "loop" /\ UNCHANGED <<layer, gain, count, done, saved, proposal>>
          \/ Try(b)
    BY <2>0
  <2>2. samples' \in 0 .. Enough /\ UNCHANGED <<taken, failed, limit, declared, calls>>
    BY <1>6, LeastIsSample DEF Decide, ControlTyped
  <2>3. CASE mode' = "loop" /\ UNCHANGED <<layer, gain, count, done, saved, proposal>>
    BY <2>2, <2>3 DEF ControlTyped, Aside, Between
  <2>4. CASE Try(b)
    <3>1. b \in Proposal
      BY <2>1, BestIsProposal
    <3>2. /\ mode' = "simulate" /\ proposal' = b /\ done' = count /\ count' = 0
          /\ gain' = Enacted(b)
          /\ saved' = [gain |-> gain, phase |-> None.phase, order |-> Coherence]
      BY <2>4 DEF Try
    <3>3. Between(gain') /\ Aside(saved')
      BY <1>a, <1>b, <3>1, <3>2
    <3> QED BY <2>2, <3>1, <3>2, <3>3 DEF ControlTyped, Aside, Between
  <2> QED BY <2>1, <2>3, <2>4
<1>7. CASE SimulationStep
  BY <1>7 DEF SimulationStep, ControlTyped, Aside, Between
<1>8. CASE Judge
  <2>1. \/ gain' = gain /\ declared' = gain /\ taken' = taken + 1
        \/ gain' = saved.gain /\ UNCHANGED <<taken, declared>>
    <3>1. CASE Improvement > 2
      BY <1>8, <3>1, Zenon DEF Judge
    <3>2. CASE ~(Improvement > 2)
      BY <1>8, <3>2, Zenon DEF Judge
    <3> QED BY <3>1, <3>2, Zenon
  <2>2. /\ mode' = "loop" /\ count' = done /\ saved' = None
        /\ UNCHANGED <<done, proposal, samples, failed, limit, calls>>
    BY <1>8 DEF Judge
  <2>3. Between(gain') /\ declared' \in Gains /\ taken' \in Nat
    BY <1>a, <2>1 DEF ControlTyped, Aside
  <2>4. Aside(saved')
    BY <1>b, <2>2
  <2> QED BY <2>2, <2>3, <2>4 DEF ControlTyped, Aside, Between
<1>9. CASE EndLoop \/ EndReplay
  <2>1. mode' = "idle" /\ Aside(saved') /\ count' \in Nat
    BY <1>0, <1>9 DEF EndLoop, EndReplay
  <2>2. UNCHANGED <<gain, done, proposal, samples, taken, failed, limit, declared, calls>>
    BY <1>9 DEF EndLoop, EndReplay
  <2> QED BY <2>1, <2>2 DEF ControlTyped, Aside, Between
<1>10. CASE StartSupervisor \/ StartReplay
  <2>1. mode' \in {"supervise", "live"} /\ calls' \in Nat /\ count' \in Nat
    BY <1>0, <1>10 DEF StartSupervisor, StartReplay
  <2>2. Aside(saved')
    BY <1>b, <1>10 DEF StartSupervisor, StartReplay
  <2>3. UNCHANGED <<gain, done, proposal, samples, taken, failed, limit, declared>>
    BY <1>10 DEF StartSupervisor, StartReplay
  <2> QED BY <2>1, <2>2, <2>3 DEF ControlTyped, Aside, Between
<1>11. CASE SuperviseStep
  <2>1. Between(gain')
    BY <1>11, SupervisedIsBetween DEF SuperviseStep, ControlTyped
  <2>2. /\ count' = count + 1
        /\ UNCHANGED <<mode, done, saved, proposal, samples, taken, failed, limit, declared, calls>>
    BY <1>11 DEF SuperviseStep
  <2> QED BY <2>1, <2>2 DEF ControlTyped, Aside, Between
<1>12. CASE EndSupervisor
  <2>1. mode' = "idle" /\ Aside(saved') /\ count' \in Nat
    BY <1>0, <1>12 DEF EndSupervisor
  <2>2. Between(gain')
    BY <1>12 DEF EndSupervisor, ControlTyped, Aside
  <2>3. UNCHANGED <<done, proposal, samples, taken, failed, limit, declared, calls>>
    BY <1>12 DEF EndSupervisor
  <2> QED BY <2>1, <2>2, <2>3 DEF ControlTyped, Aside, Between
<1>13. CASE ReplayStep
  BY <1>13 DEF ReplayStep, ControlTyped, Aside, Between
<1>14. CASE Restore
  <2>1. Between(gain')
    BY <1>14 DEF Restore, ControlTyped, Aside
  <2>2. /\ mode' = "replay" /\ count' = 0
        /\ UNCHANGED <<done, saved, proposal, samples, taken, failed, limit, declared, calls>>
    BY <1>14 DEF Restore
  <2> QED BY <2>1, <2>2 DEF ControlTyped, Aside, Between
<1>15. ASSUME NEW gone \in SUBSET Node, Drop(gone) PROVE ControlTyped'
  <2>1. mode' \in {"drop", "drops"} /\ calls' \in Nat /\ count' \in Nat
    BY <1>0, <1>15 DEF Drop
  <2>2. UNCHANGED <<gain, done, saved, proposal, samples, taken, failed, limit, declared>>
    BY <1>15 DEF Drop
  <2> QED BY <2>1, <2>2 DEF ControlTyped, Aside, Between
<1>16. CASE DropStep
  <2>1. \/ mode' = "idle" /\ Aside(saved') /\ count' \in Nat
        \/ count' = count + 1 /\ UNCHANGED <<mode, saved>>
    BY <1>0, <1>16 DEF DropStep
  <2>2. UNCHANGED <<gain, done, proposal, samples, taken, failed, limit, declared, calls>>
    BY <1>16 DEF DropStep
  <2> QED BY <2>1, <2>2 DEF ControlTyped, Aside, Between
<1>17. ASSUME NEW first \in SUBSET members, NEW most \in Limits, StartCascade(first, most)
       PROVE  ControlTyped'
  <2>1. mode' = "cascade" /\ calls' \in Nat /\ count' \in Nat
    BY <1>0, <1>17 DEF StartCascade
  <2>2. failed' \in SUBSET Node /\ limit' \in Nat
    BY <1>17, ControlAssumption DEF StartCascade, LayerTypeOK, ControlAssumption
  <2>3. UNCHANGED <<gain, done, saved, proposal, samples, taken, declared>>
    BY <1>17 DEF StartCascade
  <2> QED BY <2>1, <2>2, <2>3 DEF ControlTyped, Aside, Between
<1>18. CASE CascadeStep
  BY <1>18 DEF CascadeStep, ControlTyped, Aside, Between
<1>19. CASE Fall
  <2>1. failed' \in SUBSET Node
    <3>1. failed' = failed \/ \E gone \in SUBSET outOfPhase : failed' = failed \union gone
      BY <1>19 DEF Fall, kSubset
    <3> QED BY <3>1 DEF ControlTyped, LayerTypeOK
  <2>2. \/ mode' = "idle" /\ Aside(saved') /\ count' \in Nat
        \/ mode' = "cascade" /\ UNCHANGED <<count, saved>>
    BY <1>0, <1>19 DEF Fall
  <2>3. UNCHANGED <<gain, done, proposal, samples, taken, limit, declared, calls>>
    BY <1>19 DEF Fall
  <2> QED BY <2>1, <2>2, <2>3 DEF ControlTyped, Aside, Between
<1> QED
  BY <1>1, <1>2, <1>3, <1>4, <1>5, <1>6, <1>7, <1>8, <1>9, <1>10, <1>11, <1>12, <1>13, <1>14,
     <1>15, <1>16, <1>17, <1>18, <1>19, Zenon DEF Next

(* The layer and the calls that drive it keep their types, and the gains stay *)
(* between those that the decision engine is given, which the supervisor, a  *)
(* simulation and a replay might take them out of.                          *)
THEOREM TypeCorrect == Spec => []TypeOK
<1>1. Init => LayerTypeOK /\ ControlTyped
  <2> SUFFICES ASSUME Init PROVE LayerTypeOK /\ ControlTyped
    OBVIOUS
  <2>1. 0 \in Node /\ [n \in Node |-> 0] \in [Node -> Phase] /\ 0 \in 0 .. 201
        /\ Starts \subseteq [Node -> Phase]
    BY LayerAssumption DEF LayerAssumption, Node, Phase
  <2>2. LayerTypeOK
    BY <2>1, WiringsLinkNodes DEF Init, LayerInit, LayerTypeOK
  <2>3. Between(StartGain)
    BY GainNumbers DEF Between
  <2>4. Aside(None)
    BY <2>1, <2>3, NoneIsAside
  <2>5. proposal \in Proposal /\ 0 \in 0 .. Enough
    BY <2>1, ControlAssumption DEF Init, Proposal, ControlAssumption
  <2>6. ControlTyped
    BY <2>3, <2>4, <2>5 DEF Init, ControlTyped, Between
  <2> QED BY <2>2, <2>6
<1>2. LayerTypeOK /\ ControlTyped /\ [Next]_vars => LayerTypeOK' /\ ControlTyped'
  BY LayerStays, ControlStays DEF ControlTyped
<1>3. LayerTypeOK /\ ControlTyped => TypeOK
  BY DEF ControlTyped, Aside, Between, TypeOK
<1> QED BY <1>1, <1>2, <1>3, PTL DEF Spec
=============================================================================
