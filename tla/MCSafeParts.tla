----------------------------- MODULE MCSafeParts -----------------------------
(* Small instances of six parts that share nothing: the calls that drive the *)
(* wave layer, a search for a route, the pulse mesh with its failure         *)
(* detector, the local evolution loop, the star memory, and the healing of a *)
(* bubble.  In a behaviour one of them moves, the others rest.               *)
EXTENDS MCWaveControl, NetworkPart, LocalParts

VARIABLE part

\* Calm, unstable, costly, costly beyond use, and out of phase.
FewStates ==
  {[stability |-> 750, energy |-> 420,  phaseError |-> 120],
   [stability |-> 450, energy |-> 420,  phaseError |-> 120],
   [stability |-> 750, energy |-> 1200, phaseError |-> 120],
   [stability |-> 750, energy |-> 9000, phaseError |-> 120],
   [stability |-> 750, energy |-> 420,  phaseError |-> 700]}

OneEnd == {<<2, 1>>}

FullMesh == [n \in Peer |-> Peer \ {n}]
TwoPhases == {0, Turn \div 2}

\* The default numbers, and smaller clusters, but one.
TwoClusterings == {<<5, 3>>, <<1, 2>>}

Bands == <<5, 50, 300, 26000000>>

all == <<part, vars, network, search, evolution, guide, healing>>

\* A part that rests: one state for each.
NoControl == links = Complete(Size) /\ phase = [n \in Node |-> 0]
NoSearch ==
  /\ delay = {} /\ bundle = {} /\ angle = {} /\ distance = {} /\ before = {} /\ queue = {}
  /\ source = 0 /\ target = 0
  /\ path = <<>> /\ place = "rest"
NoHealing == spot = 0

PartsInit ==
  /\ part \in {"control", "routing", "network", "evolution", "memory", "healing"}
  /\ Init /\ (part # "control" => NoControl)
  /\ IF part = "routing" THEN Router!Init ELSE NoSearch
  /\ Network!Init /\ Loop!Init /\ Guide!Init
  /\ Healer!Init /\ (part # "healing" => NoHealing)

PartsNext ==
  /\ UNCHANGED part
  /\ \/ part = "control"   /\ Next         /\ UNCHANGED <<search, network, evolution, guide, healing>>
     \/ part = "routing"   /\ Router!Next  /\ UNCHANGED <<vars, network, evolution, guide, healing>>
     \/ part = "network"   /\ Network!Next /\ UNCHANGED <<vars, search, evolution, guide, healing>>
     \/ part = "evolution" /\ Loop!Next    /\ UNCHANGED <<vars, search, network, guide, healing>>
     \/ part = "memory"    /\ Guide!Next   /\ UNCHANGED <<vars, search, network, evolution, healing>>
     \/ part = "healing"   /\ Healer!Next  /\ UNCHANGED <<vars, search, network, evolution, guide>>

PartsSpec == PartsInit /\ [][PartsNext]_all

Symmetric == Permutations(Peer)
=============================================================================
