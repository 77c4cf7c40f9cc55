----------------------------- MODULE MCFairParts -----------------------------
(* Small instances of three parts that share nothing, and whose promises are *)
(* about what happens in the end: the gateway, the failure detector alone    *)
(* and the gossip mesh.  In a behaviour one of them moves, the others rest.  *)
EXTENDS ListenerPipeline, DetectorPart, TLC

CONSTANTS
  r1, r2, r3,                                       \* gateway
  a, b, c, Payload, SeenLimit, MaxClock, MaxPulses  \* mesh

VARIABLES
  part,
  beat, running, seen, net, heard, sent, pulses

mesh == <<beat, running, seen, net, heard, sent, pulses>>
all  == <<part, vars, detector, mesh>>

(* A remainder, a full batch, a single event. *)
Sizes == (r1 :> 5) @@ (r2 :> 2) @@ (r3 :> 1)

(* Phases on either side of the turn. *)
FewPhases == {0, 1, Turn \div 2, Turn - 1}

(* A ring of one direction: only relaying gets a pulse to the third node.    *)
Mesh == INSTANCE WaveGossip WITH
  Node <- {a, b, c}, Peers <- (a :> {b}) @@ (b :> {c}) @@ (c :> {a}), Lossy <- FALSE,
  clock <- beat

PartsInit ==
  /\ part \in {"gateway", "detector", "mesh"}
  /\ Init /\ Detector!Init /\ Mesh!Init

PartsNext ==
  /\ UNCHANGED part
  /\ \/ part = "gateway"  /\ Next          /\ UNCHANGED <<detector, mesh>>
     \/ part = "detector" /\ Detector!Next /\ UNCHANGED <<vars, mesh>>
     \/ part = "mesh"     /\ Mesh!Next     /\ UNCHANGED <<vars, detector>>

(* The fairness of the three. *)
PartsSpec ==
  /\ PartsInit /\ [][PartsNext]_all
  /\ \A r \in Request : WF_vars(part = "gateway" /\ Posted(r))
                        /\ WF_vars(part = "gateway" /\ Answer(r))
  /\ WF_vars(part = "gateway" /\ Mine)
  /\ WF_vars(part = "gateway" /\ Write)
  /\ WF_detector(part = "detector" /\ Detector!Tick)
  /\ \A n \in {a, b, c} : WF_mesh(part = "mesh" /\ Mesh!Receive(n)) /\ [](running[n])

(* _process_message: a flood dies out whatever the cycles of the peers. *)
FloodEnds == Mesh!FloodEnds

(* _process_message: without loss every node gets a pulse of every source    *)
(* and tick that sent.                                                      *)
PulseReachesAll == Mesh!PulseReachesAll
=============================================================================
