---------------------------- MODULE RhythmProofs ----------------------------
(***************************************************************************)
(* The failure detector and the pulse mesh, for any nodes, circle, window  *)
(* and peers: types of the two together, what ends the death of a node,    *)
(* and, of the manager alone, on one thread, what alive means and that     *)
(* healing heals.                                                          *)
(***************************************************************************)
EXTENDS NetworkPart, Integers, TLAPS

-----------------------------------------------------------------------------
(* Arithmetic on the circle. *)

LEMMA ModRange ==
  ASSUME NEW C \in Nat \ {0}, NEW x \in Int
  PROVE  x % C \in 0 .. C - 1
  OBVIOUS

(* The remainder is the only number of the circle a whole turn or none away. *)
LEMMA ModIs ==
  ASSUME NEW C \in Nat \ {0}, NEW x \in Int, NEW r \in 0 .. C - 1,
         x \in {r - C, r, r + C}
  PROVE  x % C = r
<1>1. r % C = r /\ (r + C) % C = r /\ (r - C) % C = r
  OBVIOUS
<1> QED
  BY <1>1

(* The way round that is shorter. *)
LEMMA WayRange ==
  ASSUME Detector!FaultAssumption, NEW p \in Detector!Phase, NEW q \in Detector!Phase
  PROVE  LET w == Detector!Way(p, q)
         IN  /\ w \in Int /\ -Turn < 2 * w /\ 2 * w <= Turn
             /\ q - p \in {w - Turn, w, w + Turn}
<1>1. Turn \in Nat \ {0}
  BY DEF Detector!FaultAssumption
<1>2. p \in 0 .. Turn - 1 /\ q \in 0 .. Turn - 1
  BY DEF Detector!Phase
<1>3. PICK d : d = (q - p) % Turn
  OBVIOUS
<1>4. d \in 0 .. Turn - 1
  BY <1>1, <1>2, <1>3, ModRange
<1>5. d = IF q - p >= 0 THEN q - p ELSE q - p + Turn
  <2>1. PICK e : e = IF q - p >= 0 THEN q - p ELSE q - p + Turn
    OBVIOUS
  <2>2. e \in 0 .. Turn - 1 /\ q - p \in {e - Turn, e, e + Turn} /\ q - p \in Int
    BY <1>1, <1>2, <2>1
  <2> QED
    BY <1>1, <1>3, <2>1, <2>2, ModIs
<1>6. Detector!Way(p, q) = IF 2 * d > Turn THEN d - Turn ELSE d
  BY <1>3 DEF Detector!Way
<1> QED
  BY <1>1, <1>2, <1>4, <1>5, <1>6

(* A step c that goes the way, and not past its end, leaves the rest of it.  *)
LEMMA WayAfter ==
  ASSUME Detector!FaultAssumption, NEW p \in Detector!Phase, NEW q \in Detector!Phase,
         NEW c \in Int,
         LET w == Detector!Way(p, q) IN (0 <= c /\ c <= w) \/ (w <= c /\ c <= 0)
  PROVE  Detector!Way((p + c) % Turn, q) = Detector!Way(p, q) - c
<1>1. PICK w : w = Detector!Way(p, q)
  OBVIOUS
<1>2. /\ w \in Int /\ -Turn < 2 * w /\ 2 * w <= Turn
      /\ q - p \in {w - Turn, w, w + Turn}
  BY <1>1, WayRange
<1>3. (0 <= c /\ c <= w) \/ (w <= c /\ c <= 0)
  BY <1>1, <1>2
<1>4. Turn \in Nat \ {0} /\ p \in 0 .. Turn - 1 /\ q \in 0 .. Turn - 1
  BY DEF Detector!FaultAssumption, Detector!Phase
<1>5. PICK h : h = (p + c) % Turn
  OBVIOUS
<1>6. h = IF p + c < 0 THEN p + c + Turn ELSE IF p + c >= Turn THEN p + c - Turn ELSE p + c
  <2>1. PICK e : e = IF p + c < 0 THEN p + c + Turn
                     ELSE IF p + c >= Turn THEN p + c - Turn ELSE p + c
    OBVIOUS
  <2>2. e \in 0 .. Turn - 1 /\ p + c \in {e - Turn, e, e + Turn} /\ p + c \in Int
    BY <1>2, <1>3, <1>4, <2>1
  <2> QED
    BY <1>4, <1>5, <2>1, <2>2, ModIs
<1>7. PICK r : r = IF w - c < 0 THEN w - c + Turn ELSE w - c
  OBVIOUS
<1>8. r \in 0 .. Turn - 1 /\ h \in 0 .. Turn - 1 /\ q - h \in {r - Turn, r, r + Turn}
  BY <1>2, <1>3, <1>4, <1>6, <1>7
<1>9. (q - h) % Turn = r
  BY <1>4, <1>8, ModIs
<1>10. Detector!Way(h, q) = IF 2 * r > Turn THEN r - Turn ELSE r
  BY <1>9 DEF Detector!Way
<1>11. Detector!Way(h, q) = w - c
  BY <1>2, <1>3, <1>4, <1>7, <1>10
<1> QED
  BY <1>1, <1>5, <1>11

(* The healer rounds a third of the way to a step of at least one unit,      *)
(* unless the way is one unit or none.                                      *)
LEMMA CorrectionGoesTheWay ==
  ASSUME NEW w \in Int
  PROVE  LET c == Detector!Correction(w)
         IN  /\ c \in Int
             /\ w >= 2 => 1 <= c /\ c <= w
             /\ w <= -2 => w <= c /\ c <= -1
  BY DEF Detector!Correction, Detector!HealingSteps

(* A node that is more than one unit away is nearer when it was healed.      *)
LEMMA HealedIsNearer ==
  ASSUME Detector!FaultAssumption, Tolerance >= 1,
         NEW p \in Detector!Phase, NEW q \in Detector!Phase, ~Detector!Aligned(p, q)
  PROVE  Detector!Distance(Detector!Healed(p, q), q) < Detector!Distance(p, q)
<1>1. PICK w : w = Detector!Way(p, q)
  OBVIOUS
<1>2. w \in Int
  BY <1>1, WayRange
<1>3. PICK c : c = Detector!Correction(w)
  OBVIOUS
<1>4. w >= 2 \/ w <= -2
  BY <1>1, <1>2 DEF Detector!Aligned, Detector!Distance, Detector!FaultAssumption
<1>5. /\ c \in Int
      /\ w >= 2 => 1 <= c /\ c <= w
      /\ w <= -2 => w <= c /\ c <= -1
  BY <1>2, <1>3, CorrectionGoesTheWay
<1>6. Detector!Way((p + c) % Turn, q) = w - c
  BY <1>1, <1>4, <1>5, <1>2, WayAfter
<1>7. Detector!Healed(p, q) = (p + c) % Turn
  BY <1>1, <1>3 DEF Detector!Healed
<1>8. Detector!Distance(Detector!Healed(p, q), q) = IF w - c < 0 THEN -(w - c) ELSE w - c
  BY <1>6, <1>7 DEF Detector!Distance
<1>9. Detector!Distance(p, q) = IF w < 0 THEN -w ELSE w
  BY <1>1 DEF Detector!Distance
<1> QED
  BY <1>2, <1>4, <1>5, <1>8, <1>9

-----------------------------------------------------------------------------
(* Types of the manager. *)

LEMMA StatusChanges ==
  ASSUME Network!Manager!TypeOK, NEW n \in Peer, NEW s \in Network!Manager!Status,
         status' = [status EXCEPT ![n] = s]
  PROVE  /\ status' \in [Peer -> Network!Manager!Status \union {"unknown"}]
         /\ Network!Manager!Known' = Network!Manager!Known \union {n}
BY DEF Network!Manager!TypeOK, Network!Manager!Status, Network!Manager!Known

LEMMA LaterType ==
  ASSUME Network!Manager!FaultAssumption, NEW k \in Network!Manager!Ticks
  PROVE  Network!Manager!Later(k) \in Network!Manager!Ticks
BY DEF Network!Manager!FaultAssumption, Network!Manager!Ticks, Network!Manager!Later

LEMMA HealedType ==
  ASSUME Network!Manager!FaultAssumption, NEW p \in Network!Manager!Phase,
         NEW q \in Network!Manager!Phase
  PROVE  Network!Manager!Healed(p, q) \in Network!Manager!Phase
<1>1. PICK w : w = Network!Manager!Way(p, q)
  OBVIOUS
<1>2. w \in Int
  <2>1. Turn \in Nat \ {0} /\ p \in Int /\ q \in Int
    BY DEF Network!Manager!FaultAssumption, Network!Manager!Phase
  <2>2. PICK d : d = (q - p) % Turn
    OBVIOUS
  <2>3. d \in 0 .. Turn - 1
    BY <2>1, <2>2, ModRange
  <2>4. w = IF 2 * d > Turn THEN d - Turn ELSE d
    BY <1>1, <2>2 DEF Network!Manager!Way
  <2> QED
    BY <2>1, <2>3, <2>4
<1>3. Network!Manager!Correction(w) \in Int
  BY <1>2 DEF Network!Manager!Correction, Network!Manager!HealingSteps
<1>4. Network!Manager!Healed(p, q) = (p + Network!Manager!Correction(w)) % Turn
  BY <1>1 DEF Network!Manager!Healed
<1> QED
  BY <1>3, <1>4, ModRange DEF Network!Manager!FaultAssumption, Network!Manager!Phase

LEMMA ManagerInit ==
  ASSUME Network!Manager!FaultAssumption, Network!Manager!Init
  PROVE  Network!Manager!TypeOK
BY DEF Network!Manager!FaultAssumption, Network!Manager!Init, Network!Manager!TypeOK,
     Network!Manager!Known, Network!Manager!Phase,
       Network!Manager!Ticks

LEMMA RegisterNodeType ==
  ASSUME Network!Manager!FaultAssumption, Network!Manager!TypeOK,
         NEW n \in Peer, NEW p \in Network!Manager!Phase, Network!Manager!RegisterNode(n, p)
  PROVE  Network!Manager!TypeOK'
<1>1. /\ status' \in [Peer -> Network!Manager!Status \union {"unknown"}]
      /\ Network!Manager!Known' = Network!Manager!Known \union {n}
  BY StatusChanges DEF Network!Manager!RegisterNode, Network!Manager!Status
<1> QED
  BY <1>1 DEF Network!Manager!RegisterNode, Network!Manager!Operate, Network!Manager!Idle,
       Network!Manager!TypeOK,
              Network!Manager!FaultAssumption

LEMMA ReceivePulseType ==
  ASSUME Network!Manager!FaultAssumption, Network!Manager!TypeOK,
         NEW n \in Peer, NEW p \in Network!Manager!Phase, Network!Manager!ReceivePulse(n, p)
  PROVE  Network!Manager!TypeOK'
<1>1. /\ status' \in [Peer -> Network!Manager!Status \union {"unknown"}]
      /\ Network!Manager!Known' = Network!Manager!Known \union {n}
  BY StatusChanges DEF Network!Manager!ReceivePulse, Network!Manager!Status
<1>2. 0 \in Network!Manager!Ticks
  BY DEF Network!Manager!Ticks, Network!Manager!FaultAssumption
<1>3. judging' = judging
  BY DEF Network!Manager!ReceivePulse
<1> QED
  BY <1>1, <1>2, <1>3 DEF Network!Manager!ReceivePulse, Network!Manager!TypeOK

LEMMA TickType ==
  ASSUME Network!Manager!FaultAssumption, Network!Manager!TypeOK, Network!Manager!Tick
  PROVE  Network!Manager!TypeOK'
<1>1. ASSUME NEW np \in Network!Manager!Drifted, Network!Manager!BeginTick(np)
      PROVE Network!Manager!TypeOK'
  <2>1. np \in Network!Manager!Phase
    BY ModRange DEF Network!Manager!Drifted, Network!Manager!TypeOK, Network!Manager!Phase,
         Network!Manager!FaultAssumption
  <2>2. clock' \in Network!Manager!Ticks /\ age' \in [Peer -> Network!Manager!Ticks]
    BY <1>1, LaterType DEF Network!Manager!BeginTick, Network!Manager!TypeOK
  <2>3. Network!Manager!Known' = Network!Manager!Known
    BY <1>1 DEF Network!Manager!BeginTick, Network!Manager!Known
  <2> QED
    BY <1>1, <2>1, <2>2, <2>3
         DEF Network!Manager!BeginTick, Network!Manager!Idle, Network!Manager!TypeOK
<1>2. ASSUME NEW n \in unseen, Network!Manager!Inspect(n) PROVE Network!Manager!TypeOK'
  <2>1. Network!Manager!Known' = Network!Manager!Known
    BY <1>2 DEF Network!Manager!Inspect, Network!Manager!table, Network!Manager!Known
  <2>2. n \in Network!Manager!Known /\ n \in Peer
    BY DEF Network!Manager!TypeOK, Network!Manager!Known
  <2> QED
    BY <1>2, <2>1, <2>2 DEF Network!Manager!Inspect, Network!Manager!table,
         Network!Manager!TypeOK
<1>3. ASSUME Network!Manager!Conclude PROVE Network!Manager!TypeOK'
  <2>1. /\ judging.node \in Network!Manager!Known /\ judging.node \in Peer
        /\ judging.phase \in Network!Manager!Phase
    BY <1>3 DEF Network!Manager!Conclude, Network!Manager!ConcludeAlive,
         Network!Manager!ConcludeRecovering,
                Network!Manager!TypeOK, Network!Manager!Known
  <2>2. /\ status' \in [Peer -> Network!Manager!Status \union {"unknown"}]
        /\ Network!Manager!Known' = Network!Manager!Known
    <3>1. CASE Network!Manager!ConcludeAlive
      <4>1. Network!Manager!Detect(judging.phase, judging.age) \in Network!Manager!Status
        BY DEF Network!Manager!Detect, Network!Manager!Status
      <4>2. status' = [status EXCEPT ![judging.node] =
                         Network!Manager!Detect(judging.phase, judging.age)]
        BY <3>1 DEF Network!Manager!ConcludeAlive
      <4>3. /\ status' \in [Peer -> Network!Manager!Status \union {"unknown"}]
            /\ Network!Manager!Known' = Network!Manager!Known \union {judging.node}
        BY <2>1, <4>1, <4>2, StatusChanges
      <4> QED
        BY <2>1, <4>3
    <3>2. CASE Network!Manager!ConcludeRecovering
      <4>1. status' = [status EXCEPT ![judging.node] = "alive"] \/ status' = status
        BY <3>2 DEF Network!Manager!ConcludeRecovering
      <4>2. "alive" \in Network!Manager!Status
        BY DEF Network!Manager!Status
      <4> QED
        BY <2>1, <4>1, <4>2, StatusChanges DEF Network!Manager!TypeOK, Network!Manager!Known
    <3> QED
      BY <1>3, <3>1, <3>2 DEF Network!Manager!Conclude
  <2>3. beatPhase' \in [Peer -> Network!Manager!Phase]
    <3>1. CASE Network!Manager!ConcludeAlive
      BY <3>1 DEF Network!Manager!ConcludeAlive, Network!Manager!TypeOK
    <3>2. CASE Network!Manager!ConcludeRecovering
      <4>1. Network!Manager!Healed(judging.phase, netPhase) \in Network!Manager!Phase
        BY <2>1, HealedType DEF Network!Manager!TypeOK
      <4> QED
        BY <3>2, <4>1 DEF Network!Manager!ConcludeRecovering, Network!Manager!TypeOK
    <3> QED
      BY <1>3, <3>1, <3>2 DEF Network!Manager!Conclude
  <2> QED
    BY <1>3, <2>1, <2>2, <2>3 DEF Network!Manager!Conclude, Network!Manager!TypeOK
<1> QED
  BY <1>1, <1>2, <1>3 DEF Network!Manager!Tick

LEMMA DeclareDeadType ==
  ASSUME Network!Manager!FaultAssumption, Network!Manager!TypeOK, NEW n \in Peer,
         Network!Manager!DeclareDead(n)
  PROVE  Network!Manager!TypeOK'
<1>1. /\ status' \in [Peer -> Network!Manager!Status \union {"unknown"}]
      /\ Network!Manager!Known' = Network!Manager!Known \union {n}
  BY StatusChanges DEF Network!Manager!DeclareDead, Network!Manager!Status
<1> QED
  BY <1>1 DEF Network!Manager!DeclareDead, Network!Manager!Operate, Network!Manager!Idle,
       Network!Manager!TypeOK,
              Network!Manager!FaultAssumption

LEMMA InitiateRecoveryType ==
  ASSUME Network!Manager!FaultAssumption, Network!Manager!TypeOK, NEW n \in Peer,
         NEW p \in Network!Manager!Phase,
         Network!Manager!InitiateRecovery(n, p)
  PROVE  Network!Manager!TypeOK'
<1>1. /\ status' \in [Peer -> Network!Manager!Status \union {"unknown"}]
      /\ Network!Manager!Known' = Network!Manager!Known \union {n}
  BY StatusChanges DEF Network!Manager!InitiateRecovery, Network!Manager!Status
<1> QED
  BY <1>1 DEF Network!Manager!InitiateRecovery, Network!Manager!Operate,
       Network!Manager!Idle, Network!Manager!TypeOK,
              Network!Manager!FaultAssumption

LEMMA ManagerStep ==
  ASSUME Network!Manager!FaultAssumption, Network!Manager!TypeOK, Network!Manager!Next
  PROVE  Network!Manager!TypeOK'
<1>1. \A p \in Phases : p \in Network!Manager!Phase
  BY DEF Network!Manager!FaultAssumption, Network!Manager!Phase
<1>2. \A n \in Peer : beatPhase[n] \in Network!Manager!Phase
  BY DEF Network!Manager!TypeOK
<1> QED
  BY <1>1, <1>2, TickType, RegisterNodeType, ReceivePulseType, DeclareDeadType,
     InitiateRecoveryType DEF Network!Manager!Next

-----------------------------------------------------------------------------
(* Types of the mesh. *)

LEMMA MeshInit ==
  ASSUME Network!Gossip!GossipAssumption, Network!Gossip!Init
  PROVE  Network!Gossip!TypeOK
BY DEF Network!Gossip!GossipAssumption, Network!Gossip!Init, Network!Gossip!TypeOK

LEMMA CarryType ==
  ASSUME NEW n \in Peer, NEW dst \in SUBSET Peer, NEW m \in Network!Gossip!Message
  PROVE  Network!Gossip!Carry(n, dst, m) \subseteq Network!Gossip!Packet
BY DEF Network!Gossip!Carry, Network!Gossip!Packet

LEMMA SendPulseType ==
  ASSUME Network!Gossip!GossipAssumption, Network!Gossip!TypeOK,
         NEW n \in Peer, NEW p \in Network!Manager!Phase, Network!Gossip!SendPulse(n, p)
  PROVE  Network!Gossip!TypeOK'
<1>1. PICK m : m = [source |-> n, seq |-> beat, payload |-> p]
  OBVIOUS
<1>2. m \in Network!Gossip!Message /\ m.seq = beat
  BY <1>1 DEF Network!Gossip!TypeOK, Network!Gossip!Message, Network!Manager!Phase
<1>3. /\ pulses < MaxPulses /\ pulses' = pulses + 1
      /\ sent' = sent \union {m}
      /\ net' = net \union Network!Gossip!Carry(n, Peers[n], m)
      /\ beat' = beat /\ running' = running /\ seen' = seen /\ heard' = heard
  BY <1>1 DEF Network!Gossip!SendPulse
<1>4. Network!Gossip!Carry(n, Peers[n], m) \subseteq Network!Gossip!Packet
  BY <1>2, CarryType DEF Network!Gossip!GossipAssumption
<1>5. pulses' \in 0 .. MaxPulses
  BY <1>3 DEF Network!Gossip!TypeOK, Network!Gossip!GossipAssumption
<1> QED
  BY <1>2, <1>3, <1>4, <1>5 DEF Network!Gossip!TypeOK

LEMMA ProcessType ==
  ASSUME Network!Gossip!GossipAssumption, Network!Gossip!TypeOK, NEW n \in Peer,
         NEW pkt \in net,
         Network!Gossip!Process(n, pkt), UNCHANGED <<beat, running, sent, pulses>>
  PROVE  Network!Gossip!TypeOK'
<1>1. pkt.msg \in Network!Gossip!Message
  BY DEF Network!Gossip!TypeOK, Network!Gossip!Packet
<1>2. Network!Gossip!IdOf(pkt.msg) \in Network!Gossip!Id
  BY <1>1 DEF Network!Gossip!IdOf, Network!Gossip!Id, Network!Gossip!Message
<1>3. Network!Gossip!Remember(seen[n], Network!Gossip!IdOf(pkt.msg))
      \in SUBSET Network!Gossip!Id
  BY <1>2 DEF Network!Gossip!Remember, Network!Gossip!TypeOK
<1>4. Network!Gossip!Carry(n, Peers[n] \ {n}, pkt.msg) \subseteq Network!Gossip!Packet
  BY <1>1, CarryType DEF Network!Gossip!GossipAssumption
<1> QED
  BY <1>1, <1>3, <1>4 DEF Network!Gossip!Process, Network!Gossip!TypeOK

-----------------------------------------------------------------------------
(* The two together. *)

LEMMA NetworkStep ==
  ASSUME Network!Manager!FaultAssumption, Network!Gossip!GossipAssumption, Network!TypeOK,
         Network!Next
  PROVE  Network!TypeOK'
<1> USE DEF Network!TypeOK
<1>1. \A p \in Phases : p \in Network!Manager!Phase
  BY DEF Network!Manager!FaultAssumption, Network!Manager!Phase
<1>2. \A n \in Peer : beatPhase[n] \in Network!Manager!Phase
  BY DEF Network!Manager!TypeOK
<1>3. ASSUME UNCHANGED Network!gossip PROVE Network!Gossip!TypeOK'
  BY <1>3 DEF Network!gossip, Network!Gossip!TypeOK
<1>4. ASSUME UNCHANGED Network!manager PROVE Network!Manager!TypeOK'
  BY <1>4 DEF Network!manager, Network!Manager!TypeOK, Network!Manager!Known
<1>5. ASSUME NEW n \in Peer, NEW p \in Phases, Network!Register(n, p) PROVE Network!TypeOK'
  BY <1>1, <1>3, <1>5, RegisterNodeType DEF Network!Register
<1>6. ASSUME NEW n \in Peer, Network!Send(n) PROVE Network!TypeOK'
  <2>1. 0 \in Network!Manager!Phase
    BY DEF Network!Manager!FaultAssumption, Network!Manager!Phase
  <2> QED
    BY <1>2, <1>6, <2>1, RegisterNodeType, SendPulseType DEF Network!Send
<1>7. ASSUME NEW n \in Peer, Network!Listen(n) PROVE Network!TypeOK'
  <2>1. PICK pkt \in net :
          /\ pkt.to = n
          /\ \/ Network!Gossip!Ignore(n, pkt) /\ UNCHANGED Network!manager
             \/ /\ Network!Gossip!Process(n, pkt)
                /\ Network!Manager!ReceivePulse(pkt.msg.source, pkt.msg.payload)
    BY <1>7 DEF Network!Listen
  <2>2. UNCHANGED <<beat, running, sent, pulses>>
    BY <1>7 DEF Network!Listen
  <2>3. CASE Network!Gossip!Ignore(n, pkt) /\ UNCHANGED Network!manager
    BY <1>4, <2>2, <2>3 DEF Network!Gossip!Ignore, Network!Gossip!TypeOK
  <2>4. CASE Network!Gossip!Process(n, pkt)
        /\ Network!Manager!ReceivePulse(pkt.msg.source, pkt.msg.payload)
    <3>1. pkt.msg.source \in Peer /\ pkt.msg.payload \in Network!Manager!Phase
      BY DEF Network!Gossip!TypeOK, Network!Gossip!Packet, Network!Gossip!Message,
           Network!Manager!Phase
    <3> QED
      BY <2>2, <2>4, <3>1, ProcessType, ReceivePulseType
  <2> QED
    BY <2>1, <2>3, <2>4
<1>8. ASSUME NEW n \in Peer, Network!Kill(n) PROVE Network!TypeOK'
  BY <1>3, <1>8, DeclareDeadType DEF Network!Kill
<1>9. ASSUME NEW n \in Peer, Network!Stop(n) PROVE Network!TypeOK'
  BY <1>4, <1>9 DEF Network!Stop, Network!Gossip!Stop, Network!Gossip!TypeOK
<1>10. ASSUME NEW n \in Peer, NEW p \in Phases \union {beatPhase[n]},
      Network!Recover(n, p) PROVE Network!TypeOK'
  <2>1. p \in Network!Manager!Phase
    BY <1>1, <1>2
  <2> QED
    BY <1>3, <1>10, <2>1, InitiateRecoveryType DEF Network!Recover
<1>11. ASSUME NEW np \in Network!Manager!Drifted, Network!BeginTick(np) PROVE Network!TypeOK'
  <2>1. Network!Manager!TypeOK'
    BY <1>11, TickType DEF Network!BeginTick, Network!Manager!Tick
  <2>2. Network!Gossip!TypeOK'
    <3>1. beat' \in 0 .. MaxClock /\ beat <= beat'
      BY <1>11 DEF Network!BeginTick, Network!Gossip!Tick, Network!Gossip!TypeOK,
           Network!Gossip!GossipAssumption
    <3>2. sent' \subseteq {m \in Network!Gossip!Message : m.seq <= beat'}
      BY <1>11, <3>1 DEF Network!BeginTick, Network!Gossip!Tick, Network!Gossip!TypeOK,
           Network!Gossip!Message,
                         Network!Gossip!GossipAssumption
    <3> QED
      BY <1>11, <3>1, <3>2 DEF Network!BeginTick, Network!Gossip!Tick, Network!Gossip!TypeOK
  <2> QED
    BY <2>1, <2>2
<1>12. ASSUME Network!ContinueTick PROVE Network!TypeOK'
  BY <1>3, <1>12, TickType DEF Network!ContinueTick, Network!Manager!Tick
<1>13. ASSUME NEW pkt \in net, Network!Lose(pkt) PROVE Network!TypeOK'
  BY <1>4, <1>13 DEF Network!Lose, Network!Gossip!Lose, Network!Gossip!TypeOK
<1> QED
  BY <1>5, <1>6, <1>7, <1>8, <1>9, <1>10, <1>11, <1>12, <1>13 DEF Network!Next

(* Manager and mesh keep their types together, whatever the listeners do     *)
(* inside a tick, for any nodes, peers, circle and window.                  *)
THEOREM TypeCorrect == Network!Spec => []NetworkTypeOK
<1>1. Network!Init => Network!TypeOK
  BY NetworkAssumption, ManagerInit, MeshInit DEF Network!Init, Network!TypeOK
<1>2. Network!TypeOK /\ [Network!Next]_Network!vars => Network!TypeOK'
  <2>1. ASSUME Network!TypeOK, UNCHANGED Network!vars PROVE Network!TypeOK'
    BY <2>1 DEF Network!vars, Network!manager, Network!gossip, Network!TypeOK,
         Network!Manager!TypeOK, Network!Manager!Known, Network!Gossip!TypeOK
  <2> QED
    BY <2>1, NetworkAssumption, NetworkStep
<1>3. Network!TypeOK => NetworkTypeOK
  BY DEF NetworkTypeOK
<1> QED
  BY <1>1, <1>2, <1>3, PTL DEF Network!Spec

(* A node that is being looked at by a tick is not dead: kills wait for the  *)
(* end of the tick, and listeners never declare a death.                    *)
LookedAtLives ==
  judging # Network!Manager!Nobody => status[judging.node] # "dead"

NetworkInv == Network!TypeOK /\ LookedAtLives

LEMMA OneStatusLives ==
  ASSUME Network!TypeOK, LookedAtLives, NEW n \in Peer,
         NEW s \in Network!Manager!Status \ {"dead"},
         status' = [status EXCEPT ![n] = s], judging' \in {judging, Network!Manager!Nobody}
  PROVE  LookedAtLives'
BY DEF Network!TypeOK, Network!Manager!TypeOK, Network!Manager!Known, LookedAtLives

LEMMA LookedAtLivesStep ==
  ASSUME NetworkInv, [Network!Next]_Network!vars
  PROVE  LookedAtLives'
<1> USE DEF NetworkInv, LookedAtLives
<1>1. ASSUME UNCHANGED <<status, judging>> PROVE LookedAtLives'
  BY <1>1
<1>2. ASSUME Network!Manager!Operate, judging' = judging PROVE LookedAtLives'
  BY <1>2 DEF Network!Manager!Operate, Network!Manager!Idle
<1>3. ASSUME NEW n \in Peer, NEW p, Network!Register(n, p) PROVE LookedAtLives'
  BY <1>2, <1>3 DEF Network!Register, Network!Manager!RegisterNode
<1>4. ASSUME NEW n \in Peer, Network!Send(n) PROVE LookedAtLives'
  BY <1>2, <1>4 DEF Network!Send, Network!Manager!RegisterNode
<1>5. ASSUME NEW n \in Peer, Network!Listen(n) PROVE LookedAtLives'
  <2>1. CASE UNCHANGED Network!manager
    BY <1>1, <2>1 DEF Network!manager
  <2>2. CASE ~UNCHANGED Network!manager
    <3>1. PICK pkt \in net : Network!Manager!ReceivePulse(pkt.msg.source, pkt.msg.payload)
      BY <1>5, <2>2 DEF Network!Listen
    <3>2. pkt.msg.source \in Peer
      BY DEF Network!TypeOK, Network!Gossip!TypeOK, Network!Gossip!Packet,
           Network!Gossip!Message
    <3>3. PICK s : /\ s = IF Network!Manager!Aligned(pkt.msg.payload, netPhase)
                         THEN "alive" ELSE "desync"
                   /\ status' = [status EXCEPT ![pkt.msg.source] = s]
      BY <3>1 DEF Network!Manager!ReceivePulse
    <3>4. judging' = judging
      BY <3>1 DEF Network!Manager!ReceivePulse
    <3>5. s \in Network!Manager!Status \ {"dead"}
      BY <3>3 DEF Network!Manager!Status
    <3> QED
      BY <3>2, <3>3, <3>4, <3>5, OneStatusLives
  <2> QED
    BY <2>1, <2>2
<1>6. ASSUME NEW n \in Peer, Network!Kill(n) PROVE LookedAtLives'
  BY <1>2, <1>6 DEF Network!Kill, Network!Manager!DeclareDead
<1>7. ASSUME NEW n \in Peer, Network!Stop(n) PROVE LookedAtLives'
  BY <1>1, <1>7 DEF Network!Stop, Network!manager
<1>8. ASSUME NEW n \in Peer, NEW p, Network!Recover(n, p) PROVE LookedAtLives'
  BY <1>2, <1>8 DEF Network!Recover, Network!Manager!InitiateRecovery
<1>9. ASSUME NEW np, Network!BeginTick(np) PROVE LookedAtLives'
  BY <1>1, <1>9 DEF Network!BeginTick, Network!Manager!BeginTick
<1>10. ASSUME NEW n \in unseen, Network!Manager!Inspect(n) PROVE LookedAtLives'
  <2>1. n \in Peer
    BY DEF Network!TypeOK, Network!Manager!TypeOK, Network!Manager!Known
  <2> QED
    BY <1>10, <2>1 DEF Network!Manager!Inspect, Network!Manager!table
<1>11. ASSUME Network!Manager!Conclude PROVE LookedAtLives'
  BY <1>11 DEF Network!Manager!Conclude
<1>12. ASSUME NEW pkt, Network!Lose(pkt) PROVE LookedAtLives'
  BY <1>1, <1>12 DEF Network!Lose, Network!manager
<1>13. CASE UNCHANGED Network!vars
  BY <1>1, <1>13 DEF Network!vars, Network!manager
<1> QED
  BY <1>3, <1>4, <1>5, <1>6, <1>7, <1>8, <1>9, <1>10, <1>11, <1>12, <1>13
  DEF Network!Next, Network!ContinueTick

LEMMA NetworkInvHolds == Network!Spec => []NetworkInv
<1>1. Network!Init => LookedAtLives
  BY DEF Network!Init, Network!Manager!Init, LookedAtLives
<1>2. NetworkTypeOK => Network!TypeOK
  BY DEF NetworkTypeOK
<1>3. NetworkInv /\ [Network!Next]_Network!vars => LookedAtLives'
  BY LookedAtLivesStep
<1> QED
  BY <1>1, <1>2, <1>3, TypeCorrect, PTL DEF Network!Spec, NetworkInv

(* One step of the two: who brings a dead node back. *)
LEMMA DeadReturns ==
  ASSUME NetworkInv, Network!Next, NEW n \in Peer,
         status[n] = "dead", status'[n] \notin {"dead", "recovering"}
  PROVE  \/ pulses' # pulses
         \/ \E pkt \in net \ net' : pkt.msg.source = n
<1> USE DEF NetworkInv
<1>1. status \in [Peer -> Network!Manager!Status \union {"unknown"}]
  BY DEF Network!TypeOK, Network!Manager!TypeOK
<1>2. ASSUME NEW m \in Peer, NEW p, Network!Register(m, p) PROVE FALSE
  <2>1. m # n /\ status' = [status EXCEPT ![m] = "alive"]
    BY <1>2 DEF Network!Register, Network!Manager!RegisterNode, Network!Manager!Known
  <2> QED
    BY <1>1, <2>1
<1>3. ASSUME NEW m \in Peer, Network!Send(m) PROVE pulses' # pulses
  BY <1>3 DEF Network!Send, Network!Gossip!SendPulse, Network!TypeOK, Network!Gossip!TypeOK
<1>4. ASSUME NEW m \in Peer, Network!Listen(m) PROVE \E pkt \in net \ net' : pkt.msg.source = n
  <2>1. ~UNCHANGED Network!manager
    BY DEF Network!manager
  <2>2. PICK pkt \in net : /\ pkt.to = m
                          /\ Network!Gossip!Process(m, pkt)
                          /\ Network!Manager!ReceivePulse(pkt.msg.source, pkt.msg.payload)
    BY <1>4, <2>1 DEF Network!Listen
  <2>3. pkt \notin net'
    <3>1. net' = (net \ {pkt}) \union Network!Gossip!Carry(m, Peers[m] \ {m}, pkt.msg)
      BY <2>2 DEF Network!Gossip!Process
    <3>2. pkt \notin Network!Gossip!Carry(m, Peers[m] \ {m}, pkt.msg)
      BY <2>2 DEF Network!Gossip!Carry
    <3> QED
      BY <3>1, <3>2
  <2>4. pkt.msg.source = n
    BY <1>1, <2>2 DEF Network!Manager!ReceivePulse
  <2> QED
    BY <2>3, <2>4
<1>5. ASSUME NEW m \in Peer, Network!Kill(m) PROVE FALSE
  BY <1>1, <1>5 DEF Network!Kill, Network!Manager!DeclareDead
<1>6. ASSUME NEW m \in Peer, Network!Stop(m) PROVE FALSE
  BY <1>6 DEF Network!Stop, Network!manager
<1>7. ASSUME NEW m \in Peer, NEW p, Network!Recover(m, p) PROVE FALSE
  BY <1>1, <1>7 DEF Network!Recover, Network!Manager!InitiateRecovery
<1>8. ASSUME NEW np, Network!BeginTick(np) PROVE FALSE
  BY <1>8 DEF Network!BeginTick, Network!Manager!BeginTick
<1>9. ASSUME NEW m, Network!Manager!Inspect(m) PROVE FALSE
  BY <1>9 DEF Network!Manager!Inspect, Network!Manager!table
<1>10. ASSUME Network!Manager!Conclude PROVE FALSE
  <2>1. judging.node # n
    BY <1>10 DEF LookedAtLives, Network!Manager!Conclude, Network!Manager!ConcludeAlive,
                 Network!Manager!ConcludeRecovering
  <2>2. \/ \E s : status' = [status EXCEPT ![judging.node] = s]
        \/ status' = status
    BY <1>10 DEF Network!Manager!Conclude, Network!Manager!ConcludeAlive,
         Network!Manager!ConcludeRecovering
  <2> QED
    BY <1>1, <2>1, <2>2
<1>11. ASSUME NEW pkt, Network!Lose(pkt) PROVE FALSE
  BY <1>11 DEF Network!Lose, Network!manager
<1> QED
  BY <1>2, <1>3, <1>4, <1>5, <1>6, <1>7, <1>8, <1>9, <1>10, <1>11
       DEF Network!Next, Network!ContinueTick

(* Death is final but for a recovery that is asked for and for pulses of the *)
(* node: no race of a tick with the listeners revives it (tick,              *)
(* receive_pulse, declare_dead).                                            *)
THEOREM DeadReturnsOnlyByPulseHolds == Network!Spec => DeadReturnsOnlyByPulse
<1>1. NetworkInv /\ [Network!Next]_Network!vars =>
        [\A n \in Peer : status[n] = "dead" /\ status'[n] \notin {"dead", "recovering"} =>
           \/ pulses' # pulses
           \/ \E pkt \in net \ net' : pkt.msg.source = n]_Network!vars
  BY DeadReturns
<1> QED
  BY <1>1, NetworkInvHolds, PTL
  DEF Network!Spec, DeadReturnsOnlyByPulse, Network!DeadReturnsOnlyByPulse

-----------------------------------------------------------------------------
(* The manager alone, on one thread. *)

(* What a tick has read of the node it is looking at still holds.            *)
Judged ==
  judging # Detector!Nobody =>
    /\ judging.phase = beatPhase[judging.node]
    /\ judging.was = status[judging.node]

(* Nodes that were judged are aligned if they are alive; those a running     *)
(* tick has still to look at were, against the network phase before.        *)
Looked ==
  \A n \in checked :
    \/ n \in unseen
    \/ judging # Detector!Nobody /\ n = judging.node
    \/ status[n] = "alive" => Detector!Aligned(beatPhase[n], netPhase)

AloneInv == Detector!TypeOK /\ Judged /\ Looked

(* With one thread the manager does nothing it could not do with more.       *)
LEMMA AloneIsManager ==
  /\ Detector!Init => Network!Manager!Init
  /\ Detector!Next => Network!Manager!Next
  /\ Detector!TypeOK <=> Network!Manager!TypeOK
  /\ Detector!TypeOK' <=> Network!Manager!TypeOK'
  /\ Detector!FaultAssumption => Network!Manager!FaultAssumption
<1>1. Detector!Init => Network!Manager!Init
  BY DEF Detector!Init, Network!Manager!Init, Detector!Nobody, Network!Manager!Nobody
<1>2. /\ Detector!TypeOK <=> Network!Manager!TypeOK
      /\ Detector!TypeOK' <=> Network!Manager!TypeOK'
  BY Zenon DEF Detector!TypeOK, Network!Manager!TypeOK, Detector!Known,
       Network!Manager!Known, Detector!Status, Network!Manager!Status,
         Detector!Phase, Network!Manager!Phase, Detector!Ticks, Network!Manager!Ticks,
         Detector!Nobody, Network!Manager!Nobody
<1>3. Detector!FaultAssumption => Network!Manager!FaultAssumption
  BY DEF Detector!FaultAssumption, Network!Manager!FaultAssumption
<1>4. Detector!Idle = Network!Manager!Idle /\ Detector!Operate = Network!Manager!Operate
  BY Zenon DEF Detector!Operate, Network!Manager!Operate, Detector!Idle,
       Network!Manager!Idle, Detector!Nobody, Network!Manager!Nobody
<1>5. \A p, q : Detector!Aligned(p, q) = Network!Manager!Aligned(p, q)
  BY Zenon DEF Detector!Aligned, Network!Manager!Aligned, Detector!Distance,
       Network!Manager!Distance, Detector!Way, Network!Manager!Way
<1>6. Detector!Tick = Network!Manager!Tick
  BY Zenon DEF Detector!Tick, Network!Manager!Tick, Detector!Drifted, Network!Manager!Drifted,
     Detector!BeginTick, Network!Manager!BeginTick, Detector!Inspect, Network!Manager!Inspect,
     Detector!Conclude, Network!Manager!Conclude, Detector!ConcludeAlive,
     Network!Manager!ConcludeAlive,
     Detector!ConcludeRecovering, Network!Manager!ConcludeRecovering, Detector!Detect,
     Network!Manager!Detect,
     Detector!Later, Network!Manager!Later, Detector!Known, Network!Manager!Known,
     Detector!Healed, Network!Manager!Healed,
     Detector!Way, Network!Manager!Way, Detector!Correction, Network!Manager!Correction,
     Detector!HealingSteps,
     Network!Manager!HealingSteps, Detector!table, Network!Manager!table, Detector!Nobody,
     Network!Manager!Nobody,
     Detector!Aligned, Network!Manager!Aligned, Detector!Distance, Network!Manager!Distance,
     Detector!Idle, Network!Manager!Idle
<1>7. \A n, p : Detector!RegisterNode(n, p) = Network!Manager!RegisterNode(n, p)
  BY <1>4, Zenon DEF Detector!RegisterNode, Network!Manager!RegisterNode
<1>8. \A n, p : Detector!ReceivePulse(n, p) => Network!Manager!ReceivePulse(n, p)
  BY <1>4, <1>5, Zenon DEF Detector!ReceivePulse, Network!Manager!ReceivePulse
<1>9. \A n : Detector!DeclareDead(n) = Network!Manager!DeclareDead(n)
  BY <1>4, Zenon DEF Detector!DeclareDead, Network!Manager!DeclareDead, Detector!Known,
       Network!Manager!Known
<1>10. \A n, p : Detector!InitiateRecovery(n, p) = Network!Manager!InitiateRecovery(n, p)
  BY <1>4, Zenon DEF Detector!InitiateRecovery, Network!Manager!InitiateRecovery,
       Detector!Known, Network!Manager!Known
<1>11. Detector!Next => Network!Manager!Next
  BY <1>6, <1>7, <1>8, <1>9, <1>10, Zenon DEF Detector!Next, Network!Manager!Next
<1> QED
  BY <1>1, <1>2, <1>3, <1>11

LEMMA AloneTyped == Detector!Spec => []Detector!TypeOK
<1>1. Detector!Init => Detector!TypeOK
  BY DetectorAssumption, AloneIsManager, ManagerInit
<1>2. Detector!TypeOK /\ [Detector!Next]_Detector!vars => Detector!TypeOK'
  <2>1. ASSUME Detector!TypeOK, UNCHANGED Detector!vars PROVE Detector!TypeOK'
    BY <2>1 DEF Detector!vars, Detector!table, Detector!TypeOK, Detector!Known
  <2> QED
    BY <2>1, DetectorAssumption, AloneIsManager, ManagerStep
<1> QED
  BY <1>1, <1>2, PTL DEF Detector!Spec

(* A node that was aligned is still aligned when the healer has moved it.    *)
LEMMA HealedIsAligned ==
  ASSUME Detector!FaultAssumption, NEW p \in Detector!Phase, NEW q \in Detector!Phase,
         Detector!Aligned(p, q)
  PROVE  Detector!Aligned(Detector!Healed(p, q), q)
<1>1. PICK w : w = Detector!Way(p, q)
  OBVIOUS
<1>2. w \in Int
  BY <1>1, WayRange
<1>3. PICK c : c = Detector!Correction(w)
  OBVIOUS
<1>4. c \in Int /\ ((0 <= c /\ c <= w) \/ (w <= c /\ c <= 0))
  BY <1>2, <1>3 DEF Detector!Correction, Detector!HealingSteps
<1>5. Detector!Way((p + c) % Turn, q) = w - c
  BY <1>1, <1>4, WayAfter
<1>6. Detector!Healed(p, q) = (p + c) % Turn
  BY <1>1, <1>3 DEF Detector!Healed
<1>7. Detector!Distance(Detector!Healed(p, q), q) = IF w - c < 0 THEN -(w - c) ELSE w - c
  BY <1>5, <1>6 DEF Detector!Distance
<1>8. Detector!Distance(p, q) = IF w < 0 THEN -w ELSE w
  BY <1>1 DEF Detector!Distance
<1> QED
  BY <1>2, <1>4, <1>7, <1>8 DEF Detector!Aligned, Detector!FaultAssumption

LEMMA AloneInvStep ==
  ASSUME Detector!FaultAssumption, AloneInv, Detector!Next
  PROVE  Judged' /\ Looked'
<1> USE DEF AloneInv
<1>1. /\ status \in [Peer -> Detector!Status \union {"unknown"}]
      /\ beatPhase \in [Peer -> Detector!Phase]
      /\ checked \subseteq Peer /\ checked \subseteq Detector!Known /\ unseen \subseteq Peer
      /\ netPhase \in Detector!Phase
  BY DEF Detector!TypeOK, Detector!Known
<1>2. ASSUME NEW n \in Peer, NEW s, NEW p, Detector!Idle,
             status' = [status EXCEPT ![n] = s], beatPhase' = [beatPhase EXCEPT ![n] = p],
             unseen' = unseen, judging' = judging, netPhase' = netPhase,
             checked' \subseteq checked \union {n},
             n \in checked' /\ s = "alive" => Detector!Aligned(p, netPhase)
      PROVE  Judged' /\ Looked'
  BY <1>1, <1>2 DEF Judged, Looked, Detector!Idle
<1>3. ASSUME NEW n \in Peer, NEW p \in Phases, Detector!RegisterNode(n, p)
      PROVE  Judged' /\ Looked'
  BY <1>2, <1>3 DEF Detector!RegisterNode, Detector!Operate
<1>4. ASSUME NEW n \in Peer, NEW p \in Phases, Detector!ReceivePulse(n, p)
      PROVE  Judged' /\ Looked'
  <2>1. PICK s : s = IF Detector!Aligned(p, netPhase) THEN "alive" ELSE "desync"
    OBVIOUS
  <2>2. s = "alive" => Detector!Aligned(p, netPhase)
    BY <2>1
  <2>3. /\ Detector!Idle /\ beatPhase' = [beatPhase EXCEPT ![n] = p]
        /\ status' = [status EXCEPT ![n] = s] /\ checked' = checked \union {n}
        /\ unseen' = unseen /\ judging' = judging /\ netPhase' = netPhase
    BY <1>4, <2>1 DEF Detector!ReceivePulse
  <2> QED
    BY <1>2, <2>2, <2>3
<1>5. ASSUME NEW n \in Peer, Detector!DeclareDead(n) PROVE Judged' /\ Looked'
  <2>1. beatPhase' = [beatPhase EXCEPT ![n] = beatPhase[n]]
    BY <1>1, <1>5 DEF Detector!DeclareDead
  <2> QED
    BY <1>2, <1>5, <2>1 DEF Detector!DeclareDead, Detector!Operate
<1>6. ASSUME NEW n \in Peer, NEW p, Detector!InitiateRecovery(n, p) PROVE Judged' /\ Looked'
  BY <1>2, <1>6 DEF Detector!InitiateRecovery, Detector!Operate
<1>7. ASSUME NEW np, Detector!BeginTick(np) PROVE Judged' /\ Looked'
  BY <1>1, <1>7 DEF Detector!BeginTick, Detector!Idle, Judged, Looked
<1>8. ASSUME NEW n \in unseen, Detector!Inspect(n) PROVE Judged' /\ Looked'
  <2>1. UNCHANGED <<status, beatPhase, checked, netPhase>> /\ unseen' = unseen \ {n}
    BY <1>8 DEF Detector!Inspect, Detector!table
  <2>2. CASE status[n] \in {"alive", "recovering"}
    <3>1. judging' = [node |-> n, was |-> status[n], phase |-> beatPhase[n], age |-> age[n]]
      BY <1>8, <2>2 DEF Detector!Inspect
    <3>2. judging' # Detector!Nobody
      <4>1. "was" \in DOMAIN judging'
        BY <3>1
      <4>2. "was" \notin DOMAIN Detector!Nobody
        BY DEF Detector!Nobody
      <4> QED
        BY <4>1, <4>2
    <3> QED
      BY <1>8, <2>1, <3>1, <3>2 DEF Detector!Inspect, Judged, Looked
  <2>3. CASE status[n] \notin {"alive", "recovering"}
    BY <1>8, <2>1, <2>3 DEF Detector!Inspect, Judged, Looked
  <2> QED
    BY <2>2, <2>3
<1>9. ASSUME Detector!Conclude PROVE Judged' /\ Looked'
  <2> DEFINE m == judging.node
  <2>1. /\ judging # Detector!Nobody /\ judging' = Detector!Nobody
        /\ checked' = checked \union {m} /\ netPhase' = netPhase /\ unseen' = unseen
        /\ judging.phase = beatPhase[m] /\ judging.was = status[m]
    BY <1>9 DEF Detector!Conclude, Detector!ConcludeAlive, Detector!ConcludeRecovering, Judged
  <2>2. m \in Peer
    BY <2>1 DEF Detector!TypeOK, Detector!Known
  <2> HIDE DEF m
  <2>3. /\ status'[m] = "alive" => Detector!Aligned(beatPhase'[m], netPhase)
        /\ \A n \in Peer \ {m} : status'[n] = status[n] /\ beatPhase'[n] = beatPhase[n]
    <3>1. CASE Detector!ConcludeAlive
      <4>1. status' = [status EXCEPT ![m] = Detector!Detect(beatPhase[m], judging.age)]
            /\ beatPhase' = beatPhase
        BY <2>1, <3>1 DEF Detector!ConcludeAlive, m
      <4>2. Detector!Detect(beatPhase[m], judging.age) = "alive"
            => Detector!Aligned(beatPhase[m], netPhase)
        BY DEF Detector!Detect
      <4> QED
        BY <1>1, <2>2, <4>1, <4>2
    <3>2. CASE Detector!ConcludeRecovering
      <4>1. /\ beatPhase' = [beatPhase EXCEPT ![m] = Detector!Healed(beatPhase[m], netPhase)]
            /\ status' = IF Detector!Aligned(beatPhase[m], netPhase)
                           THEN [status EXCEPT ![m] = "alive"] ELSE status
            /\ status[m] = "recovering"
        BY <2>1, <3>2 DEF Detector!ConcludeRecovering, m
      <4>2. Detector!Aligned(beatPhase[m], netPhase)
            => Detector!Aligned(Detector!Healed(beatPhase[m], netPhase), netPhase)
        BY <1>1, <2>2, HealedIsAligned
      <4> QED
        BY <1>1, <2>2, <4>1, <4>2
    <3> QED
      BY <1>9, <3>1, <3>2 DEF Detector!Conclude
  <2>4. Looked'
    BY <1>1, <2>1, <2>2, <2>3 DEF Looked, m
  <2> QED
    BY <2>1, <2>4 DEF Judged
<1> QED
  BY <1>3, <1>4, <1>5, <1>6, <1>7, <1>8, <1>9 DEF Detector!Next, Detector!Tick

LEMMA AloneInvHolds == Detector!Spec => []AloneInv
<1>1. Detector!Init => Judged /\ Looked
  BY DEF Detector!Init, Judged, Looked
<1>2. AloneInv /\ [Detector!Next]_Detector!vars => Judged' /\ Looked'
  <2>1. ASSUME Judged, Looked, UNCHANGED Detector!vars PROVE Judged' /\ Looked'
    BY <2>1 DEF Detector!vars, Detector!table, Judged, Looked
  <2> QED
    BY <2>1, DetectorAssumption, AloneInvStep DEF AloneInv
<1> QED
  BY <1>1, <1>2, AloneTyped, PTL DEF Detector!Spec, AloneInv

(* The phase of every node that is alive after a tick, and was judged, is    *)
(* within tolerance of the phase of the network (tick, detect_desync).      *)
THEOREM AliveMeansAlignedHolds == Detector!Spec => []AliveMeansAligned
<1>1. AloneInv => AliveMeansAligned
  BY DEF AloneInv, Looked, AliveMeansAligned, Detector!AliveMeansAligned, Detector!Idle
<1> QED
  BY <1>1, AloneInvHolds, PTL

(* Each step of the healer shrinks the error, whichever way round is shorter *)
(* and however the circle is divided, if the tolerance is one unit at least  *)
(* (apply_recovery_phase).                                                  *)
THEOREM HealingShrinksErrorHolds ==
  ASSUME Tolerance >= 1
  PROVE  Detector!Spec => HealingShrinksError
<1>1. AloneInv /\ [Detector!Next]_Detector!vars =>
        [judging # Detector!Nobody /\ judging' = Detector!Nobody =>
           LET n == judging.node
           IN  judging.was = "recovering" /\ ~Detector!Aligned(beatPhase[n], netPhase) =>
                 Detector!Distance(beatPhase'[n], netPhase)
                     < Detector!Distance(beatPhase[n], netPhase)]_Detector!vars
  <2> DEFINE n == judging.node
  <2> SUFFICES ASSUME AloneInv, Detector!Next,
                      judging # Detector!Nobody, judging' = Detector!Nobody,
                      judging.was = "recovering", ~Detector!Aligned(beatPhase[n], netPhase)
               PROVE  Detector!Distance(beatPhase'[n], netPhase)
                    < Detector!Distance(beatPhase[n], netPhase)
    OBVIOUS
  <2>1. Detector!Conclude
    BY DEF Detector!Next, Detector!Tick, Detector!BeginTick, Detector!Inspect,
         Detector!RegisterNode,
           Detector!ReceivePulse, Detector!DeclareDead, Detector!InitiateRecovery
  <2>2. n \in Peer /\ beatPhase \in [Peer -> Detector!Phase] /\ netPhase \in Detector!Phase
    BY DEF AloneInv, Detector!TypeOK, Detector!Known
  <2>3. beatPhase' = [beatPhase EXCEPT ![n] = Detector!Healed(beatPhase[n], netPhase)]
    BY <2>1 DEF Detector!Conclude, Detector!ConcludeAlive, Detector!ConcludeRecovering,
         AloneInv, Judged
  <2>4. Detector!Distance(Detector!Healed(beatPhase[n], netPhase), netPhase)
        < Detector!Distance(beatPhase[n], netPhase)
    BY <2>2, DetectorAssumption, HealedIsNearer
  <2> QED
    BY <2>2, <2>3, <2>4
<1> QED
  BY <1>1, AloneInvHolds, PTL
       DEF Detector!Spec, HealingShrinksError, Detector!HealingShrinksError

=============================================================================
