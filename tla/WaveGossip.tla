----------------------------- MODULE WaveGossip -----------------------------
(***************************************************************************)
(* The pulse mesh of mother_relay/wave_gossip.py: every WaveGossipNode     *)
(* floods the pulses it has not seen over UDP.  A pulse is identified by   *)
(* its source and the tick it was sent at; the set of identifiers seen is  *)
(* emptied when it outgrows SeenLimit.  Datagrams are unordered and, with  *)
(* Lossy, may be lost; what is sent to a stopped node is never read.       *)
(* Equal datagrams in flight are one.                                      *)
(***************************************************************************)
EXTENDS Integers, FiniteSets

CONSTANTS
  Node,       \* gossip nodes
  Peers,      \* Peers[n]: the nodes whose ports n was given
  Payload,    \* phases and rates that pulses carry
  SeenLimit,  \* identifiers kept before the set is cleared: 1000
  Lossy,      \* whether datagrams are lost
  MaxClock,   \* bound: ticks
  MaxPulses   \* bound: pulses sent

GossipAssumption ==
  /\ Peers \in [Node -> SUBSET Node]
  /\ SeenLimit \in Nat
  /\ Lossy \in BOOLEAN
  /\ MaxClock \in Nat
  /\ MaxPulses \in Nat

VARIABLES
  clock,    \* _current_tick of the manager the nodes were given
  running,  \* running of every node
  seen,     \* seen_messages of every node
  net,      \* datagrams in flight
  heard,    \* heard[n]: pulses n has handed to its manager
  sent,     \* pulses sent
  pulses    \* number of sends, to bound them

vars == <<clock, running, seen, net, heard, sent, pulses>>

Id      == Node \X (0 .. MaxClock)
Message == [source : Node, seq : 0 .. MaxClock, payload : Payload]
Packet  == [from : Node, to : Node, msg : Message]

IdOf(m) == <<m.source, m.seq>>

(* The datagrams that carry m from n to the nodes of dst. *)
Carry(n, dst, m) == [from : {n}, to : dst, msg : {m}]

(* _process_message: an identifier is added, then all go at the limit.      *)
Remember(ids, i) ==
  LET more == ids \union {i} IN IF Cardinality(more) > SeenLimit THEN {} ELSE more

-----------------------------------------------------------------------------

Init ==
  /\ clock = 0
  /\ running = [n \in Node |-> TRUE]
  /\ seen = [n \in Node |-> {}]
  /\ net = {}
  /\ heard = [n \in Node |-> {}]
  /\ sent = {}
  /\ pulses = 0

(* Mutant of SendPulse: the pulse has the number of the tick to come. *)
SendPulseAhead(n, p) ==
  LET m == [source |-> n, seq |-> clock + 1, payload |-> p]
  IN  /\ pulses < MaxPulses
      /\ pulses' = pulses + 1
      /\ sent' = sent \union {m}
      /\ net' = net \union Carry(n, Peers[n], m)
      /\ UNCHANGED <<clock, running, seen, heard>>

(* send_pulse; the sender does not put the identifier among those it saw.   *)
SendPulse(n, p) ==
  LET m == [source |-> n, seq |-> clock, payload |-> p]
  IN  /\ pulses < MaxPulses
      /\ pulses' = pulses + 1
      /\ sent' = sent \union {m}
      /\ net' = net \union Carry(n, Peers[n], m)
      /\ UNCHANGED <<clock, running, seen, heard>>

Repeated(n, m) == IdOf(m) \in seen[n]

Ignore(n, pkt) ==
  /\ Repeated(n, pkt.msg)
  /\ net' = net \ {pkt}
  /\ UNCHANGED <<seen, heard>>

(* Mutant of Process: a node that has the pulse does not send it on. *)
ProcessAlone(n, pkt) ==
  /\ ~Repeated(n, pkt.msg)
  /\ seen' = [seen EXCEPT ![n] = Remember(@, IdOf(pkt.msg))]
  /\ heard' = [heard EXCEPT ![n] = @ \union {pkt.msg}]
  /\ net' = net \ {pkt}

(* Mutant of Process: the identifier is added by the originator only. *)
ProcessUnmarked(n, pkt) ==
  /\ ~Repeated(n, pkt.msg)
  /\ heard' = [heard EXCEPT ![n] = @ \union {pkt.msg}]
  /\ net' = (net \ {pkt}) \union Carry(n, Peers[n] \ {n}, pkt.msg)
  /\ UNCHANGED seen

Process(n, pkt) ==
  /\ ~Repeated(n, pkt.msg)
  /\ seen' = [seen EXCEPT ![n] = Remember(@, IdOf(pkt.msg))]
  /\ heard' = [heard EXCEPT ![n] = @ \union {pkt.msg}]
  /\ net' = (net \ {pkt}) \union Carry(n, Peers[n] \ {n}, pkt.msg)

(* One turn of _listen. *)
Receive(n) ==
  /\ running[n]
  /\ \E pkt \in net :
       /\ pkt.to = n
       /\ Ignore(n, pkt) \/ Process(n, pkt)
  /\ UNCHANGED <<clock, running, sent, pulses>>

Stop(n) ==
  /\ running[n]
  /\ running' = [running EXCEPT ![n] = FALSE]
  /\ UNCHANGED <<clock, seen, net, heard, sent, pulses>>

Lose(pkt) ==
  /\ Lossy \/ ~running[pkt.to]
  /\ net' = net \ {pkt}
  /\ UNCHANGED <<clock, running, seen, heard, sent, pulses>>

(* The main loop moves the manager to the next tick. *)
Tick ==
  /\ clock < MaxClock
  /\ clock' = clock + 1
  /\ UNCHANGED <<running, seen, net, heard, sent, pulses>>

Next ==
  \/ \E n \in Node, p \in Payload : SendPulse(n, p)
  \/ \E n \in Node : Receive(n)
  \/ \E n \in Node : Stop(n)
  \/ \E pkt \in net : Lose(pkt)
  \/ Tick

Spec == Init /\ [][Next]_vars

(* Listener threads keep reading, and nobody stops them. *)
FairSpec == Spec /\ \A n \in Node : WF_vars(Receive(n)) /\ [](running[n])

-----------------------------------------------------------------------------
(* Properties. *)

TypeOK ==
  /\ clock \in 0 .. MaxClock
  /\ running \in [Node -> BOOLEAN]
  /\ seen \in [Node -> SUBSET Id]
  /\ net \subseteq Packet
  /\ heard \in [Node -> SUBSET Message]
  /\ sent \subseteq {m \in Message : m.seq <= clock}
  /\ pulses \in 0 .. MaxPulses

(* The mesh comes to rest: a flood dies out whatever the cycles of Peers.    *)
FloodEnds == <>[](net = {})

(* Without loss every node gets a pulse of every source and tick that sent.  *)
PulseReachesAll ==
  \A i \in Id : (\E m \in sent : IdOf(m) = i) ~>
                  (\A n \in Node \ {i[1]} : \E m \in heard[n] : IdOf(m) = i)

=============================================================================
