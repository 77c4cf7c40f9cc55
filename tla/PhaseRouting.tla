---------------------------- MODULE PhaseRouting ----------------------------
(***************************************************************************)
(* PhaseAwareRouter.compute_routing of mother_intelligence                 *)
(* (kuma_003_1_routing_fix.py): Dijkstra's search over the links of the    *)
(* wave layer, taken both ways, where a link costs its delay, the distance *)
(* of the phases of its ends and the incoherence of the end it leads to.   *)
(* One action is one turn of a loop.                                       *)
(*                                                                         *)
(* Costs are exact: they are counted in units of an incoherence of one     *)
(* phase unit, Scale times, so that the mean over the neighbours is whole. *)
(* The network is any one, with none, one or several links between two     *)
(* nodes, in either direction, and a search does not change it.  Of several *)
(* delays only the least tells: the other entries are outrun at once.  How   *)
(* many links there are tells in the mean over the neighbours, where one    *)
(* counts once for each link.  Since only differences of phases count, that *)
(* of node 0 is 0.  A search from a node to itself returns at once, and is   *)
(* left out, as are the three sums of the route apart from its total cost.  *)
(***************************************************************************)
EXTENDS Integers, Sequences, FiniteSets, FiniteSetsExt, Functions

CONSTANTS
  Size,    \* nodes are numbered from 0, in the order of their names
  Circle,  \* phase units in a full turn
  Beta,    \* cost of a phase unit
  Delays,  \* bound: delays of links, as costs
  Ends,    \* bound: pairs of source and target
  Parallel, \* bound: pairs of nodes that may have several links
  Most,    \* bound: links between two nodes
  Scale,   \* a multiple of every number of neighbours, counted for each link
  Far      \* float('inf'): more than any path costs

Node == 0 .. Size - 1
Pair == {S \in SUBSET Node : Cardinality(S) = 2}

RoutingAssumption ==
  /\ {Size, Circle, Most, Scale, Far} \subseteq Nat \ {0} /\ Beta \in Nat
  /\ Delays \subseteq Nat
  /\ Ends \subseteq {e \in Node \X Node : e[1] # e[2]}
  /\ \A k \in 1 .. Most * (Size - 1) : Scale % k = 0
  /\ \A d \in Delays : Far > Size * Scale * (d + (Beta + 1) * Circle)

VARIABLES
  delay,    \* least delay of the links between two nodes, Far if there is none
  bundle,   \* number of links between two nodes, 1 also if there is none
  phase,    \* phases of the nodes
  source, target,
  distance, \* distances
  before,   \* predecessors, -1 for None
  queue,    \* pq: pairs of distance and node
  path,     \* path, from the node that its reconstruction has come to
  place     \* the loop that runs: "search", "trace", or "found", "none"

network == <<delay, bundle, phase, source, target>>
vars    == <<network, distance, before, queue, path, place>>

-----------------------------------------------------------------------------
(* Costs. *)

Linked(n) == {m \in Node \ {n} : delay[{n, m}] < Far}

Apart(n, m) == LET d == (phase[n] - phase[m]) % Circle IN Min({d, Circle - d})

(* neighbors of _get_local_coherence(n): each once for every link to it.     *)
Neighbours(n) == {o \in Node \X (1 .. Most) : o[1] \in Linked(n) /\ o[2] <= bundle[{n, o[1]}]}

(* 1 - _get_local_coherence(n): the mean distance to the neighbours.         *)
Incoherence(n) ==
  SumFunctionOnSet([o \in Node \X (1 .. Most) |-> Apart(n, o[1])], Neighbours(n))
    * (Scale \div Cardinality(Neighbours(n)))

Cost(n, m) == Scale * (delay[{n, m}] + Beta * Apart(n, m)) + Incoherence(m)

-----------------------------------------------------------------------------

Init ==
  /\ delay \in [Pair -> Delays \union {Far}]
  /\ bundle \in {b \in [Pair -> 1 .. Most] :
                   \A S \in Pair : S \notin Parallel \/ delay[S] = Far => b[S] = 1}
  /\ phase \in {p \in [Node -> 0 .. Circle - 1] : p[0] = 0}
  /\ \E e \in Ends : source = e[1] /\ target = e[2]
  /\ distance = [n \in Node |-> IF n = source THEN 0 ELSE Far]
  /\ before = [n \in Node |-> -1]
  /\ queue = {<<0, source>>}
  /\ path = <<target>>
  /\ place = "search"

(* heappop: the least distance, and of these the first name. *)
First(e) ==
  /\ e \in queue
  /\ \A o \in queue : e[1] < o[1] \/ (e[1] = o[1] /\ e[2] <= o[2])

Shorter(d, n) == {m \in Linked(n) : d + Cost(n, m) < distance[m]}

(* Mutant of Relax: the neighbours are not pushed, as in the router that     *)
(* this one replaces.                                                       *)
RelaxUnpushed(d, n) ==
  /\ distance' = [m \in Node |-> IF m \in Shorter(d, n) THEN d + Cost(n, m) ELSE distance[m]]
  /\ before' = [m \in Node |-> IF m \in Shorter(d, n) THEN n ELSE before[m]]
  /\ queue' = queue \ {<<d, n>>}

Relax(d, n) ==
  /\ distance' = [m \in Node |-> IF m \in Shorter(d, n) THEN d + Cost(n, m) ELSE distance[m]]
  /\ before' = [m \in Node |-> IF m \in Shorter(d, n) THEN n ELSE before[m]]
  /\ queue' = (queue \ {<<d, n>>}) \union {<<d + Cost(n, m), m>> : m \in Shorter(d, n)}

(* An entry that was outrun is skipped; the target ends the search.          *)
Pop ==
  /\ place = "search"
  /\ \E e \in queue :
       /\ First(e)
       /\ e[2] # target \/ e[1] > distance[target]
       /\ IF e[1] > distance[e[2]]
            THEN queue' = queue \ {e} /\ UNCHANGED <<distance, before>>
            ELSE Relax(e[1], e[2])
  /\ UNCHANGED <<network, path, place>>

EndSearch ==
  /\ place = "search"
  /\ queue = {} \/ \E e \in queue : First(e) /\ e = <<distance[target], target>>
  /\ place' = IF before[target] = -1 THEN "none" ELSE "trace"
  /\ UNCHANGED <<network, distance, before, queue, path>>

(* The path is put together from its end. *)
Trace ==
  /\ place = "trace"
  /\ IF before[Head(path)] = -1
       THEN place' = "found" /\ UNCHANGED path
       ELSE path' = <<before[Head(path)]>> \o path /\ UNCHANGED place
  /\ UNCHANGED <<network, distance, before, queue>>

Next == Pop \/ EndSearch \/ Trace

Spec == Init /\ [][Next]_vars

-----------------------------------------------------------------------------
(* Properties. *)

(* All ways from source to target that meet no node twice. *)
Ways ==
  {way \in UNION {[1 .. length -> Node] : length \in 2 .. Size} :
     way[1] = source /\ way[Len(way)] = target /\ IsInjective(way)}

Open(way)  == \A i \in 1 .. Len(way) - 1 : way[i + 1] \in Linked(way[i])
Legs(way)  == [i \in 1 .. Len(way) - 1 |-> Cost(way[i], way[i + 1])]
Price(way) == SumFunctionOnSet(Legs(way), 1 .. Len(way) - 1)

(* compute_routing: a route is reported if there is one; it leads from       *)
(* source to target, its cost is the one reported, and none is cheaper.     *)
RouteIsOptimal ==
  /\ place = "found" =>
       /\ path \in Ways /\ Open(path) /\ Price(path) = distance[target]
       /\ \A way \in Ways : Open(way) => Price(path) <= Price(way)
  /\ place = "none" => \A way \in Ways : ~Open(way)

=============================================================================
