------------------------------ MODULE NocWalk ------------------------------
(***************************************************************************)
(* The way of one head flit through a network, hop by hop, for every       *)
(* topology, router and routing protocol: do the channels that Install     *)
(* creates, the distances that the topology puts in the header, the        *)
(* devices the router finds and the routes of the protocol fit together?   *)
(* NocTransport has the queues and the timing; here every hop succeeds,    *)
(* and other traffic appears in what the adaptive protocols see of it.     *)
(*                                                                         *)
(* A network is a record: topology, router, protocol with its attributes,  *)
(* and the flows, pairs of a source and a destination node.                *)
(***************************************************************************)
EXTENDS NocRouting

CONSTANTS
  Noc,        \* the networks
  MaxHops     \* bound: where a flit that went astray is no longer followed

ASSUME NocAssumption ==
  \A n \in Noc : \A f \in n.flows :
    /\ {f[1], f[2]} \subseteq TopologyNode(n.topology)
    /\ f[1] # f[2]
ASSUME MaxHopsAssumption == MaxHops \in Nat

VARIABLES
  noc,      \* the network, chosen at the start
  flow,     \* where the flit comes from and goes to
  at,       \* the device that has received the flit
  header,
  hops,     \* how many hops were made
  status    \* "walking", "received", or "aborted" by an assertion or a crash

walkVars == <<noc, flow, at, header, hops, status>>

Topology == noc.topology

WalkInit ==
  /\ noc \in Noc
  /\ flow \in noc.flows
  /\ header = HeaderOfHead(Topology, flow[1], flow[2])
  /\ at = GetInjectionNetDevice(noc, flow[1], header)
  /\ hops = 0
  /\ status = "walking"

\* The device that has the flit asks for a route and sends the flit over the
\* channel; the destination node takes it when it arrives at the device `to'.
\* Without a route an assertion fails.
Hop ==
  LET routes == RouteOfProtocol(noc, at, flow[2], header)
  IN /\ status = "walking"
     /\ hops < MaxHops
     /\ IF routes = {}
        THEN status' = "aborted" /\ UNCHANGED <<at, header, hops>>
        ELSE \E r \in routes :
               /\ at' = Topology.peer[r.via]
               /\ header' = r.header
               /\ hops' = hops + 1
               /\ status' = IF at' = r.to THEN "received" ELSE "walking"
     /\ UNCHANGED <<noc, flow>>

WalkSpec == WalkInit /\ [][Hop]_walkVars

\* The flit does not wait for ever: NocTransport has the retries that see to it.
FairWalk == WalkSpec /\ WF_walkVars(Hop)

-----------------------------------------------------------------------------
(***************************************************************************)
(* A reference for distances, taken from the channels alone.               *)
(***************************************************************************)
Neighbours(t, nodes) ==
  UNION {{c.forward, c.back} : c \in {c \in t.channels : {c.forward, c.back} \cap nodes # {}}}

\* The nodes that can be reached from node n in at most k hops.
Reached(t, n) ==
  LET reached[k \in 0 .. t.nodes] ==
        IF k = 0 THEN {n}
        ELSE LET nearer == reached[k - 1] IN nearer \cup Neighbours(t, nearer)
  IN reached

\* The length of a shortest way through the channels.
HopsBetween(m, n) ==
  LET reached == Reached(Topology, m)
  IN CHOOSE k \in DOMAIN reached : n \in reached[k] /\ \A j \in 0 .. k - 1 : n \notin reached[j]

Total(f) == Funcs!FoldFunctionOnSet(LAMBDA x, y : x + y, 0, f, DOMAIN f)

OffsetSum(h) == Total([dim \in DOMAIN h.distance |-> GetOffset(h, dim)])

\* The flit is at a device of the network, and its header is made of bytes.
WalkTypeOK ==
  /\ noc \in Noc
  /\ flow \in noc.flows
  /\ at \in NetDevices(Topology) \cup InternalInputDevices(noc)
  /\ header \in [distance : [DOMAIN header.distance -> Byte],
                 source : [DOMAIN header.distance -> Byte]]
  /\ hops \in 0 .. MaxHops
  /\ status \in {"walking", "received", "aborted"}

\* No assertion of RequestNewRoute fails, and the adaptive protocols always have
\* a valid device: the router finds a device for every direction a header asks for.
RouteIsFound == status # "aborted"

\* The offsets of the header add up to the length of the shortest way through the
\* channels from here to the destination.
HeaderTellsDistance ==
  status = "walking" => OffsetSum(header) = HopsBetween(at[1], flow[2])

\* The flit is received at its destination, and has taken a shortest way.
TakesShortestRoute ==
  status = "received" =>
    /\ at[1] = flow[2]
    /\ hops = HopsBetween(flow[1], flow[2])

\* The dimension order that the documentation of the protocol promises: a flit never
\* returns to an earlier dimension.
DimensionsInOrder ==
  [][LET order == noc.dimensionOrder
         Rank(d) == Seqs!SelectInSeq(order, LAMBDA dim : dim = d[3])
     IN at' # at /\ order # <<>> => Rank(at) <= Rank(at')]_walkVars

\* Every flit reaches its destination.
Arrives == <>(status = "received")

\* "Eliminate the direction from which the packet came": self optimized routing leaves
\* every other progressive device to the selection.
KeepsProgressiveDevices ==
  status = "walking" /\ noc.protocol = "SoRouting" =>
    \A d \in NodeDevices(noc, at[1]) \ {at} :
      IsProgressiveDirection(header, d) => d \in SoRoutingFunction(noc, at, header)

=============================================================================
