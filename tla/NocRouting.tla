----------------------------- MODULE NocRouting -----------------------------
(***************************************************************************)
(* RequestNewRoute of the routing protocols: dimension order routing       *)
(* (routing/dor: DorRouting, XyRouting, XyzRouting) and the adaptive ones  *)
(* (routing/so, routing/slb).                                              *)
(*                                                                         *)
(* Each gives the set of routes from device `source', which has the flit,  *)
(* to node `destination'; a route has the output device `via' of this      *)
(* node, the input device `to' of the destination node, and the header the *)
(* flit then has.  No route means that an assertion of the code fails, or  *)
(* that the null route is returned.                                        *)
(***************************************************************************)
EXTENDS NocRouters, Sequences
Seqs == INSTANCE SequencesExt

Routes(noc, source, destination, direction, dim, h) ==
  UNION {[via : {via},
          to : GetInputNetDevice(noc, destination, via, Opposite(direction), dim),
          header : {h}] :
         via \in GetOutputNetDevice(noc, source[1], source, direction, dim)}

(***************************************************************************)
(* Dimension order routing.                                                *)
(***************************************************************************)
HasArrived(h) == \A dim \in DOMAIN h.distance : GetOffset(h, dim) = 0

\* Mutant: a packet that goes forward in one dimension and back in the other uses
\* the dimensions in the opposite order.
PreferredDimensionByQuadrant(order, h) ==
  LET used == IF \A d1, d2 \in DOMAIN h.distance :
                   HasForwardDirection(h, d1) <=> HasForwardDirection(h, d2)
              THEN order ELSE Seqs!Reverse(order)
  IN used[Seqs!SelectInSeq(used, LAMBDA dim : GetOffset(h, dim) # 0)]

\* The first dimension that is not exhausted.
PreferredDimension(order, h) ==
  order[CHOOSE i \in DOMAIN order :
          /\ GetOffset(h, order[i]) # 0
          /\ \A j \in 1 .. i - 1 : GetOffset(h, order[j]) = 0]

\* Mutant: SetOffset is forgotten.
OffsetKept(h, dim) == h

\* One hop is taken off the offset.
OffsetUsed(h, dim) == SetOffset(h, dim, GetOffset(h, dim) - 1)

DimensionOrderRoutes(noc, order, source, destination, h) ==
  IF HasArrived(h) THEN {}
  ELSE LET dim == PreferredDimension(order, h)
           direction == IF HasForwardDirection(h, dim) THEN "FORWARD" ELSE "BACK"
       IN Routes(noc, source, destination, direction, dim, OffsetUsed(h, dim))

DorRequestNewRoute(noc, source, destination, h) ==
  DimensionOrderRoutes(noc, noc.routingOrder, source, destination, h)

XyOrder(noc) == IF noc.routeXFirst THEN <<0, 1>> ELSE <<1, 0>>

XyRequestNewRoute(noc, source, destination, h) ==
  DimensionOrderRoutes(noc, XyOrder(noc), source, destination, h)

XyzXFirstOrder(noc) == IF noc.routeYSecond THEN <<0, 1, 2>> ELSE <<0, 2, 1>>
XyzYFirstOrder(noc) == IF noc.routeXSecond THEN <<1, 0, 2>> ELSE <<1, 2, 0>>
\* Mutant: the second dimension is the one that is not wanted.
XyzZFirstOrderSwapped(noc) == IF noc.routeXSecond THEN <<2, 1, 0>> ELSE <<2, 0, 1>>
XyzZFirstOrder(noc) == IF noc.routeXSecond THEN <<2, 0, 1>> ELSE <<2, 1, 0>>

XyzOrder(noc) ==
  CASE noc.routeXFirst                      -> XyzXFirstOrder(noc)
    [] ~noc.routeXFirst /\ noc.routeYFirst  -> XyzYFirstOrder(noc)
    [] ~noc.routeXFirst /\ ~noc.routeYFirst -> XyzZFirstOrder(noc)

XyzRequestNewRoute(noc, source, destination, h) ==
  DimensionOrderRoutes(noc, XyzOrder(noc), source, destination, h)

(***************************************************************************)
(* Adaptive routing, on two dimensional topologies with FourWayRouter,     *)
(* whose neighbour loads are 0 (NocRouter::GetNeighborLoad).               *)
(***************************************************************************)
IsProgressiveDirection(h, d) ==
  /\ GetOffset(h, d[3]) > 0
  /\ (d[2] = "FORWARD") = HasForwardDirection(h, d[3])

\* The comparison leaves the dimension out.
CameFrom(source, d) == d[2] = source[2]

SlbRoutingFunction(noc, source, h) ==
  {d \in NodeDevices(noc, source[1]) : ~CameFrom(source, d)}

SoRoutingFunction(noc, source, h) ==
  {d \in NodeDevices(noc, source[1]) :
     /\ ~CameFrom(source, d)
     /\ CASE GetOffset(h, 0) = 0 -> d[3] = 1 /\ IsProgressiveDirection(h, d)
          [] GetOffset(h, 0) # 0 /\ GetOffset(h, 1) = 0 ->
               d[3] = 0 /\ IsProgressiveDirection(h, d)
          [] OTHER -> TRUE}

\* Attributes ProgressiveWeight 2 and RemainingWeight -1.
SlbEvaluate(h, d, busy) ==
  (IF IsProgressiveDirection(h, d) THEN 2 ELSE 0) - (IF d \in busy THEN 1 ELSE 0)

\* All weights are 1.  The bonus of a busy channel is lost to the flits that wait in
\* the device, since the tag counts no data flits: `busy' are the devices without any.
SoEvaluate(h, d, busy) ==
  (100 + (IF IsProgressiveDirection(h, d) THEN 100 ELSE 0)
       + (IF d \in busy THEN 100 ELSE 0)) \div 3

\* The best of those that are worth -1 at least.
Best(devices, value(_)) ==
  {d \in devices : value(d) >= -1 /\ \A e \in devices : value(e) <= value(d)}

SlbSelectionFunction(h, devices, busy) ==
  Best(devices, LAMBDA d : SlbEvaluate(h, d, busy))

\* Mutant: nothing is preferred.
SoSelectionFunctionAny(h, devices, busy) ==
  Best(devices, LAMBDA d : SoEvaluate(h, d, busy))

\* Among equally good devices a progressive one is preferred.
SoSelectionFunction(h, devices, busy) ==
  LET best == Best(devices, LAMBDA d : SoEvaluate(h, d, busy))
      progressive == {d \in best : IsProgressiveDirection(h, d)}
  IN IF progressive # {} THEN progressive ELSE best

\* One is taken off the offset of the dimension even when the device does not lead
\* closer, or when the offset is 0.
UpdateHeader(h, d) == SetOffset(h, d[3], (GetOffset(h, d[3]) + 255) % 256)

\* "Ensure that we find the opposite net device at the destination node."
FallbackInputDevices(noc, n, via) ==
  LET Found(direction, dim) == GetInputNetDevice(noc, n, via, direction, dim)
      tries == <<Found("BACK", 1), Found("BACK", 0), Found("FORWARD", 1), Found("FORWARD", 0)>>
  IN UNION {tries[i] : i \in {i \in DOMAIN tries : \A j \in 1 .. i - 1 : tries[j] = {}}}

AdaptiveRoutes(noc, source, destination, d, h) ==
  LET direct(via) == GetInputNetDevice(noc, destination, via, Opposite(d[2]), d[3])
  IN UNION {[via : {via},
             to : IF direct(via) # {} THEN direct(via)
                  ELSE FallbackInputDevices(noc, destination, via),
             header : {UpdateHeader(h, d)}] :
            via \in GetOutputNetDevice(noc, source[1], source, d[2], d[3])}

\* Channels may be busy with other flits.  Without a valid device the code reads the
\* first element of an empty vector: the program crashes.
SlbRequestNewRoute(noc, source, destination, h) ==
  LET valid == SlbRoutingFunction(noc, source, h)
  IN IF IsEmpty(h) THEN {}
     ELSE UNION {AdaptiveRoutes(noc, source, destination, d, h) :
                 d \in UNION {SlbSelectionFunction(h, valid, busy) : busy \in SUBSET valid}}

SoRequestNewRoute(noc, source, destination, h) ==
  LET valid == SoRoutingFunction(noc, source, h)
  IN IF IsEmpty(h) THEN {}
     ELSE UNION {AdaptiveRoutes(noc, source, destination, d, h) :
                 d \in UNION {SoSelectionFunction(h, valid, busy) : busy \in SUBSET valid}}

\* NocRoutingProtocol::RequestNewRoute is virtual.
RouteOfProtocol(noc, source, destination, h) ==
  CASE noc.protocol = "DorRouting" -> DorRequestNewRoute(noc, source, destination, h)
    [] noc.protocol = "XyRouting"  -> XyRequestNewRoute(noc, source, destination, h)
    [] noc.protocol = "XyzRouting" -> XyzRequestNewRoute(noc, source, destination, h)
    [] noc.protocol = "SlbRouting" -> SlbRequestNewRoute(noc, source, destination, h)
    [] noc.protocol = "SoRouting"  -> SoRequestNewRoute(noc, source, destination, h)

(***************************************************************************)
(* Meshes with dimension order routing: four way routers, any setting of   *)
(* the attributes that names each dimension once, and sizes whose          *)
(* distances fit beside the direction bit.  Their theorems are in          *)
(* NocMeshProofs.                                                          *)
(***************************************************************************)
MeshSize == 1 .. 128

\* A sequence with every dimension of D once.
IsOrder(order, D) ==
  /\ order \in Seq(D)
  /\ \A i, j \in 1 .. Len(order) : order[i] = order[j] => i = j
  /\ \A dim \in D : \E i \in 1 .. Len(order) : order[i] = dim

XyMesh(noc) ==
  LET t == noc.topology
  IN /\ noc.protocol = "XyRouting" /\ noc.routeXFirst \in BOOLEAN
     /\ t.hSize \in MeshSize
     /\ \E lines \in MeshSize : t.nodes = t.hSize * lines
     /\ t = Mesh2D(t.hSize, t.nodes)

XyzMesh(noc) ==
  LET t == noc.topology
  IN /\ noc.protocol = "XyzRouting"
     /\ {noc.routeXFirst, noc.routeXSecond, noc.routeYFirst, noc.routeYSecond} \subseteq BOOLEAN
     /\ t.hSize \in MeshSize /\ t.vSize \in MeshSize
     /\ \E layers \in MeshSize : t.nodes = (t.hSize * t.vSize) * layers
     /\ t = Mesh3D(t.hSize, t.vSize, t.nodes)

DorMesh(noc) ==
  LET t == noc.topology
      d == Len(noc.routingOrder)
  IN /\ noc.protocol = "DorRouting" /\ IsOrder(noc.routingOrder, 0 .. d - 1)
     /\ t.size \in [0 .. d - 1 -> MeshSize]
     /\ t = MeshND(t.size, GetNumberOfNodes(t.size, d))

DimensionOrderMesh(noc) ==
  noc.router = "FourWayRouter" /\ (XyMesh(noc) \/ XyzMesh(noc) \/ DorMesh(noc))

\* The order in which its protocol uses the dimensions.
DimensionOrder(noc) ==
  CASE noc.protocol = "DorRouting" -> noc.routingOrder
    [] noc.protocol = "XyRouting"  -> XyOrder(noc)
    [] noc.protocol = "XyzRouting" -> XyzOrder(noc)

====================
