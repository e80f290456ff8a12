------------------------------- MODULE MCWalk -------------------------------
(***************************************************************************)
(* NocWalk in one network of every kind, for TLC.                          *)
(***************************************************************************)
EXTENDS NocWalk

AllPairs(t) == {f \in TopologyNode(t) \X TopologyNode(t) : f[1] # f[2]}

\* Size 2, 3 and 4, odd and even, lines and rings.
Mesh == Mesh2D(4, 12)
Torus == Torus2D(4, 20)
Cube == Mesh3D(3, 2, 12)
TorusCube == Torus3D(3, 2, 24)
SmallSize == [k \in 0 .. 2 |-> <<2, 3, 2>>[k + 1]]
RingSize == [k \in 0 .. 1 |-> <<5, 4>>[k + 1]]

XY(t, xFirst) ==
  [topology |-> t, router |-> "FourWayRouter", protocol |-> "XyRouting",
   routeXFirst |-> xFirst, flows |-> AllPairs(t),
   dimensionOrder |-> IF xFirst THEN <<0, 1>> ELSE <<1, 0>>]

XYZ(t, xFirst, xSecond, yFirst, ySecond, order) ==
  [topology |-> t, router |-> "FourWayRouter", protocol |-> "XyzRouting",
   routeXFirst |-> xFirst, routeXSecond |-> xSecond,
   routeYFirst |-> yFirst, routeYSecond |-> ySecond,
   flows |-> AllPairs(t), dimensionOrder |-> order]

DOR(t, order) ==
  [topology |-> t, router |-> "FourWayRouter", protocol |-> "DorRouting",
   routingOrder |-> order, flows |-> AllPairs(t), dimensionOrder |-> order]

\* Adaptive routing only with flows that go forward, or back, in both dimensions.
SameSense(t) ==
  {f \in AllPairs(t) :
     \/ \A dim \in {0, 1} : Coordinates(t, f[1])[dim] <= Coordinates(t, f[2])[dim]
     \/ \A dim \in {0, 1} : Coordinates(t, f[1])[dim] >= Coordinates(t, f[2])[dim]}

Adaptive(t, protocol) ==
  [topology |-> t, router |-> "FourWayRouter", protocol |-> protocol,
   flows |-> SameSense(t), dimensionOrder |-> <<>>]

\* The Irvine mesh only with flows along its lines.
Irvine(t) ==
  [XY(t, TRUE) EXCEPT !.router = "IrvineRouter",
     !.flows = {f \in AllPairs(t) : Coordinates(t, f[1])[1] = Coordinates(t, f[2])[1]}]

\* What the theorems of NocMeshProofs are about.
MeshNoc ==
  {XY(Mesh, TRUE), XY(Mesh, FALSE),
   XY(Mesh2D(1, 4), TRUE),
   XYZ(Cube, TRUE, FALSE, FALSE, TRUE, <<0, 1, 2>>),
   XYZ(Cube, TRUE, FALSE, FALSE, FALSE, <<0, 2, 1>>),
   XYZ(Cube, FALSE, TRUE, TRUE, FALSE, <<1, 0, 2>>),
   XYZ(Cube, FALSE, FALSE, TRUE, FALSE, <<1, 2, 0>>),
   XYZ(Cube, FALSE, TRUE, FALSE, FALSE, <<2, 0, 1>>),
   DOR(MeshND(SmallSize, 12), <<1, 2, 0>>)}

ASSUME MeshNocAssumption ==
  \A n \in MeshNoc : DimensionOrderMesh(n)

AllNoc ==
  MeshNoc \cup
  {XY(Torus, TRUE), XY(Torus, FALSE),
   Irvine(IrvineMesh2D(4, 8)),
   Adaptive(Mesh, "SoRouting"), Adaptive(Mesh, "SlbRouting"),
   XYZ(TorusCube, FALSE, FALSE, FALSE, TRUE, <<2, 1, 0>>),
   DOR(TorusND(RingSize, 20), <<1, 0>>)}

\* A flit between the lines of an Irvine mesh.
IrvineVertical ==
  {[Irvine(IrvineMesh2D(4, 12)) EXCEPT !.flows = AllPairs(IrvineMesh2D(4, 12))]}

\* Self optimized routing between all nodes.
SoEverywhere == {[Adaptive(Mesh, "SoRouting") EXCEPT !.flows = AllPairs(Mesh)]}

=============================================================================
