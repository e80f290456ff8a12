------------------------------- MODULE NocMesh -------------------------------
(***************************************************************************)
(* NocTransport on a mesh with dimension order routing: the values its     *)
(* constants have there.                                                   *)
(***************************************************************************)
EXTENDS NocTransport, NocRouting

CONSTANT
  Network       \* the topology, the router, the protocol with its attributes

ASSUME MeshAssumption == DimensionOrderMesh(Network)

Mesh == Network.topology

MeshNode == TopologyNode(Mesh)
MeshNetDevice == NetDevices(Mesh)
MeshDevice == MeshNetDevice \cup InternalInputDevices(Network)
MeshPeer == Mesh.peer
MeshInjectionDevice == [n \in MeshNode |-> InternalInputDevice(n, FourWay)]
MeshNodeOf == [d \in MeshDevice |-> d[1]]

\* No distance on the mesh is longer than the greatest coordinate.
MeshDimension == DOMAIN Coordinates(Mesh, 0)
MeshOffset ==
  {o \in 0 .. 127 : \E n \in MeshNode, dim \in MeshDimension : o <= Coordinates(Mesh, n)[dim]}
MeshHeader ==
  NocHeaders(MeshDimension, MeshOffset \cup {WithDirectionBit(o) : o \in MeshOffset}, MeshOffset)
MeshEmptyHeader == {h \in MeshHeader : IsEmpty(h)}

MeshNewHeader(s, d) == HeaderOfHead(Mesh, s, d)

MeshRequestNewRoute(source, destination, h) ==
  RouteOfProtocol(Network, source, destination, h)

\* The constants of NocTransport are those of the mesh.
ASSUME ConfiguredAsMesh ==
  /\ Node = MeshNode /\ NetDevice = MeshNetDevice /\ InjectionDevice = MeshInjectionDevice
  /\ NodeOf = MeshNodeOf /\ Peer = MeshPeer /\ Header = MeshHeader
  /\ \A s, t \in MeshNode : NewHeader(s, t) = MeshNewHeader(s, t)
  /\ \A d \in MeshDevice, t \in MeshNode, h \in MeshHeader :
       RequestNewRoute(d, t, h) = MeshRequestNewRoute(d, t, h)

=============================================================================
