--------------------------- MODULE MCMeshTransport ---------------------------
(***************************************************************************)
(* Two meshes and their traffic for TLC.                                   *)
(***************************************************************************)
EXTENDS NocMesh

\* Traffic between opposite corners of a 2x2 mesh: all four turns are wanted.
CornerSize == [k \in {0, 1} |-> 2]
CornerNetwork ==
  [topology |-> MeshND(CornerSize, 4), router |-> "FourWayRouter",
   protocol |-> "DorRouting", routingOrder |-> <<0, 1>>]
CornerFlow == {<<0, 3>>, <<1, 2>>, <<2, 1>>, <<3, 0>>}

\* Traffic on a line of three nodes: two flows share the link from 1 to 2, one
\* comes the other way.
LineNetwork ==
  [topology |-> Mesh2D(3, 3), router |-> "FourWayRouter",
   protocol |-> "XyRouting", routeXFirst |-> TRUE]
LineFlow == {<<0, 2>>, <<1, 2>>, <<2, 0>>}

=============================================================================
