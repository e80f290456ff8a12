---------------------------- MODULE NocTopology ----------------------------
(***************************************************************************)
(* The topologies of src/noc/topology: what Install builds and which       *)
(* distances GetDestinationRelativeDimensionalPosition computes.           *)
(*                                                                         *)
(* A topology is a record: its class, the attributes, how many nodes the   *)
(* container has, and the channels.  A channel is known by the node that   *)
(* gets its FORWARD net device, the node that gets its BACK net device,    *)
(* and the dimension.  `number' tells channels between the same two nodes  *)
(* apart, in the order in which Install creates them: 2 is the channel     *)
(* that closes a ring, or the second vertical channel of the Irvine mesh.  *)
(* A net device is <<node, direction, dimension, number>>.                 *)
(***************************************************************************)
EXTENDS NocHeader, Integers
Funcs == INSTANCE Functions

Channel(forward, back, dim, number) ==
  [forward |-> forward, back |-> back, dim |-> dim, number |-> number]

Opposite(direction) == IF direction = "FORWARD" THEN "BACK" ELSE "FORWARD"

(***************************************************************************)
(* Net devices.                                                            *)
(***************************************************************************)
ForwardDevice(c) == <<c.forward, "FORWARD", c.dim, c.number>>
BackDevice(c) == <<c.back, "BACK", c.dim, c.number>>

NetDevicesOf(channels) == {ForwardDevice(c) : c \in channels} \cup {BackDevice(c) : c \in channels}

\* What the channels make: the devices of every node, and for every device the one
\* at the other end of its channel.
Devices(channels, nodes) ==
  [n \in 0 .. nodes - 1 |-> {d \in NetDevicesOf(channels) : d[1] = n}]

Peers(channels) ==
  [d \in NetDevicesOf(channels) |->
     IF d[2] = "FORWARD" THEN BackDevice(CHOOSE c \in channels : d = ForwardDevice(c))
                         ELSE ForwardDevice(CHOOSE c \in channels : d = BackDevice(c))]

\* What Install makes, with the attributes of two, three and more dimensions.
Installed2D(class, hSize, nodes, channels) ==
  [class |-> class, hSize |-> hSize, nodes |-> nodes, channels |-> channels,
   devices |-> Devices(channels, nodes), peer |-> Peers(channels)]
Installed3D(class, hSize, vSize, nodes, channels) ==
  [class |-> class, hSize |-> hSize, vSize |-> vSize, nodes |-> nodes, channels |-> channels,
   devices |-> Devices(channels, nodes), peer |-> Peers(channels)]
InstalledND(class, size, nodes, channels) ==
  [class |-> class, size |-> size, nodes |-> nodes, channels |-> channels,
   devices |-> Devices(channels, nodes), peer |-> Peers(channels)]

TopologyNode(t) == 0 .. t.nodes - 1
NetDevices(t) == DOMAIN t.peer

(***************************************************************************)
(* What the Install loops of several classes have in common.               *)
(***************************************************************************)

\* Nodes next to each other; no channel leads from the end of a line to the next
\* line, except when a line is one node long.
HorizontalChannels(hSize, nodes) ==
  {Channel(i, i + 1, 0, 1) : i \in {i \in 0 .. nodes - 2 : i = 0 \/ (i + 1) % hSize # 0}}

\* Each of these nodes, and the node `step' further.
StepChannels(step, dim, from) == {Channel(i, i + step, dim, 1) : i \in from}

\* The channels that close the rings of `length' nodes which are `step' apart.
RingChannels(step, length, dim, nodes) ==
  {Channel(i + (length - 1) * step, i, dim, 2) :
     i \in {i \in 0 .. nodes - 1 : i % (length * step) < step}}

(***************************************************************************)
(* The classes.                                                            *)
(***************************************************************************)
Mesh2D(hSize, nodes) ==
  Installed2D("Mesh2D", hSize, nodes,
    HorizontalChannels(hSize, nodes)
      \cup StepChannels(hSize, 1, 0 .. nodes - hSize - 1))

\* A node of the last line of a layer has no channel upwards in its layer.
LayerChannels(hSize, vSize, nodes) ==
  StepChannels(hSize, 1,
    {i \in 0 .. nodes - 1 : i % (hSize * vSize) < hSize * vSize - hSize})

Mesh3DUpChannels(hSize, vSize, nodes) ==
  StepChannels(hSize * vSize, 2, 0 .. nodes - hSize * vSize - 1)

Mesh3D(hSize, vSize, nodes) ==
  Installed3D("Mesh3D", hSize, vSize, nodes,
    HorizontalChannels(hSize, nodes) \cup LayerChannels(hSize, vSize, nodes)
      \cup Mesh3DUpChannels(hSize, vSize, nodes))

\* How many nodes the dimensions below k have together.
GetNumberOfNodes(size, k) == Funcs!FoldFunctionOnSet(LAMBDA x, y : x * y, 1, size, 0 .. k - 1)

MeshNDChannels(size, nodes) ==
  UNION {StepChannels(GetNumberOfNodes(size, k), k,
           {i \in 0 .. nodes - 1 : i % GetNumberOfNodes(size, k + 1)
                                    < GetNumberOfNodes(size, k + 1) - GetNumberOfNodes(size, k)}) :
         k \in DOMAIN size}

MeshND(size, nodes) ==
  InstalledND("MeshND", size, nodes, MeshNDChannels(size, nodes))

Torus2DHorizontalChannels(hSize, nodes) ==
  HorizontalChannels(hSize, nodes) \cup RingChannels(1, hSize, 0, nodes)

Torus2DVerticalChannels(hSize, nodes) ==
  StepChannels(hSize, 1, 0 .. nodes - hSize - 1)
    \cup RingChannels(hSize, nodes \div hSize, 1, nodes)

\* Only with the vSize that the container has lines for: Install does not read the
\* attribute, and distances would be taken modulo another number.
Torus2D(hSize, nodes) ==
  Installed2D("Torus2D", hSize, nodes,
    Torus2DHorizontalChannels(hSize, nodes)
      \cup Torus2DVerticalChannels(hSize, nodes))

Torus3DHorizontalChannels(hSize, nodes) ==
  HorizontalChannels(hSize, nodes) \cup RingChannels(1, hSize, 0, nodes)
Torus3DVerticalChannels(hSize, vSize, nodes) ==
  LayerChannels(hSize, vSize, nodes) \cup RingChannels(hSize, vSize, 1, nodes)
Torus3DUpChannels(hSize, vSize, nodes) ==
  StepChannels(hSize * vSize, 2, 0 .. nodes - hSize * vSize - 1)
    \cup RingChannels(hSize * vSize, nodes \div (hSize * vSize), 2, nodes)

Torus3D(hSize, vSize, nodes) ==
  Installed3D("Torus3D", hSize, vSize, nodes,
    Torus3DHorizontalChannels(hSize, nodes)
      \cup Torus3DVerticalChannels(hSize, vSize, nodes)
      \cup Torus3DUpChannels(hSize, vSize, nodes))

TorusNDChannels(size, nodes) ==
  UNION {StepChannels(GetNumberOfNodes(size, k), k,
           {i \in 0 .. nodes - 1 : i % GetNumberOfNodes(size, k + 1)
                                    < GetNumberOfNodes(size, k + 1) - GetNumberOfNodes(size, k)})
           \cup RingChannels(GetNumberOfNodes(size, k), size[k], k, nodes) :
         k \in DOMAIN size}

TorusND(size, nodes) ==
  InstalledND("TorusND", size, nodes, TorusNDChannels(size, nodes))

\* Two channels for every vertical pair of nodes.  Here the node of the later line
\* gets the FORWARD device.
IrvineVerticalChannels(hSize, nodes) ==
  {Channel(i + hSize, i, 1, number) : i \in 0 .. nodes - hSize - 1, number \in {1, 2}}

IrvineMesh2D(hSize, nodes) ==
  Installed2D("IrvineMesh2D", hSize, nodes,
    HorizontalChannels(hSize, nodes) \cup IrvineVerticalChannels(hSize, nodes))

(***************************************************************************)
(* Relative positions.                                                     *)
(***************************************************************************)
\* A direction bit, and the distance along a line.
LinePosition(source, destination) ==
  [dim \in DOMAIN source |->
     LET s == source[dim]
         d == destination[dim]
     IN IF d < s THEN WithDirectionBit(s - d) ELSE d - s]

\* Mutant: the difference is not taken modulo the size.
RingPositionWithoutModulo(source, destination, size) ==
  [dim \in DOMAIN source |->
     LET offset == destination[dim] - source[dim]
     IN IF offset > size[dim] \div 2
        THEN WithDirectionBit(size[dim] - offset)
        ELSE offset]

\* Mutant: one half is rounded up.
RingPositionRoundedUp(source, destination, size) ==
  [dim \in DOMAIN source |->
     LET offset == (destination[dim] - source[dim]) % size[dim]
     IN IF offset > (size[dim] + 1) \div 2
        THEN WithDirectionBit(size[dim] - offset)
        ELSE offset]

\* The shorter way around a ring; forward when both are equally long.
RingPosition(source, destination, size) ==
  [dim \in DOMAIN source |->
     LET offset == (destination[dim] - source[dim]) % size[dim]
     IN IF offset > size[dim] \div 2
        THEN WithDirectionBit(size[dim] - offset)
        ELSE offset]

\* A uint8_t, or a wider integer; the sizes are below 128, so that a distance has
\* room beside the direction bit.
Coordinates2D(t, n) ==
  [dim \in {0, 1} |-> ToByte(IF dim = 0 THEN n % t.hSize ELSE n \div t.hSize)]
Coordinates3D(t, n) ==
  [dim \in 0 .. 2 |-> ToByte(CASE dim = 0 -> n % t.hSize
                               [] dim = 1 -> (n % (t.hSize * t.vSize)) \div t.hSize
                               [] dim = 2 -> n \div (t.hSize * t.vSize))]
CoordinatesND(t, n) ==
  [k \in DOMAIN t.size |-> (n \div GetNumberOfNodes(t.size, k)) % t.size[k]]

Mesh2DPosition(t, s, d) == LinePosition(Coordinates2D(t, s), Coordinates2D(t, d))
Mesh3DPosition(t, s, d) == LinePosition(Coordinates3D(t, s), Coordinates3D(t, d))
MeshNDPosition(t, s, d) == LinePosition(CoordinatesND(t, s), CoordinatesND(t, d))
IrvinePosition(t, s, d) == LinePosition(Coordinates2D(t, s), Coordinates2D(t, d))

\* The attribute vSize and the number of lines are the same number (see Torus2D).
Torus2DPosition(t, s, d) ==
  RingPosition(Coordinates2D(t, s), Coordinates2D(t, d),
    [dim \in {0, 1} |-> IF dim = 0 THEN t.hSize ELSE t.nodes \div t.hSize])

Torus3DPosition(t, s, d) ==
  RingPosition(Coordinates3D(t, s), Coordinates3D(t, d),
    [dim \in 0 .. 2 |-> CASE dim = 0 -> t.hSize [] dim = 1 -> t.vSize
                          [] dim = 2 -> t.nodes \div (t.hSize * t.vSize)])

TorusNDPosition(t, s, d) ==
  RingPosition(CoordinatesND(t, s), CoordinatesND(t, d), t.size)

GetDestinationRelativeDimensionalPosition(t, s, d) ==
  CASE t.class = "Mesh2D"       -> Mesh2DPosition(t, s, d)
    [] t.class = "Mesh3D"       -> Mesh3DPosition(t, s, d)
    [] t.class = "MeshND"       -> MeshNDPosition(t, s, d)
    [] t.class = "Torus2D"      -> Torus2DPosition(t, s, d)
    [] t.class = "Torus3D"      -> Torus3DPosition(t, s, d)
    [] t.class = "TorusND"      -> TorusNDPosition(t, s, d)
    [] t.class = "IrvineMesh2D" -> IrvinePosition(t, s, d)

Coordinates(t, n) ==
  CASE t.class \in {"Mesh2D", "Torus2D", "IrvineMesh2D"} -> Coordinates2D(t, n)
    [] t.class \in {"Mesh3D", "Torus3D"} -> Coordinates3D(t, n)
    [] t.class \in {"MeshND", "TorusND"} -> CoordinatesND(t, n)

\* The header a traffic generator puts in a head flit.
HeaderOfHead(t, s, d) ==
  [distance |-> GetDestinationRelativeDimensionalPosition(t, s, d),
   source |-> Coordinates(t, s)]

=============================================================================
