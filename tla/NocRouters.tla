----------------------------- MODULE NocRouters -----------------------------
(***************************************************************************)
(* The net devices a router offers for a direction and a dimension:        *)
(* router/4way/4-way-router.cc and router/irvine/irvine-router.cc.         *)
(*                                                                         *)
(* A network is a record with at least a topology and a router.  Searches  *)
(* return a set: empty when the code returns 0.                            *)
(***************************************************************************)
EXTENDS NocTopology

\* The internal input devices have no direction and no channel.
FourWay == 0
Right == 1
Left == 2
InternalInputDevice(n, side) == <<n, "NONE", -1, side>>

InternalInputDevices(noc) ==
  {InternalInputDevice(n, side) :
     n \in TopologyNode(noc.topology),
     side \in IF noc.router = "IrvineRouter" THEN {Right, Left} ELSE {FourWay}}

NodeDevices(noc, n) == noc.topology.devices[n]

Towards(devices, direction, dim) == {d \in devices : d[2] = direction /\ d[3] = dim}

\* The device that was added first.
FirstOf(devices) == {d \in devices : \A e \in devices : d[4] <= e[4]}

(***************************************************************************)
(* The Irvine router is made of two routers.  A device that comes second   *)
(* in its vertical direction belongs to the left one; east and west are an *)
(* input of one and an output of the other.                                *)
(***************************************************************************)
IrvineSides == {Right, Left}

IrvineInputs(noc, n, side) ==
  {d \in NodeDevices(noc, n) :
     \/ d[3] = 1 /\ d[4] = side
     \/ d[3] = 0 /\ d[2] = (IF side = Right THEN "BACK" ELSE "FORWARD")}

\* Mutant: the horizontal outputs are those of the inputs.
IrvineOutputsOfInputs(noc, n, side) == IrvineInputs(noc, n, side)

IrvineOutputs(noc, n, side) ==
  {d \in NodeDevices(noc, n) :
     \/ d[3] = 1 /\ d[4] = side
     \/ d[3] = 0 /\ d[2] = (IF side = Right THEN "FORWARD" ELSE "BACK")}

\* isRightRouter and isLeftRouter: the side that device d is an input of.
SideOf(noc, d) ==
  CHOOSE side \in IrvineSides :
    d = InternalInputDevice(d[1], side) \/ d \in IrvineInputs(noc, d[1], side)

OtherSide(side) == IF side = Right THEN Left ELSE Right

\* The side of the sender is searched first.
IrvineGetInputNetDevice(noc, n, sender, direction, dim) ==
  LET side == SideOf(noc, sender)
      own == Towards(IrvineInputs(noc, n, side), direction, dim)
  IN IF own # {} THEN FirstOf(own)
     ELSE FirstOf(Towards(IrvineInputs(noc, n, OtherSide(side)), direction, dim))

IrvineGetOutputNetDevice(noc, n, sender, direction, dim) ==
  Towards(IrvineOutputs(noc, n, SideOf(noc, sender)), direction, dim)

\* East bound packets are injected on the right, the others on the left.
IrvineGetInjectionNetDevice(n, h) ==
  InternalInputDevice(n, IF HasForwardDirection(h, 0) THEN Right ELSE Left)

(***************************************************************************)
(* The four way router searches all its devices.                           *)
(***************************************************************************)
FourWayGetNetDevice(noc, n, direction, dim) ==
  FirstOf(Towards(NodeDevices(noc, n), direction, dim))

GetInputNetDevice(noc, n, sender, direction, dim) ==
  IF noc.router = "IrvineRouter"
  THEN IrvineGetInputNetDevice(noc, n, sender, direction, dim)
  ELSE FourWayGetNetDevice(noc, n, direction, dim)

GetOutputNetDevice(noc, n, sender, direction, dim) ==
  IF noc.router = "IrvineRouter"
  THEN IrvineGetOutputNetDevice(noc, n, sender, direction, dim)
  ELSE FourWayGetNetDevice(noc, n, direction, dim)

GetInjectionNetDevice(noc, n, h) ==
  IF noc.router = "IrvineRouter"
  THEN IrvineGetInjectionNetDevice(n, h)
  ELSE InternalInputDevice(n, FourWay)

=============================================================================
