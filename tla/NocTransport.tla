---------------------------- MODULE NocTransport ----------------------------
(***************************************************************************)
(* How flits travel from one NoC node to another: NocNetDevice (input      *)
(* queues, retries), NocChannel (links), NocNode and NocRouter (handing a  *)
(* flit over), NocRoutingProtocol (one route per packet and node) and the  *)
(* switching protocol, for any topology and any routing algorithm.         *)
(*                                                                         *)
(* A flit stays in the input queue of the net device that sends it until   *)
(* TransmitEnd.  Every entry of a queue remembers where it goes (SrcDest): *)
(* the output net device `via' of this node, and the net device `to' of    *)
(* the destination node.  Each action below is one simulator event with    *)
(* all the calls nested in it; simulated time is left out (NocWakeup has   *)
(* the timing of the retries), so events are handled in any order.         *)
(*                                                                         *)
(* Left out: addresses (a device is its address), traces, power counters,  *)
(* load components (FourWayRouter has none), and the flit counting of the  *)
(* switching protocols: the count in the tag is 0 for every packet, so     *)
(* both branches of the counting code let a data flit pass.                *)
(*                                                                         *)
(* A definition marked `mutant' is the next definition with a mistake in   *)
(* it, kept to show which property notices that mistake.                   *)
(***************************************************************************)
EXTENDS Naturals, Sequences

CONSTANTS
  Node,
  NetDevice,                \* the net devices that end channels
  InjectionDevice,          \* the internal input device of every node
  NodeOf,                   \* the node a device was added to
  Peer,                     \* the device at the other end of the channel
  MaxPackets,               \* the size of the input queue of a net device
  FullDuplex,               \* attribute of NocChannel
  Switching,                \* "WORMHOLE", "SAF" or "VCT"
  Header, EmptyHeader,      \* headers, and those NocHeader::IsEmpty is true for
  NoHeader,                 \* what a data flit has in place of a header
  NewHeader(_, _),          \* the header of a packet from a node to a node
  RequestNewRoute(_, _, _), \* the routes of the algorithm, {} when it fails
  Flow,                     \* the <<source, destination>> pairs of the traffic
  MaxInjected               \* bound: how many flits are injected

InputDevice == {InjectionDevice[n] : n \in Node}
Device == NetDevice \cup InputDevice

ASSUME TopologyAssumption ==
  /\ NodeOf \in [Device -> Node]
  /\ InjectionDevice \in [Node -> InputDevice]
  /\ NetDevice \cap InputDevice = {}
  /\ Peer \in [NetDevice -> NetDevice]
  /\ \A d \in NetDevice : Peer[d] # d /\ Peer[Peer[d]] = d
  /\ \A n \in Node : NodeOf[InjectionDevice[n]] = n

ASSUME ConfigurationAssumption ==
  /\ MaxPackets \in Nat \ {0}
  /\ FullDuplex \in BOOLEAN
  /\ Switching \in {"WORMHOLE", "SAF", "VCT"}
  /\ MaxInjected \in Nat
  /\ Flow \subseteq {f \in Node \X Node : f[1] # f[2]}
  /\ EmptyHeader \subseteq Header

ASSUME RoutingAssumption ==
  /\ \A s, t \in Node : NewHeader(s, t) \in Header
  /\ \A d \in Device, t \in Node, h \in Header :
       RequestNewRoute(d, t, h)
         \subseteq {r \in [via : NetDevice, to : NetDevice, header : Header] :
                      NodeOf[r.to] = t}

\* One of the two links of a full duplex channel, or the link both ends share,
\* as the set of the net devices that send over it.
Link(v) == IF FullDuplex THEN {v} ELSE {v, Peer[v]}
Links == {Link(v) : v \in NetDevice}

\* A flit with its packet tag: `head' is the UID of its head flit.
Flit ==
  [uid : 1 .. MaxInjected, head : 1 .. MaxInjected, type : {"HEAD"},
   header : Header, blocked : BOOLEAN]
    \cup [uid : 1 .. MaxInjected, head : 1 .. MaxInjected, type : {"DATA", "TAIL"},
          header : {NoHeader}, blocked : BOOLEAN]
Entry == [flit : Flit, via : NetDevice, to : NetDevice]
InjectedFlit ==
  [head : 1 .. MaxInjected, type : {"HEAD", "DATA", "TAIL"}, src : Node, dst : Node]

VARIABLES
  inQueue,         \* m_inQueue with m_pktSrcDestMap, of every device
  linkState,       \* m_state
  transmitEnd,     \* the pending TransmitEnd events, with m_currentPkt
  originalDevice,  \* m_packetOriginalDevice
  routes,          \* m_packetSourceNetDevices, m_packetDestinationNetDevices
  injected,        \* the flits injected so far; a flit's UID is its position
  received,        \* the flits the processing elements received, and where
  dropped,         \* the flits NocNetDevice::Drop was called for
  aborted          \* "none", or the assertion that stopped the program

vars == <<inQueue, linkState, transmitEnd, originalDevice, routes, injected,
          received, dropped, aborted>>

TypeOK ==
  /\ inQueue \in [Device -> Seq(Entry)]
  /\ linkState \in [Links -> {"IDLE", "PROPAGATING"}]
  /\ transmitEnd \subseteq Entry
  /\ originalDevice \subseteq [link : Links, uid : 1 .. MaxInjected, device : Device]
  /\ routes \subseteq [node : Node, head : 1 .. MaxInjected, via : NetDevice, to : NetDevice]
  /\ injected \in Seq(InjectedFlit) /\ Len(injected) <= MaxInjected
  /\ received \subseteq [uid : 1 .. MaxInjected, node : Node]
  /\ dropped \subseteq 1 .. MaxInjected
  /\ aborted \in {"none", "no route", "no transmission", "wrong packet dequeued"}

Init ==
  /\ inQueue = [d \in Device |-> <<>>]
  /\ linkState = [l \in Links |-> "IDLE"]
  /\ transmitEnd = {}
  /\ originalDevice = {}
  /\ routes = {}
  /\ injected = <<>>
  /\ received = {}
  /\ dropped = {}
  /\ aborted = "none"

\* A failed assertion: the program stops.
Abort(assertion) ==
  /\ aborted' = assertion
  /\ UNCHANGED <<inQueue, linkState, transmitEnd, originalDevice, routes, dropped>>

(***************************************************************************)
(* The calls nested in an event.  They take the values that the event has  *)
(* computed so far: the queues q, the owners od, the pending events ev.    *)
(* The link in `freed' is still PROPAGATING while the call runs and is     *)
(* IDLE when the event is over.                                            *)
(***************************************************************************)

\* DropTailQueue of the device (external): the internal device is unbounded.
HasRoom(d, queue) == d \in InputDevice \/ Len(queue) < MaxPackets

Enqueue(q, d, e) == [q EXCEPT ![d] = Append(@, e)]

DequeueForgotten(q, d) == q                                            \* mutant
Dequeue(q, d) == [q EXCEPT ![d] = Tail(@)]

\* NocSwitchingProtocol::ApplyFlowControl for the flit that has just arrived.  A
\* head whose header looks empty passes for a data flit.
PassesForHead(f) == f.type = "HEAD" /\ f.header \notin EmptyHeader
SafApplyFlowControl(f) == ~PassesForHead(f)
VctApplyFlowControl(f) == ~(PassesForHead(f) /\ f.blocked)
ApplyFlowControl(f) ==
  CASE Switching = "WORMHOLE" -> TRUE
    [] Switching = "SAF" -> SafApplyFlowControl(f)
    [] Switching = "VCT" -> VctApplyFlowControl(f)

\* NocChannel::TransmitStart remembers the sender of a flit, busy link or not,
\* unless it already knows one.
RememberSender(od, d, e) ==
  LET l == Link(e.via)
  IN IF \E o \in od : o.link = l /\ o.uid = e.flit.uid
     THEN od
     ELSE od \cup {[link |-> l, uid |-> e.flit.uid, device |-> d]}

\* TransmitEnd forgets it.
ForgetSender(od, t) ==
  {o \in od : ~(o.link = Link(t.via) /\ o.uid = t.flit.uid)}

\* Mutant: the comparison with the queue size is one off.
CanStartIntoFullQueue(e, q) ==
  linkState[Link(e.via)] = "IDLE" /\ Len(q[Peer[e.via]]) # MaxPackets + 1

\* Whether TransmitStart lets e start: its link is idle, the other end has room.
CanStart(e, q) ==
  /\ linkState[Link(e.via)] = "IDLE"
  /\ Len(q[Peer[e.via]]) # MaxPackets

\* Mutant: TransmitEnd does not set the state back.
NeverFreed(l, taken, freed) ==
  IF l \in taken THEN "PROPAGATING" ELSE linkState[l]

\* The state of link l after the event: Send took a link, or TransmitEnd freed one.
StateAfter(l, taken, freed) ==
  IF l \in taken THEN "PROPAGATING" ELSE IF l \in freed THEN "IDLE" ELSE linkState[l]

\* NocNetDevice::ProcessBufferedPackets, with TransmitStart and Send: the flit at
\* the head of the queue of d is put on its link when routing is allowed.
ProcessBufferedPackets(d, q, od, ev, freed, canDoRouting) ==
  LET tries  == q[d] # <<>> /\ canDoRouting
      e      == Head(q[d])
      starts == tries /\ CanStart(e, q)
  IN /\ inQueue' = q
     /\ originalDevice' = IF tries THEN RememberSender(od, d, e) ELSE od
     /\ transmitEnd' = IF starts THEN ev \cup {e} ELSE ev
     /\ linkState' =
          [l \in Links |-> StateAfter(l, IF starts THEN {Link(e.via)} ELSE {}, freed)]

MarkHeadPacketAsBlocked(f) ==
  IF f.type = "HEAD" THEN [f EXCEPT !.blocked = TRUE] ELSE f

\* NocNetDevice::SendFrom: buffer the flit, then process the queue.  A head that
\* arrives while the first flit of the queue finds its link busy is marked.
SendFrom(d, e, q, od, ev, freed) ==
  LET enqueued == HasRoom(d, q[d])
      first    == IF q[d] = <<>> THEN e ELSE Head(q[d])
      isBusy   == linkState[Link(first.via)] # "IDLE"
      flit     == IF isBusy THEN MarkHeadPacketAsBlocked(e.flit) ELSE e.flit
  IN /\ dropped' = IF enqueued THEN dropped ELSE dropped \cup {e.flit.uid}
     /\ ProcessBufferedPackets(d,
          IF enqueued THEN Enqueue(q, d, [e EXCEPT !.flit = flit]) ELSE q,
          od, ev, freed, ApplyFlowControl(flit))

\* Mutant: a body flit takes the route of any head that was at the node.
RequestAnyRoute(d, f, dst) ==
  IF f.type = "HEAD" THEN RequestNewRoute(d, dst, f.header)
  ELSE {[via |-> r.via, to |-> r.to, header |-> f.header] : r \in {r \in routes : r.node = NodeOf[d]}}

\* NocRoutingProtocol::RequestRoute: a head flit gets a new route, the others the
\* one their head got at this node.
RequestRoute(d, f, dst) ==
  IF f.type = "HEAD" THEN RequestNewRoute(d, dst, f.header)
  ELSE {[via |-> r.via, to |-> r.to, header |-> f.header] :
          r \in {r \in routes : r.node = NodeOf[d] /\ r.head = f.head}}

\* NocRouter::ManageFlit: a node does not route to itself.
ManageFlit(d, f, dst) == IF NodeOf[d] = dst THEN {} ELSE RequestRoute(d, f, dst)

\* Mutant: a node remembers one route at a time.
RememberOneRoute(d, f, r) ==
  {x \in routes : x.node # NodeOf[d]}
    \cup {[node |-> NodeOf[d], head |-> f.uid, via |-> r.via, to |-> r.to]}

\* The route table of the node of d after the head flit f got the route r.
RememberRoute(d, f, r) ==
  {x \in routes : ~(x.node = NodeOf[d] /\ x.head = f.uid)}
    \cup {[node |-> NodeOf[d], head |-> f.uid, via |-> r.via, to |-> r.to]}

\* NocNode::Send and DoSend: route the flit, let its device send it.  Without a
\* route an assertion fails or the null route is used.
NodeSend(d, f, dst, q, od, ev, freed) ==
  IF ManageFlit(d, f, dst) = {} THEN Abort("no route")
  ELSE \E r \in ManageFlit(d, f, dst) :
         /\ routes' = IF f.type = "HEAD" THEN RememberRoute(d, f, r) ELSE routes
         /\ SendFrom(d, [flit |-> [f EXCEPT !.header = r.header],
                         via |-> r.via, to |-> r.to], q, od, ev, freed)
         /\ UNCHANGED aborted

(***************************************************************************)
(* The events.                                                             *)
(***************************************************************************)
NextUid == Len(injected) + 1

\* NocNode::InjectPacket, called by a traffic generator of node n.
Inject(n, f, dst) ==
  /\ aborted = "none"
  /\ Len(injected) < MaxInjected
  /\ NodeSend(InjectionDevice[n], f, dst, inQueue, originalDevice, transmitEnd, {})
  /\ injected' = Append(injected,
                   [head |-> f.head, type |-> f.type, src |-> n, dst |-> dst])
  /\ UNCHANGED received

InjectHead(n, dst) ==
  /\ <<n, dst>> \in Flow
  /\ Inject(n, [uid |-> NextUid, head |-> NextUid, type |-> "HEAD",
                header |-> NewHeader(n, dst), blocked |-> FALSE], dst)

\* The packets whose tail flit has not been injected yet.
OpenPackets(n) ==
  {h \in 1 .. Len(injected) :
     /\ injected[h].type = "HEAD" /\ injected[h].src = n
     /\ \A u \in 1 .. Len(injected) : ~(injected[u].head = h /\ injected[u].type = "TAIL")}

InjectBody(n, type) ==
  \E h \in OpenPackets(n) :
    Inject(n, [uid |-> NextUid, head |-> h, type |-> type,
               header |-> NoHeader, blocked |-> FALSE], injected[h].dst)

\* Senders of t according to the channel it travels on.
OriginalDevices(t) ==
  {o.device : o \in {o \in originalDevice : o.link = Link(t.via) /\ o.uid = t.flit.uid}}

\* NocNetDevice::Receive of the device rx: the flit is for it, or its node sends it
\* on.
Receive(rx, t, q, od, ev) ==
  IF t.to = rx
  THEN /\ received' = received \cup {[uid |-> t.flit.uid, node |-> NodeOf[rx]]}
       /\ inQueue' = q
       /\ originalDevice' = od
       /\ transmitEnd' = ev
       /\ linkState' = [linkState EXCEPT ![Link(t.via)] = "IDLE"]
       /\ UNCHANGED <<routes, dropped, aborted>>
  ELSE /\ NodeSend(rx, t.flit, NodeOf[t.to], q, od, ev, {Link(t.via)})
       /\ UNCHANGED received

\* NocChannel::TransmitEnd: the sender d dequeues the flit, then the device at the
\* other end receives it, and only then is the link idle again.  It asserts that
\* the link is PROPAGATING, that the sender is known, and that the flit dequeued is t.
TransmitEnd(t) ==
  /\ aborted = "none"
  /\ t \in transmitEnd
  /\ UNCHANGED injected
  /\ IF linkState[Link(t.via)] # "PROPAGATING" \/ OriginalDevices(t) = {}
     THEN Abort("no transmission") /\ UNCHANGED received
     ELSE \E d \in OriginalDevices(t) :
            IF inQueue[d] = <<>> \/ Head(inQueue[d]).flit.uid # t.flit.uid
            THEN Abort("wrong packet dequeued") /\ UNCHANGED received
            ELSE Receive(Peer[t.via], t, Dequeue(inQueue, d),
                         ForgetSender(originalDevice, t), transmitEnd \ {t})

\* The scheduled ProcessBufferedPackets (originalHeader, 0): while the queue is not
\* empty an event is pending (NocWakeup), and it does not ask for flow control.
Retry(d) ==
  /\ aborted = "none"
  /\ inQueue[d] # <<>>
  /\ ProcessBufferedPackets(d, inQueue, originalDevice, transmitEnd, {}, TRUE)
  /\ UNCHANGED <<routes, injected, received, dropped, aborted>>

Next ==
  \/ \E n, dst \in Node : InjectHead(n, dst)
  \/ \E n \in Node, type \in {"DATA", "TAIL"} : InjectBody(n, type)
  \/ \E t \in transmitEnd : TransmitEnd(t)
  \/ \E d \in Device : Retry(d)

Spec == Init /\ [][Next]_vars

(***************************************************************************)
(* Fairness: a TransmitEnd event is scheduled a finite time ahead, and a   *)
(* net device with a non-empty queue retries at every clock cycle, so that *)
(* a first flit which can leave from some time on does leave.              *)
(***************************************************************************)
TransmitEndOver(v) == \E t \in transmitEnd : t.via = v /\ TransmitEnd(t)

Fairness ==
  /\ \A v \in NetDevice : WF_vars(TransmitEndOver(v))
  /\ \A d \in Device : WF_vars(Retry(d))

FairSpec == Spec /\ Fairness

(***************************************************************************)
(* Safety.                                                                 *)
(***************************************************************************)

\* No flit is dropped: TransmitStart only starts towards a queue that still has
\* room when TransmitEnd hands the flit over, however the events interleave.
NoDrop == dropped = {}

\* No assertion of TransmitEnd or of the routing protocols ever fails.
NoAssertionFails == aborted = "none"

\* The flits in flight: each is alone on its link, the link is PROPAGATING, the one
\* device the channel holds as its sender has that flit at the head of its queue,
\* and the device at the other end keeps room for it.  A link that is not IDLE
\* has a flit in flight, otherwise it would stay busy for ever.
Flight ==
  /\ \A t, u \in transmitEnd : Link(t.via) = Link(u.via) => t = u
  /\ \A t \in transmitEnd :
       /\ linkState[Link(t.via)] = "PROPAGATING"
       /\ Len(inQueue[Peer[t.via]]) < MaxPackets
       /\ \E d \in Device :
            /\ OriginalDevices(t) = {d}
            /\ inQueue[d] # <<>>
            /\ Head(inQueue[d]).flit.uid = t.flit.uid
            /\ Head(inQueue[d]).via = t.via
            /\ Head(inQueue[d]).to = t.to
  /\ \A l \in Links :
       linkState[l] = "PROPAGATING" => \E t \in transmitEnd : Link(t.via) = l

\* Whether one of the queues q holds the flit u.
Held(q, u) == \E d \in Device : \E i \in 1 .. Len(q[d]) : q[d][i].flit.uid = u

\* No flit is at two places of the queues q.
Distinct(q) ==
  \A d, e \in Device : \A i \in 1 .. Len(q[d]), j \in 1 .. Len(q[e]) :
    q[d][i].flit.uid = q[e][j].flit.uid => d = e /\ i = j

\* A flit is neither lost nor duplicated by the hand over from queue to queue: it
\* is at one place of one queue until it is received, then at none.
Conservation ==
  /\ Distinct(inQueue)
  /\ \A r, s \in received : r.uid = s.uid => r = s
  /\ aborted = "none" =>
       \A u \in 1 .. Len(injected) :
         Held(inQueue, u) <=> ~\E r \in received : r.uid = u

\* The input queues are never all stuck: while a flit is queued something is in
\* flight or the first flit of some queue can start.
NoWedge ==
  (\E d \in Device : inQueue[d] # <<>>)
    => \/ transmitEnd # {}
       \/ \E d \in Device : inQueue[d] # <<>> /\ CanStart(Head(inQueue[d]), inQueue)

(***************************************************************************)
(* Routing algorithms that lead to the destination, and those that cannot  *)
(* block each other.  Way is a set that holds the devices at which a head  *)
(* flit may be, with where it goes and the header it then has; Distance    *)
(* says how far a node is from a destination, Rank orders the channels.    *)
(***************************************************************************)

\* From where a flit is injected, every hop of a head brings it nearer to its node,
\* and the last one to the device that takes it.
RoutesLead(Way, Distance) ==
  /\ Way \subseteq [device : Device, to : Node, header : Header]
  /\ Distance \in [Node -> [Node -> Nat]] /\ \A n \in Node : Distance[n][n] = 0
  /\ \A f \in Flow :
       [device |-> InjectionDevice[f[1]], to |-> f[2], header |-> NewHeader(f[1], f[2])] \in Way
  /\ \A w \in Way :
       /\ NodeOf[w.device] # w.to
       /\ RequestNewRoute(w.device, w.to, w.header) # {}
       /\ \A r \in RequestNewRoute(w.device, w.to, w.header) :
            LET next == Peer[r.via]
            IN /\ Distance[NodeOf[next]][w.to] < Distance[NodeOf[w.device]][w.to]
               /\ IF NodeOf[next] = w.to THEN r.to = next
                  ELSE [device |-> next, to |-> w.to, header |-> r.header] \in Way

\* The order of the channels in which every head uses them: what it takes next comes
\* after what brought it here.
RoutesAscend(Way, Rank, Highest) ==
  /\ Highest \in Nat
  /\ Rank \in [NetDevice -> 0 .. Highest]
  /\ \A w \in Way : w.device \in NetDevice =>
       \A r \in RequestNewRoute(w.device, w.to, w.header) : Rank[Peer[w.device]] < Rank[r.via]

(***************************************************************************)
(* What NocDelivery calls sent and arrived.                                *)
(***************************************************************************)
Delivery == INSTANCE NocDelivery WITH sent <- injected, arrived <- received

\* Exactly once, at the right node, in the order of the packet.
DeliversInOrder == Delivery!DeliverySpec

\* And every flit, in the end, when the events are fair.
DeliversEveryFlit == Delivery!DeliveryFairSpec

=============================================================================
