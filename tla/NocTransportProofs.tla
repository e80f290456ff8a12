------------------------- MODULE NocTransportProofs -------------------------
(***************************************************************************)
(* For every topology, switching protocol and queue size: NocTransport     *)
(* keeps its types, drops no flit, loses and duplicates none, and no       *)
(* assertion of NocChannel::TransmitEnd fails, whatever the routing does.  *)
(* For every routing algorithm that leads to the destination no assertion  *)
(* fails at all and NocTransport implements NocDelivery; and when such an  *)
(* algorithm takes the channels in an order, the queues are never stuck.   *)
(*                                                                         *)
(* The first argument is about four values: the queues q, the senders od   *)
(* that the channels remember, the flits in flight ev and the state ls of  *)
(* the links.  NetInv relates them.  A TransmitEnd takes a flit out of     *)
(* them (DequeueKeepsNetInv), SendFrom puts it into the next queue         *)
(* (AppendKeepsNetInv), and ProcessBufferedPackets may start another       *)
(* (ProcessKeepsNetInv); between these the values are not those of any     *)
(* state, which is why NetInv takes them as parameters.                    *)
(*                                                                         *)
(* The second, under `Delivery in order', is about the queues, the routes  *)
(* that the nodes remember and the flits injected so far.                  *)
(***************************************************************************)
EXTENDS NocTransport, WellFoundedInduction, TLAPS

Sender == [link : Links, uid : 1 .. MaxInjected, device : Device]
LinkState == [Links -> {"IDLE", "PROPAGATING"}]

\* The queues of the net devices never hold more than they have room for.
Fits(q) == \A d \in NetDevice : Len(q[d]) <= MaxPackets

\* The channels remember a device for a flit only while it is the first of the
\* queue of that device and wants that link.
SendersAreFirst(q, od) ==
  \A o \in od :
    /\ q[o.device] # <<>>
    /\ q[o.device][1].flit.uid = o.uid
    /\ Link(q[o.device][1].via) = o.link

\* The channel of t remembers the device that has t at the head of its queue.
SenderKnown(t, q, od) ==
  \E o \in od :
    /\ o.link = Link(t.via) /\ o.uid = t.flit.uid
    /\ q[o.device][1] = t

\* A flit in flight is alone on its link, its sender is known and the other end
\* has room; a link that is not idle has a flit in flight.
InFlight(q, od, ev, ls) ==
  /\ \A t, u \in ev : Link(t.via) = Link(u.via) => t = u
  /\ \A t \in ev :
       /\ ls[Link(t.via)] = "PROPAGATING"
       /\ Len(q[Peer[t.via]]) < MaxPackets
       /\ SenderKnown(t, q, od)
  /\ \A l \in Links : ls[l] = "PROPAGATING" => \E t \in ev : Link(t.via) = l

NetInv(q, od, ev, ls) ==
  /\ q \in [Device -> Seq(Entry)] /\ od \subseteq Sender
  /\ ev \subseteq Entry /\ ls \in LinkState
  /\ Fits(q) /\ Distinct(q) /\ SendersAreFirst(q, od) /\ InFlight(q, od, ev, ls)

\* The state of the links once those in freed are idle.
Freed(freed) == [l \in Links |-> IF l \in freed THEN "IDLE" ELSE linkState[l]]

\* A flit can be put into the queue of d: it is unbounded, or it has room that no
\* flit in flight will need.
CanReceive(d, q, ev) ==
  d \in InputDevice \/ (Len(q[d]) < MaxPackets /\ \A t \in ev : Peer[t.via] # d)

\* Every flit that was injected and no other is queued or received, not both.
Accounted ==
  /\ \A u : Held(inQueue, u) => u \in 1 .. Len(injected)
  /\ \A r \in received : r.uid \in 1 .. Len(injected) /\ ~Held(inQueue, r.uid)
  /\ \A r, s \in received : r.uid = s.uid => r = s
  /\ aborted = "none" =>
       \A u \in 1 .. Len(injected) :
         Held(inQueue, u) \/ \E r \in received : r.uid = u

IInv ==
  /\ TypeOK
  /\ NetInv(inQueue, originalDevice, transmitEnd, linkState)
  /\ Accounted
  /\ NoDrop
  /\ aborted \in {"none", "no route"}

(***************************************************************************)
(* Topology.                                                               *)
(***************************************************************************)

\* Two devices that send over the same link are the same or each other's peer.
LEMMA SameLink ==
  ASSUME NEW v \in NetDevice, NEW w \in NetDevice, Link(v) = Link(w)
  PROVE  w = v \/ w = Peer[v]
BY TopologyAssumption DEF Link

\* The link over which a device receives is the one its peer sends over.
LEMMA ReceivingLink ==
  ASSUME NEW v \in NetDevice, NEW w \in NetDevice, Peer[v] = Peer[w]
  PROVE  v = w
BY TopologyAssumption

\* A link is found among the links.
LEMMA LinkOfDevice ==
  ASSUME NEW v \in NetDevice
  PROVE  Link(v) \in Links /\ Peer[v] \in NetDevice
BY TopologyAssumption DEF Links

(***************************************************************************)
(* The three changes of the queues.                                        *)
(***************************************************************************)

\* ProcessBufferedPackets of any device keeps NetInv: the flit it may start is the
\* first of its queue, the link is idle and the other end has room.
LEMMA ProcessKeepsNetInv ==
  ASSUME NEW d \in Device, NEW q, NEW od, NEW ev, NEW freed, NEW can \in BOOLEAN,
         linkState \in LinkState,
         NetInv(q, od, ev, Freed(freed)),
         ProcessBufferedPackets(d, q, od, ev, freed, can)
  PROVE  /\ inQueue' = q
         /\ NetInv(inQueue', originalDevice', transmitEnd', linkState')
<1> DEFINE tries  == q[d] # <<>> /\ can
           e      == Head(q[d])
           starts == tries /\ CanStart(e, q)
           new    == [link |-> Link(e.via), uid |-> e.flit.uid, device |-> d]
           od2    == IF tries THEN RememberSender(od, d, e) ELSE od
           ls     == Freed(freed)
<1>1. /\ q \in [Device -> Seq(Entry)] /\ od \subseteq Sender /\ ev \subseteq Entry
      /\ ls \in LinkState /\ Fits(q) /\ Distinct(q) /\ SendersAreFirst(q, od)
      /\ InFlight(q, od, ev, ls)
  BY DEF NetInv
<1>2. /\ inQueue' = q
      /\ originalDevice' = od2
      /\ transmitEnd' = IF starts THEN ev \cup {e} ELSE ev
      /\ linkState' = [l \in Links |->
           IF starts /\ l = Link(e.via) THEN "PROPAGATING" ELSE ls[l]]
  BY DEF ProcessBufferedPackets, StateAfter, Freed
<1>3. ASSUME q[d] # <<>>
      PROVE  /\ e \in Entry /\ e = q[d][1] /\ 1 \in 1 .. Len(q[d])
             /\ e.via \in NetDevice /\ e.flit.uid \in 1 .. MaxInjected
             /\ Link(e.via) \in Links
  <2>1. e \in Entry /\ e = q[d][1] /\ 1 \in 1 .. Len(q[d])
    BY <1>1, <1>3
  <2>2. e.via \in NetDevice /\ e.flit \in Flit
    BY <2>1 DEF Entry
  <2>3. e.flit.uid \in 1 .. MaxInjected
    BY <2>2 DEF Flit
  <2> QED
    BY <2>1, <2>2, <2>3, LinkOfDevice
<1>4. /\ od2 \subseteq Sender /\ SendersAreFirst(q, od2) /\ od \subseteq od2
      /\ tries => \E o \in od2 :
           o.link = Link(e.via) /\ o.uid = e.flit.uid /\ o.device = d
  <2>1. CASE ~tries
    BY <1>1, <2>1
  <2>2. CASE tries /\ \E o \in od : o.link = Link(e.via) /\ o.uid = e.flit.uid
    <3>1. PICK o \in od : o.link = Link(e.via) /\ o.uid = e.flit.uid
      BY <2>2
    <3>2. /\ o.device \in Device /\ q[o.device] # <<>>
          /\ q[o.device][1].flit.uid = e.flit.uid
      BY <1>1, <3>1 DEF SendersAreFirst, Sender
    <3>3. 1 \in 1 .. Len(q[o.device])
      BY <1>1, <3>2
    <3>4. o.device = d
      BY <1>1, <1>3, <2>2, <3>2, <3>3 DEF Distinct
    <3>5. od2 = od
      BY <2>2 DEF RememberSender
    <3> QED
      BY <1>1, <3>1, <3>4, <3>5
  <2>3. CASE tries /\ ~\E o \in od : o.link = Link(e.via) /\ o.uid = e.flit.uid
    <3>1. od2 = od \cup {new}
      BY <2>3 DEF RememberSender
    <3>2. new \in Sender /\ new.link = Link(e.via) /\ new.uid = e.flit.uid /\ new.device = d
      BY <1>3, <2>3 DEF Sender
    <3>3. SendersAreFirst(q, od2)
      BY <1>1, <1>3, <2>3, <3>1, <3>2 DEF SendersAreFirst
    <3> QED
      BY <1>1, <3>1, <3>2, <3>3
  <2> QED
    BY <2>1, <2>2, <2>3
<1> HIDE DEF od2
<1>5. CASE ~starts
  <2>1. linkState' = ls /\ transmitEnd' = ev
    BY <1>1, <1>2, <1>5 DEF Freed
  <2>2. InFlight(q, od2, ev, ls)
    BY <1>1, <1>4 DEF InFlight, SenderKnown
  <2> QED
    BY <1>1, <1>2, <1>4, <2>1, <2>2 DEF NetInv
<1>6. CASE starts
  <2> DEFINE ls2 == [ls EXCEPT ![Link(e.via)] = "PROPAGATING"]
             ev2 == ev \cup {e}
  <2>1. linkState' = ls2 /\ transmitEnd' = ev2
    BY <1>1, <1>2, <1>6 DEF Freed
  <2>2. ls[Link(e.via)] = "IDLE" /\ Len(q[Peer[e.via]]) # MaxPackets
    BY <1>3, <1>6 DEF CanStart, Freed
  <2>3. Len(q[Peer[e.via]]) < MaxPackets
    <3>1. Peer[e.via] \in NetDevice /\ Peer[e.via] \in Device
      BY <1>3, <1>6, LinkOfDevice DEF Device
    <3>2. Len(q[Peer[e.via]]) <= MaxPackets /\ Len(q[Peer[e.via]]) \in Nat
      BY <1>1, <3>1 DEF Fits
    <3> QED
      BY <2>2, <3>2, ConfigurationAssumption
  <2>4. \A t \in ev : Link(t.via) # Link(e.via)
    BY <1>1, <2>2 DEF InFlight
  <2>5. \A t, u \in ev2 : Link(t.via) = Link(u.via) => t = u
    BY <1>1, <2>4 DEF InFlight
  <2>6. \A t \in ev2 : SenderKnown(t, q, od2)
    <3>1. \A t \in ev : SenderKnown(t, q, od2)
      BY <1>1, <1>4 DEF InFlight, SenderKnown
    <3>2. SenderKnown(e, q, od2)
      BY <1>3, <1>4, <1>6 DEF SenderKnown
    <3> QED
      BY <3>1, <3>2
  <2>7. \A t \in ev2 : ls2[Link(t.via)] = "PROPAGATING" /\ Len(q[Peer[t.via]]) < MaxPackets
    BY <1>1, <1>3, <1>6, <2>3, <2>4 DEF InFlight, LinkState
  <2>8. \A l \in Links : ls2[l] = "PROPAGATING" => \E t \in ev2 : Link(t.via) = l
    BY <1>1, <1>6 DEF InFlight, LinkState
  <2>9. ev2 \subseteq Entry /\ ls2 \in LinkState
    BY <1>1, <1>3, <1>6 DEF LinkState
  <2>10. InFlight(q, od2, ev2, ls2)
    BY <2>5, <2>6, <2>7, <2>8 DEF InFlight
  <2> HIDE DEF ls2, ev2
  <2> QED
    BY <1>1, <1>2, <1>4, <2>1, <2>9, <2>10 DEF NetInv
<1> QED
  BY <1>2, <1>5, <1>6

\* Whom the channel remembers as the sender of t has t at the head of its queue.
LEMMA SenderHasFlit ==
  ASSUME NetInv(inQueue, originalDevice, transmitEnd, linkState),
         NEW t \in transmitEnd, NEW d \in OriginalDevices(t)
  PROVE  d \in Device /\ inQueue[d] # <<>> /\ inQueue[d][1] = t
<1>1. /\ inQueue \in [Device -> Seq(Entry)] /\ originalDevice \subseteq Sender
      /\ Distinct(inQueue) /\ SendersAreFirst(inQueue, originalDevice)
      /\ SenderKnown(t, inQueue, originalDevice)
  BY DEF NetInv, InFlight
<1>2. PICK o \in originalDevice : o.uid = t.flit.uid /\ inQueue[o.device][1] = t
  BY <1>1 DEF SenderKnown
<1>3. /\ o.device \in Device /\ inQueue[o.device] # <<>>
      /\ inQueue[o.device][1].flit.uid = t.flit.uid
  BY <1>1, <1>2 DEF SendersAreFirst, Sender
<1>4. d \in Device /\ inQueue[d] # <<>> /\ inQueue[d][1].flit.uid = t.flit.uid
  BY <1>1 DEF OriginalDevices, SendersAreFirst, Sender
<1>5. 1 \in 1 .. Len(inQueue[o.device]) /\ 1 \in 1 .. Len(inQueue[d])
  BY <1>1, <1>3, <1>4
<1>6. d = o.device
  BY <1>1, <1>3, <1>4, <1>5 DEF Distinct
<1> QED
  BY <1>2, <1>4, <1>6

\* TransmitEnd of t takes the flit out of the queue of its sender d and frees the
\* link: what is left still fits together, the flit is nowhere any more, and the
\* device at the other end has room that no other flit in flight will need.
LEMMA DequeueKeepsNetInv ==
  ASSUME NetInv(inQueue, originalDevice, transmitEnd, linkState),
         NEW t \in transmitEnd, NEW d \in OriginalDevices(t)
  PROVE  LET q == Dequeue(inQueue, d)
         IN /\ NetInv(q, ForgetSender(originalDevice, t), transmitEnd \ {t},
                      Freed({Link(t.via)}))
            /\ \A u : Held(q, u) <=> Held(inQueue, u) /\ u # t.flit.uid
            /\ Held(inQueue, t.flit.uid)
            /\ CanReceive(Peer[t.via], q, transmitEnd \ {t})
<1> DEFINE l  == Link(t.via)
           ls == Freed({l})
           q  == Dequeue(inQueue, d)
           od == ForgetSender(originalDevice, t)
           ev == transmitEnd \ {t}
<1>1. /\ inQueue \in [Device -> Seq(Entry)] /\ originalDevice \subseteq Sender
      /\ transmitEnd \subseteq Entry /\ linkState \in LinkState
      /\ Fits(inQueue) /\ Distinct(inQueue) /\ SendersAreFirst(inQueue, originalDevice)
      /\ InFlight(inQueue, originalDevice, transmitEnd, linkState)
  BY DEF NetInv
<1>2. t.via \in NetDevice /\ l \in Links /\ Peer[t.via] \in NetDevice
  BY <1>1, LinkOfDevice DEF Entry
<1>3. /\ d \in Device /\ inQueue[d] # <<>>
      /\ inQueue[d][1].flit.uid = t.flit.uid /\ Link(inQueue[d][1].via) = l
  BY <1>1 DEF OriginalDevices, SendersAreFirst, Sender
<1>4. /\ q \in [Device -> Seq(Entry)]
      /\ Len(q[d]) = Len(inQueue[d]) - 1 /\ Len(inQueue[d]) \in Nat \ {0}
      /\ \A i \in 1 .. Len(q[d]) : q[d][i] = inQueue[d][i + 1]
      /\ \A e \in Device : e # d => q[e] = inQueue[e]
  <2>1. /\ inQueue[d] \in Seq(Entry) /\ q[d] = Tail(inQueue[d])
        /\ \A e \in Device : e # d => q[e] = inQueue[e]
    BY <1>1, <1>3 DEF Dequeue
  <2>2. /\ Tail(inQueue[d]) \in Seq(Entry)
        /\ Len(Tail(inQueue[d])) = Len(inQueue[d]) - 1 /\ Len(inQueue[d]) \in Nat \ {0}
        /\ \A i \in 1 .. Len(Tail(inQueue[d])) : Tail(inQueue[d])[i] = inQueue[d][i + 1]
    BY <1>3, <2>1
  <2>3. q \in [Device -> Seq(Entry)]
    BY <1>1, <1>3, <2>2 DEF Dequeue
  <2> QED
    BY <2>1, <2>2, <2>3
<1> HIDE DEF q
<1>5. \A e \in Device : Len(q[e]) \in Nat /\ Len(inQueue[e]) \in Nat /\ Len(q[e]) <= Len(inQueue[e])
  BY <1>1, <1>4
<1>6. Fits(q)
  BY <1>1, <1>5, ConfigurationAssumption DEF Fits, Device
<1>7. Distinct(q)
  <2> SUFFICES ASSUME NEW a \in Device, NEW b \in Device,
                      NEW i \in 1 .. Len(q[a]), NEW j \in 1 .. Len(q[b]),
                      q[a][i].flit.uid = q[b][j].flit.uid
               PROVE  a = b /\ i = j
    BY DEF Distinct
  <2> DEFINE place(e, k) == IF e = d THEN k + 1 ELSE k
  <2>1. \A e \in Device : \A k \in 1 .. Len(q[e]) :
          place(e, k) \in 1 .. Len(inQueue[e]) /\ inQueue[e][place(e, k)] = q[e][k]
    <3> SUFFICES ASSUME NEW e \in Device, NEW k \in 1 .. Len(q[e])
                 PROVE  /\ place(e, k) \in 1 .. Len(inQueue[e])
                        /\ inQueue[e][place(e, k)] = q[e][k]
      OBVIOUS
    <3>1. CASE e = d
      BY <1>4, <3>1
    <3>2. CASE e # d
      BY <1>4, <3>2
    <3> QED
      BY <3>1, <3>2
  <2> DEFINE x == place(a, i)
             y == place(b, j)
  <2>2. /\ x \in 1 .. Len(inQueue[a]) /\ inQueue[a][x] = q[a][i]
        /\ y \in 1 .. Len(inQueue[b]) /\ inQueue[b][y] = q[b][j]
    BY <2>1
  <2>3. a = b /\ x = y
    <3> HIDE DEF x, y
    <3> QED
      BY <1>1, <2>2 DEF Distinct
  <2> QED
    BY <2>3
<1>8. \A o \in od : o \in originalDevice /\ o.device \in Device /\ o.device # d
  <2> SUFFICES ASSUME NEW o \in od PROVE o \in originalDevice /\ o.device \in Device /\ o.device # d
    OBVIOUS
  <2>1. /\ o \in originalDevice /\ o.device \in Device
        /\ ~(o.link = l /\ o.uid = t.flit.uid)
    BY <1>1 DEF Sender, ForgetSender
  <2>2. inQueue[o.device][1].flit.uid = o.uid /\ Link(inQueue[o.device][1].via) = o.link
    BY <1>1, <2>1 DEF SendersAreFirst
  <2> QED
    BY <1>3, <2>1, <2>2
<1>9. od \subseteq Sender /\ SendersAreFirst(q, od)
  BY <1>1, <1>4, <1>8 DEF SendersAreFirst
<1> HIDE DEF od
<1>10. ls \in LinkState /\ ls[l] = "IDLE" /\ \A k \in Links : k # l => ls[k] = linkState[k]
  BY <1>1, <1>2 DEF LinkState, Freed
<1>11. \A u \in ev : /\ u \in transmitEnd /\ u \in Entry /\ u.via \in NetDevice
                    /\ Link(u.via) \in Links /\ Link(u.via) # l
  BY <1>1, LinkOfDevice DEF InFlight, Entry
<1>12. InFlight(q, od, ev, ls)
  <2>1. \A u, w \in ev : Link(u.via) = Link(w.via) => u = w
    BY <1>1, <1>11 DEF InFlight
  <2>2. \A u \in ev : ls[Link(u.via)] = "PROPAGATING"
    BY <1>1, <1>10, <1>11 DEF InFlight
  <2>3. \A u \in ev : Len(q[Peer[u.via]]) < MaxPackets
    <3> SUFFICES ASSUME NEW u \in ev PROVE Len(q[Peer[u.via]]) < MaxPackets
      OBVIOUS
    <3>1. Peer[u.via] \in Device /\ Len(inQueue[Peer[u.via]]) < MaxPackets
      BY <1>1, <1>11, LinkOfDevice DEF InFlight, Device
    <3> QED
      BY <1>5, <3>1, ConfigurationAssumption
  <2>4. \A u \in ev : SenderKnown(u, q, od)
    <3> SUFFICES ASSUME NEW u \in ev PROVE SenderKnown(u, q, od)
      OBVIOUS
    <3>1. PICK o \in originalDevice :
            /\ o.link = Link(u.via) /\ o.uid = u.flit.uid
            /\ inQueue[o.device][1] = u
      BY <1>1, <1>11 DEF InFlight, SenderKnown
    <3>2. o \in od
      BY <1>11, <3>1 DEF ForgetSender, od
    <3>3. q[o.device] = inQueue[o.device]
      BY <1>4, <1>8, <3>2
    <3> QED
      BY <3>1, <3>2, <3>3 DEF SenderKnown
  <2>5. \A k \in Links : ls[k] = "PROPAGATING" => \E u \in ev : Link(u.via) = k
    BY <1>1, <1>10 DEF InFlight
  <2> QED
    BY <2>1, <2>2, <2>3, <2>4, <2>5 DEF InFlight
<1>13. NetInv(q, od, ev, ls)
  BY <1>1, <1>4, <1>6, <1>7, <1>9, <1>10, <1>12 DEF NetInv
<1>14. Held(inQueue, t.flit.uid)
  BY <1>3, <1>4 DEF Held
<1>15. \A u : Held(q, u) <=> Held(inQueue, u) /\ u # t.flit.uid
  <2> TAKE u
  <2>1. ASSUME Held(q, u) PROVE Held(inQueue, u) /\ u # t.flit.uid
    <3>0. PICK e \in Device : \E i \in 1 .. Len(q[e]) : q[e][i].flit.uid = u
      BY <2>1 DEF Held
    <3>1. PICK i \in 1 .. Len(q[e]) : q[e][i].flit.uid = u
      BY <3>0
    <3> DEFINE i2 == IF e = d THEN i + 1 ELSE i
    <3>2. i2 \in 1 .. Len(inQueue[e]) /\ inQueue[e][i2] = q[e][i]
      BY <1>4
    <3>3. 1 \in 1 .. Len(inQueue[d])
      BY <1>4
    <3>4. u # t.flit.uid
      BY <1>1, <1>3, <3>1, <3>2, <3>3 DEF Distinct
    <3> QED
      BY <3>1, <3>2, <3>4 DEF Held
  <2>2. ASSUME Held(inQueue, u), u # t.flit.uid PROVE Held(q, u)
    <3>0. PICK e \in Device : \E i \in 1 .. Len(inQueue[e]) : inQueue[e][i].flit.uid = u
      BY <2>2 DEF Held
    <3>1. PICK i \in 1 .. Len(inQueue[e]) : inQueue[e][i].flit.uid = u
      BY <3>0
    <3>2. CASE e = d
      <4>1. i # 1
        BY <1>3, <2>2, <3>1, <3>2
      <4>2. i - 1 \in 1 .. Len(q[d]) /\ q[d][i - 1] = inQueue[d][i]
        BY <1>4, <3>2, <4>1
      <4> QED
        BY <1>3, <3>1, <3>2, <4>2 DEF Held
    <3>3. CASE e # d
      BY <1>4, <3>1, <3>3 DEF Held
    <3> QED
      BY <3>2, <3>3
  <2> QED
    BY <2>1, <2>2
<1>16. Len(q[Peer[t.via]]) < MaxPackets
  <2>1. Peer[t.via] \in Device /\ Len(inQueue[Peer[t.via]]) < MaxPackets
    BY <1>1, <1>2 DEF InFlight, Device
  <2> QED
    BY <1>5, <2>1, ConfigurationAssumption
<1>17. \A u \in ev : Peer[u.via] # Peer[t.via]
  BY <1>2, <1>11, ReceivingLink
<1> QED
  BY <1>13, <1>14, <1>15, <1>16, <1>17 DEF CanReceive, q, od

\* SendFrom buffers a flit that is in no queue in a device that has room which no
\* flit in flight needs.
LEMMA AppendKeepsNetInv ==
  ASSUME NEW q, NEW od, NEW ev, NEW ls, NetInv(q, od, ev, ls),
         NEW d \in Device, NEW e \in Entry, ~Held(q, e.flit.uid),
         CanReceive(d, q, ev)
  PROVE  /\ NetInv(Enqueue(q, d, e), od, ev, ls)
         /\ \A u : Held(Enqueue(q, d, e), u) <=> Held(q, u) \/ u = e.flit.uid
<1> DEFINE q2 == Enqueue(q, d, e)
<1>1. /\ q \in [Device -> Seq(Entry)] /\ od \subseteq Sender /\ ev \subseteq Entry
      /\ ls \in LinkState /\ Fits(q) /\ Distinct(q) /\ SendersAreFirst(q, od)
      /\ InFlight(q, od, ev, ls)
  BY DEF NetInv
<1>2. /\ q2 \in [Device -> Seq(Entry)]
      /\ Len(q2[d]) = Len(q[d]) + 1 /\ Len(q[d]) \in Nat
      /\ \A i \in 1 .. Len(q[d]) : q2[d][i] = q[d][i]
      /\ q2[d][Len(q[d]) + 1] = e
      /\ \A a \in Device : a # d => q2[a] = q[a]
  BY <1>1 DEF Enqueue
<1> HIDE DEF q2
<1>3. \A a \in Device : \A i \in 1 .. Len(q2[a]) :
        \/ i \in 1 .. Len(q[a]) /\ q2[a][i] = q[a][i]
        \/ a = d /\ i = Len(q[d]) + 1 /\ q2[a][i] = e
  BY <1>2
<1>4. \A a \in Device : \A i \in 1 .. Len(q[a]) : i \in 1 .. Len(q2[a]) /\ q2[a][i] = q[a][i]
  BY <1>2
<1>5. Fits(q2)
  <2> SUFFICES ASSUME NEW a \in NetDevice PROVE Len(q2[a]) <= MaxPackets
    BY DEF Fits
  <2>1. CASE a = d
    <3>1. Len(q[d]) < MaxPackets
      BY <2>1, TopologyAssumption DEF CanReceive
    <3> QED
      BY <1>2, <2>1, <3>1, ConfigurationAssumption
  <2>2. CASE a # d
    BY <1>1, <1>2, <2>2 DEF Fits, Device
  <2> QED
    BY <2>1, <2>2
<1>6. Distinct(q2)
  <2> SUFFICES ASSUME NEW a \in Device, NEW b \in Device,
                      NEW i \in 1 .. Len(q2[a]), NEW j \in 1 .. Len(q2[b]),
                      q2[a][i].flit.uid = q2[b][j].flit.uid
               PROVE  a = b /\ i = j
    BY DEF Distinct
  <2>1. \A x \in Device : \A k \in 1 .. Len(q[x]) : q[x][k].flit.uid # e.flit.uid
    BY DEF Held
  <2>2. CASE i \in 1 .. Len(q[a]) /\ q2[a][i] = q[a][i]
    <3>1. q[a][i].flit.uid # e.flit.uid
      BY <2>1, <2>2
    <3>2. j \in 1 .. Len(q[b]) /\ q2[b][j] = q[b][j]
      BY <1>3, <2>2, <3>1
    <3>3. q[a][i].flit.uid = q[b][j].flit.uid
      BY <2>2, <3>2
    <3> QED
      BY <1>1, <2>2, <3>2, <3>3 DEF Distinct
  <2>3. CASE a = d /\ i = Len(q[d]) + 1 /\ q2[a][i] = e
    <3>1. ~(j \in 1 .. Len(q[b]) /\ q2[b][j] = q[b][j])
      BY <2>1, <2>3
    <3> QED
      BY <1>3, <2>3, <3>1
  <2> QED
    BY <1>3, <2>2, <2>3
<1>7. \A a \in Device : q[a] # <<>> => q2[a] # <<>> /\ q2[a][1] = q[a][1]
  <2> SUFFICES ASSUME NEW a \in Device, q[a] # <<>>
               PROVE  q2[a] # <<>> /\ q2[a][1] = q[a][1]
    OBVIOUS
  <2>1. 1 \in 1 .. Len(q[a])
    BY <1>1
  <2>2. 1 \in 1 .. Len(q2[a]) /\ q2[a][1] = q[a][1]
    BY <1>4, <2>1
  <2> QED
    BY <1>2, <2>2
<1>8. SendersAreFirst(q2, od)
  BY <1>1, <1>7 DEF SendersAreFirst, Sender
<1>9. InFlight(q2, od, ev, ls)
  <2>1. \A t \in ev : Len(q2[Peer[t.via]]) < MaxPackets
    <3> SUFFICES ASSUME NEW t \in ev PROVE Len(q2[Peer[t.via]]) < MaxPackets
      OBVIOUS
    <3>1. Peer[t.via] \in NetDevice /\ Len(q[Peer[t.via]]) < MaxPackets
      BY <1>1, LinkOfDevice DEF InFlight, Entry
    <3>2. Peer[t.via] # d
      BY <3>1, TopologyAssumption DEF CanReceive
    <3> QED
      BY <1>2, <3>1, <3>2 DEF Device
  <2>2. \A t \in ev : SenderKnown(t, q2, od)
    <3> SUFFICES ASSUME NEW t \in ev PROVE SenderKnown(t, q2, od)
      OBVIOUS
    <3>1. PICK o \in od :
            /\ o.link = Link(t.via) /\ o.uid = t.flit.uid
            /\ q[o.device][1] = t
      BY <1>1 DEF InFlight, SenderKnown
    <3>2. q2[o.device][1] = q[o.device][1]
      BY <1>1, <1>7 DEF SendersAreFirst, Sender
    <3> QED
      BY <3>1, <3>2 DEF SenderKnown
  <2> QED
    BY <1>1, <2>1, <2>2 DEF InFlight
<1>10. NetInv(q2, od, ev, ls)
  BY <1>1, <1>2, <1>5, <1>6, <1>8, <1>9 DEF NetInv
<1>11. \A u : Held(q2, u) <=> Held(q, u) \/ u = e.flit.uid
  <2> TAKE u
  <2>1. ASSUME Held(q2, u) PROVE Held(q, u) \/ u = e.flit.uid
    BY <1>3, <2>1 DEF Held
  <2>2. ASSUME Held(q, u) PROVE Held(q2, u)
    BY <1>4, <2>2 DEF Held
  <2>3. Held(q2, e.flit.uid)
    <3>1. Len(q[d]) + 1 \in 1 .. Len(q2[d])
      BY <1>2
    <3> QED
      BY <1>2, <3>1 DEF Held
  <2> QED
    BY <2>1, <2>2, <2>3
<1> QED
  BY <1>10, <1>11 DEF q2

(***************************************************************************)
(* The handlers.                                                           *)
(***************************************************************************)

\* A flit that is marked as blocked is still that flit.
LEMMA MarkedFlit ==
  ASSUME NEW f \in Flit
  PROVE  /\ MarkHeadPacketAsBlocked(f) \in Flit
         /\ MarkHeadPacketAsBlocked(f).uid = f.uid
BY DEF Flit, MarkHeadPacketAsBlocked

\* SendFrom of a new flit where there is room for it drops nothing, and the flit is
\* then in a queue.
LEMMA SendFromKeepsNetInv ==
  ASSUME NEW d \in Device, NEW e \in Entry, NEW q, NEW od, NEW ev, NEW freed,
         linkState \in LinkState,
         NetInv(q, od, ev, Freed(freed)),
         ~Held(q, e.flit.uid),
         CanReceive(d, q, ev),
         SendFrom(d, e, q, od, ev, freed)
  PROVE  /\ NetInv(inQueue', originalDevice', transmitEnd', linkState')
         /\ \A u : Held(inQueue', u) <=> Held(q, u) \/ u = e.flit.uid
         /\ UNCHANGED dropped
<1> DEFINE first  == IF q[d] = <<>> THEN e ELSE Head(q[d])
           isBusy == linkState[Link(first.via)] # "IDLE"
           flit   == IF isBusy THEN MarkHeadPacketAsBlocked(e.flit) ELSE e.flit
           marked == [e EXCEPT !.flit = flit]
           q2     == Enqueue(q, d, marked)
           can    == ApplyFlowControl(flit)
<1>1. HasRoom(d, q[d])
  BY DEF HasRoom, CanReceive
<1>2. UNCHANGED dropped /\ ProcessBufferedPackets(d, q2, od, ev, freed, can)
  BY <1>1 DEF SendFrom
<1>3. flit \in Flit /\ flit.uid = e.flit.uid
  BY MarkedFlit DEF Entry
<1> HIDE DEF flit
<1>4. marked \in Entry /\ marked.flit.uid = e.flit.uid
  BY <1>3 DEF Entry
<1>5. can \in BOOLEAN
  BY ConfigurationAssumption
     DEF ApplyFlowControl, SafApplyFlowControl, VctApplyFlowControl, PassesForHead
<1> HIDE DEF marked
<1>6. ~Held(q, marked.flit.uid)
  BY <1>4
<1>7. /\ NetInv(q2, od, ev, Freed(freed))
      /\ \A u : Held(q2, u) <=> Held(q, u) \/ u = marked.flit.uid
  BY <1>4, <1>6, AppendKeepsNetInv
<1> HIDE DEF q2, can
<1>8. inQueue' = q2 /\ NetInv(inQueue', originalDevice', transmitEnd', linkState')
  BY <1>2, <1>5, <1>7, ProcessKeepsNetInv
<1> QED
  BY <1>2, <1>4, <1>7, <1>8

\* A route is for net devices, and a flit that takes it is still that flit.
LEMMA RouteTypes ==
  ASSUME NEW d \in Device, NEW f \in Flit, NEW dst \in Node, TypeOK,
         NEW r \in ManageFlit(d, f, dst)
  PROVE  LET g == [f EXCEPT !.header = r.header]
         IN /\ r.via \in NetDevice /\ r.to \in NetDevice
            /\ g \in Flit /\ g.header = r.header
            /\ g.uid = f.uid /\ g.head = f.head /\ g.type = f.type
<1>1. CASE f.type = "HEAD"
  <2>1. f.header \in Header
    BY <1>1 DEF Flit
  <2>2. r \in RequestNewRoute(d, dst, f.header)
    BY <1>1 DEF ManageFlit, RequestRoute
  <2>3. r.via \in NetDevice /\ r.to \in NetDevice /\ r.header \in Header
    BY <2>1, <2>2, RoutingAssumption
  <2> QED
    BY <1>1, <2>3 DEF Flit
<1>2. CASE f.type # "HEAD"
  <2>1. PICK x \in routes : r = [via |-> x.via, to |-> x.to, header |-> f.header]
    BY <1>2 DEF ManageFlit, RequestRoute
  <2>2. x.via \in NetDevice /\ x.to \in NetDevice
    BY DEF TypeOK
  <2>3. r.via \in NetDevice /\ r.to \in NetDevice /\ r.header = f.header
    BY <2>1, <2>2
  <2> QED
    BY <1>2, <2>3 DEF Flit
<1> QED
  BY <1>1, <1>2

\* What a node does with a flit it has to send: it is put into a queue, or there is
\* no route for it and nothing changes.
LEMMA NodeSendKeepsNetInv ==
  ASSUME NEW d \in Device, NEW f \in Flit, NEW dst \in Node,
         NEW q, NEW od, NEW ev, NEW freed,
         TypeOK,
         NetInv(q, od, ev, Freed(freed)),
         ~Held(q, f.uid),
         CanReceive(d, q, ev),
         NodeSend(d, f, dst, q, od, ev, freed)
  PROVE  \/ /\ aborted' = "no route"
            /\ UNCHANGED <<inQueue, linkState, transmitEnd, originalDevice, routes, dropped>>
         \/ /\ UNCHANGED <<aborted, dropped>>
            /\ routes' \subseteq
                 [node : Node, head : 1 .. MaxInjected, via : NetDevice, to : NetDevice]
            /\ NetInv(inQueue', originalDevice', transmitEnd', linkState')
            /\ \A u : Held(inQueue', u) <=> Held(q, u) \/ u = f.uid
<1>1. CASE ManageFlit(d, f, dst) = {}
  BY <1>1 DEF NodeSend, Abort
<1>2. ASSUME NEW r \in ManageFlit(d, f, dst),
             routes' = IF f.type = "HEAD" THEN RememberRoute(d, f, r) ELSE routes,
             SendFrom(d, [flit |-> [f EXCEPT !.header = r.header],
                          via |-> r.via, to |-> r.to], q, od, ev, freed),
             UNCHANGED aborted
      PROVE  /\ UNCHANGED <<aborted, dropped>>
             /\ routes' \subseteq
                  [node : Node, head : 1 .. MaxInjected, via : NetDevice, to : NetDevice]
             /\ NetInv(inQueue', originalDevice', transmitEnd', linkState')
             /\ \A u : Held(inQueue', u) <=> Held(q, u) \/ u = f.uid
  <2> DEFINE g == [f EXCEPT !.header = r.header]
             e == [flit |-> g, via |-> r.via, to |-> r.to]
  <2>1. NodeOf[d] \in Node /\ f.uid \in 1 .. MaxInjected
    BY TopologyAssumption DEF Flit
  <2>2. r.via \in NetDevice /\ r.to \in NetDevice /\ g \in Flit /\ g.uid = f.uid
    BY RouteTypes
  <2>3. e \in Entry /\ e.flit.uid = f.uid
    BY <2>2 DEF Entry
  <2>4. routes' \subseteq
          [node : Node, head : 1 .. MaxInjected, via : NetDevice, to : NetDevice]
    <3>1. CASE f.type = "HEAD"
      <4>1. [node |-> NodeOf[d], head |-> f.uid, via |-> r.via, to |-> r.to]
              \in [node : Node, head : 1 .. MaxInjected, via : NetDevice, to : NetDevice]
        BY <2>1, <2>2
      <4> QED
        BY <1>2, <3>1, <4>1 DEF TypeOK, RememberRoute
    <3>2. CASE f.type # "HEAD"
      BY <1>2, <3>2 DEF TypeOK
    <3> QED
      BY <3>1, <3>2
  <2>5. SendFrom(d, e, q, od, ev, freed)
    BY <1>2
  <2>6. linkState \in LinkState
    BY DEF TypeOK, LinkState
  <2> HIDE DEF e
  <2>7. /\ NetInv(inQueue', originalDevice', transmitEnd', linkState')
        /\ \A u : Held(inQueue', u) <=> Held(q, u) \/ u = f.uid
        /\ UNCHANGED dropped
    BY <2>3, <2>5, <2>6, SendFromKeepsNetInv
  <2> QED
    BY <1>2, <2>4, <2>7
<1> QED
  BY <1>1, <1>2 DEF NodeSend

\* What NodeSend does not change leaves the invariant alone, but for `aborted'.
LEMMA AbortKeepsNetInv ==
  ASSUME NetInv(inQueue, originalDevice, transmitEnd, linkState),
         UNCHANGED <<inQueue, originalDevice, transmitEnd, linkState>>
  PROVE  /\ NetInv(inQueue', originalDevice', transmitEnd', linkState')
         /\ \A u : Held(inQueue', u) <=> Held(inQueue, u)
BY DEF NetInv, Held, Fits, Distinct, SendersAreFirst, InFlight, SenderKnown

\* The types of the state follow from NetInv and those of the other variables.
LEMMA TypesFromNetInv ==
  ASSUME NetInv(inQueue, originalDevice, transmitEnd, linkState)
  PROVE  /\ inQueue \in [Device -> Seq(Entry)]
         /\ linkState \in [Links -> {"IDLE", "PROPAGATING"}]
         /\ transmitEnd \subseteq Entry
         /\ originalDevice \subseteq [link : Links, uid : 1 .. MaxInjected, device : Device]
BY DEF NetInv, LinkState, Sender

\* Initially nothing is anywhere.
LEMMA InitIInv == Init => IInv
<1> SUFFICES ASSUME Init PROVE IInv
  OBVIOUS
<1>1. TypeOK
  BY ConfigurationAssumption DEF Init, TypeOK
<1>2. NetInv(inQueue, originalDevice, transmitEnd, linkState)
  <2>1. \A d \in NetDevice : Len(inQueue[d]) = 0
    BY DEF Init, Device
  <2>2. Fits(inQueue)
    BY <2>1, ConfigurationAssumption DEF Fits
  <2>3. Distinct(inQueue)
    BY DEF Init, Distinct
  <2>4. SendersAreFirst(inQueue, originalDevice)
    BY DEF Init, SendersAreFirst
  <2>5. InFlight(inQueue, originalDevice, transmitEnd, linkState)
    BY DEF Init, InFlight
  <2> QED
    BY <1>1, <2>2, <2>3, <2>4, <2>5 DEF NetInv, TypeOK, LinkState, Sender
<1>3. Accounted
  BY DEF Init, Accounted, Held
<1> QED
  BY <1>1, <1>2, <1>3 DEF IInv, Init, NoDrop

\* NocNode::InjectPacket keeps the invariant: the flit is new, and the internal
\* device has no bound.
LEMMA InjectKeepsIInv ==
  ASSUME IInv, NEW n \in Node, NEW dst \in Node, NEW f \in Flit,
         f.uid = NextUid, Inject(n, f, dst)
  PROVE  IInv'
<1> DEFINE d == InjectionDevice[n]
           i == [head |-> f.head, type |-> f.type, src |-> n, dst |-> dst]
<1>1. TypeOK /\ Accounted /\ NoDrop /\ NetInv(inQueue, originalDevice, transmitEnd, linkState)
  BY DEF IInv
<1>2. d \in InputDevice /\ d \in Device
  BY TopologyAssumption DEF Device
<1>3. Freed({}) = linkState
  BY <1>1 DEF Freed, TypeOK
<1>4. /\ injected' = Append(injected, i) /\ i \in InjectedFlit
      /\ injected \in Seq(InjectedFlit) /\ Len(injected) \in Nat
      /\ received' = received /\ received \subseteq [uid : 1 .. MaxInjected, node : Node]
      /\ Len(injected) < MaxInjected /\ aborted = "none"
      /\ f.uid = Len(injected) + 1
  BY <1>1 DEF Inject, TypeOK, InjectedFlit, Flit, NextUid
<1>5. /\ injected' \in Seq(InjectedFlit) /\ Len(injected') = Len(injected) + 1
      /\ Len(injected') <= MaxInjected
  BY <1>4, ConfigurationAssumption
<1>6. ~Held(inQueue, f.uid) /\ \A r \in received : r.uid \in 1 .. Len(injected)
  BY <1>1, <1>4 DEF Accounted
<1>7. CanReceive(d, inQueue, transmitEnd)
  BY <1>2 DEF CanReceive
<1>8. NodeSend(d, f, dst, inQueue, originalDevice, transmitEnd, {})
  BY DEF Inject
<1> HIDE DEF d, i
<1>9. \/ /\ aborted' = "no route"
         /\ UNCHANGED <<inQueue, linkState, transmitEnd, originalDevice, routes, dropped>>
      \/ /\ UNCHANGED <<aborted, dropped>>
         /\ routes' \subseteq
              [node : Node, head : 1 .. MaxInjected, via : NetDevice, to : NetDevice]
         /\ NetInv(inQueue', originalDevice', transmitEnd', linkState')
         /\ \A u : Held(inQueue', u) <=> Held(inQueue, u) \/ u = f.uid
  BY <1>1, <1>2, <1>3, <1>6, <1>7, <1>8, NodeSendKeepsNetInv
<1>10. \A u : u \in 1 .. Len(injected') <=> u \in 1 .. Len(injected) \/ u = f.uid
  BY <1>4, <1>5
<1>11. CASE /\ aborted' = "no route"
            /\ UNCHANGED <<inQueue, linkState, transmitEnd, originalDevice, routes, dropped>>
  <2>1. /\ NetInv(inQueue', originalDevice', transmitEnd', linkState')
        /\ \A u : Held(inQueue', u) <=> Held(inQueue, u)
    BY <1>1, <1>11, AbortKeepsNetInv
  <2>2. TypeOK'
    BY <1>1, <1>4, <1>5, <1>11 DEF TypeOK
  <2>3. Accounted'
    BY <1>1, <1>4, <1>10, <1>11, <2>1 DEF Accounted
  <2> QED
    BY <1>1, <1>11, <2>1, <2>2, <2>3 DEF IInv, NoDrop
<1>12. CASE /\ UNCHANGED <<aborted, dropped>>
            /\ routes' \subseteq
                 [node : Node, head : 1 .. MaxInjected, via : NetDevice, to : NetDevice]
            /\ NetInv(inQueue', originalDevice', transmitEnd', linkState')
            /\ \A u : Held(inQueue', u) <=> Held(inQueue, u) \/ u = f.uid
  <2>1. TypeOK'
    BY <1>1, <1>4, <1>5, <1>12 DEF TypeOK, NetInv, LinkState, Sender
  <2>2. Accounted'
    <3>1. f.uid \notin 1 .. Len(injected)
      BY <1>4
    <3> QED
      BY <1>1, <1>4, <1>6, <1>10, <1>12, <3>1 DEF Accounted
  <2> QED
    BY <1>1, <1>12, <2>1, <2>2, <1>4 DEF IInv, NoDrop
<1> QED
  BY <1>9, <1>11, <1>12

\* None of the assertions of NocChannel::TransmitEnd fails: the sender it finds has
\* the flit at the head of its queue.
LEMMA TransmitEndReceives ==
  ASSUME IInv, NEW t \in transmitEnd, TransmitEnd(t)
  PROVE  /\ aborted = "none" /\ UNCHANGED injected
         /\ \E d \in OriginalDevices(t) :
              Receive(Peer[t.via], t, Dequeue(inQueue, d), ForgetSender(originalDevice, t),
                      transmitEnd \ {t})
<1> DEFINE rx == Peer[t.via]
           od == ForgetSender(originalDevice, t)
           ev == transmitEnd \ {t}
<1>1. NetInv(inQueue, originalDevice, transmitEnd, linkState)
  BY DEF IInv
<1>2. linkState[Link(t.via)] = "PROPAGATING" /\ OriginalDevices(t) # {}
  BY <1>1 DEF NetInv, InFlight, SenderKnown, OriginalDevices
<1>3. /\ aborted = "none" /\ UNCHANGED injected
      /\ \E d \in OriginalDevices(t) :
           IF inQueue[d] = <<>> \/ Head(inQueue[d]).flit.uid # t.flit.uid
           THEN Abort("wrong packet dequeued") /\ UNCHANGED received
           ELSE Receive(rx, t, Dequeue(inQueue, d), od, ev)
  BY <1>2 DEF TransmitEnd
<1> HIDE DEF od, ev, rx
<1>4. ASSUME NEW d \in OriginalDevices(t)
      PROVE  ~(inQueue[d] = <<>> \/ Head(inQueue[d]).flit.uid # t.flit.uid)
  <2>1. d \in Device /\ inQueue[d] # <<>> /\ inQueue[d][1] = t
    BY <1>1, SenderHasFlit
  <2>2. inQueue[d] \in Seq(Entry)
    BY <1>1, <2>1 DEF NetInv
  <2> QED
    BY <2>1, <2>2
<1> QED
  BY <1>3, <1>4 DEF od, ev, rx

\* NocChannel::TransmitEnd keeps the invariant.
LEMMA TransmitEndKeepsIInv ==
  ASSUME IInv, NEW t \in transmitEnd, TransmitEnd(t)
  PROVE  IInv'
<1> DEFINE l  == Link(t.via)
           rx == Peer[t.via]
           od == ForgetSender(originalDevice, t)
           ev == transmitEnd \ {t}
<1>1. TypeOK /\ Accounted /\ NoDrop /\ NetInv(inQueue, originalDevice, transmitEnd, linkState)
  BY DEF IInv
<1>2. /\ t \in Entry /\ t.flit \in Flit /\ t.via \in NetDevice /\ t.to \in NetDevice
      /\ l \in Links /\ rx \in NetDevice /\ rx \in Device /\ NodeOf[t.to] \in Node
      /\ NodeOf[rx] \in Node
  BY <1>1, LinkOfDevice, TopologyAssumption DEF TypeOK, Entry, Device
<1>3. t.flit.uid \in 1 .. MaxInjected
  BY <1>2 DEF Flit
<1>4. PICK d \in OriginalDevices(t) : Receive(rx, t, Dequeue(inQueue, d), od, ev)
  BY TransmitEndReceives
<1> DEFINE q == Dequeue(inQueue, d)
<1>5. Receive(rx, t, q, od, ev)
  BY <1>4
<1>6. /\ NetInv(q, od, ev, Freed({l}))
      /\ \A u : Held(q, u) <=> Held(inQueue, u) /\ u # t.flit.uid
      /\ Held(inQueue, t.flit.uid)
      /\ CanReceive(rx, q, ev)
  BY <1>1, DequeueKeepsNetInv
<1>7. /\ UNCHANGED injected /\ aborted = "none"
      /\ t.flit.uid \in 1 .. Len(injected)
      /\ \A r \in received : r.uid # t.flit.uid
  BY <1>1, <1>6 DEF TransmitEnd, Accounted
<1> HIDE DEF q, od, ev, rx
<1>8. CASE t.to = rx
  <2> DEFINE new == [uid |-> t.flit.uid, node |-> NodeOf[rx]]
  <2>1. /\ received' = received \cup {new}
        /\ inQueue' = q /\ originalDevice' = od /\ transmitEnd' = ev
        /\ linkState' = [linkState EXCEPT ![l] = "IDLE"]
        /\ UNCHANGED <<routes, dropped, aborted>>
    BY <1>5, <1>8 DEF Receive
  <2>2. linkState' = Freed({l})
    BY <1>1, <1>2, <2>1 DEF Freed, TypeOK
  <2>3. NetInv(inQueue', originalDevice', transmitEnd', linkState')
    BY <1>6, <2>1, <2>2
  <2>4. new \in [uid : 1 .. MaxInjected, node : Node] /\ new.uid = t.flit.uid
    BY <1>2, <1>3
  <2> HIDE DEF new
  <2>5. TypeOK'
    BY <1>1, <1>7, <2>1, <2>3, <2>4 DEF TypeOK, NetInv, LinkState, Sender
  <2>6. Accounted'
    <3>1. \A u : Held(inQueue', u) <=> Held(inQueue, u) /\ u # t.flit.uid
      BY <1>6, <2>1
    <3>2. \A r \in received' : r \in received \/ r = new
      BY <2>1
    <3>3. \A u : Held(inQueue', u) => u \in 1 .. Len(injected')
      BY <1>1, <1>7, <3>1 DEF Accounted
    <3>4. \A r \in received' : r.uid \in 1 .. Len(injected') /\ ~Held(inQueue', r.uid)
      BY <1>1, <1>7, <2>4, <3>1, <3>2 DEF Accounted
    <3>5. \A r, s \in received' : r.uid = s.uid => r = s
      BY <1>1, <1>7, <2>4, <3>2 DEF Accounted
    <3>6. \A u \in 1 .. Len(injected') :
            Held(inQueue', u) \/ \E r \in received' : r.uid = u
      BY <1>1, <1>7, <2>1, <2>4, <3>1 DEF Accounted
    <3> QED
      BY <3>3, <3>4, <3>5, <3>6 DEF Accounted
  <2> QED
    BY <1>1, <1>7, <2>1, <2>3, <2>5, <2>6 DEF IInv, NoDrop
<1>9. CASE t.to # rx
  <2>1. NodeSend(rx, t.flit, NodeOf[t.to], q, od, ev, {l}) /\ UNCHANGED received
    BY <1>5, <1>9 DEF Receive
  <2>2. ~Held(q, t.flit.uid)
    BY <1>6
  <2>3. \/ /\ aborted' = "no route"
           /\ UNCHANGED <<inQueue, linkState, transmitEnd, originalDevice, routes, dropped>>
        \/ /\ UNCHANGED <<aborted, dropped>>
           /\ routes' \subseteq
                [node : Node, head : 1 .. MaxInjected, via : NetDevice, to : NetDevice]
           /\ NetInv(inQueue', originalDevice', transmitEnd', linkState')
           /\ \A u : Held(inQueue', u) <=> Held(q, u) \/ u = t.flit.uid
    BY <1>1, <1>2, <1>6, <2>1, <2>2, NodeSendKeepsNetInv
  <2>4. CASE /\ aborted' = "no route"
             /\ UNCHANGED <<inQueue, linkState, transmitEnd, originalDevice, routes, dropped>>
    <3>1. /\ NetInv(inQueue', originalDevice', transmitEnd', linkState')
          /\ \A u : Held(inQueue', u) <=> Held(inQueue, u)
      BY <1>1, <2>4, AbortKeepsNetInv
    <3>2. TypeOK' /\ Accounted'
      BY <1>1, <1>7, <2>1, <2>4, <3>1 DEF TypeOK, Accounted
    <3> QED
      BY <1>1, <2>4, <3>1, <3>2 DEF IInv, NoDrop
  <2>5. CASE /\ UNCHANGED <<aborted, dropped>>
             /\ routes' \subseteq
                  [node : Node, head : 1 .. MaxInjected, via : NetDevice, to : NetDevice]
             /\ NetInv(inQueue', originalDevice', transmitEnd', linkState')
             /\ \A u : Held(inQueue', u) <=> Held(q, u) \/ u = t.flit.uid
    <3>1. TypeOK'
      BY <1>1, <1>7, <2>1, <2>5 DEF TypeOK, NetInv, LinkState, Sender
    <3>2. \A u : Held(inQueue', u) <=> Held(inQueue, u)
      BY <1>6, <2>5
    <3>3. Accounted'
      BY <1>1, <1>7, <2>1, <2>5, <3>2 DEF Accounted
    <3> QED
      BY <1>1, <1>7, <2>5, <3>1, <3>3 DEF IInv, NoDrop
  <2> QED
    BY <2>3, <2>4, <2>5
<1> QED
  BY <1>8, <1>9

\* The scheduled ProcessBufferedPackets keeps the invariant.
LEMMA RetryKeepsIInv ==
  ASSUME IInv, NEW d \in Device, Retry(d)
  PROVE  IInv'
<1>1. TypeOK /\ Accounted /\ NoDrop /\ NetInv(inQueue, originalDevice, transmitEnd, linkState)
  BY DEF IInv
<1>2. Freed({}) = linkState /\ linkState \in LinkState
  BY <1>1 DEF Freed, TypeOK, LinkState
<1>3. /\ ProcessBufferedPackets(d, inQueue, originalDevice, transmitEnd, {}, TRUE)
      /\ UNCHANGED <<routes, injected, received, dropped, aborted>>
  BY DEF Retry
<1>4. inQueue' = inQueue /\ NetInv(inQueue', originalDevice', transmitEnd', linkState')
  BY <1>1, <1>2, <1>3, ProcessKeepsNetInv
<1>5. TypeOK'
  BY <1>1, <1>3, <1>4 DEF TypeOK, NetInv, LinkState, Sender
<1>6. Accounted'
  BY <1>1, <1>3, <1>4 DEF Accounted, Held
<1> QED
  BY <1>3, <1>4, <1>5, <1>6 DEF IInv, NoDrop

\* Every step keeps the invariant.
LEMMA NextIInv == IInv /\ [Next]_vars => IInv'
<1> SUFFICES ASSUME IInv, [Next]_vars PROVE IInv'
  OBVIOUS
<1>1. ASSUME NEW n \in Node, NEW dst \in Node, InjectHead(n, dst) PROVE IInv'
  <2> DEFINE f == [uid |-> NextUid, head |-> NextUid, type |-> "HEAD",
                   header |-> NewHeader(n, dst), blocked |-> FALSE]
  <2>1. f \in Flit
    <3>1. NextUid \in 1 .. MaxInjected
      BY <1>1, ConfigurationAssumption DEF InjectHead, Inject, NextUid, IInv, TypeOK
    <3> QED
      BY <3>1, RoutingAssumption DEF Flit
  <2>2. f.uid = NextUid /\ Inject(n, f, dst)
    BY <1>1 DEF InjectHead
  <2> HIDE DEF f
  <2> QED
    BY <2>1, <2>2, InjectKeepsIInv
<1>2. ASSUME NEW n \in Node, NEW type \in {"DATA", "TAIL"}, InjectBody(n, type) PROVE IInv'
  <2>1. PICK h \in OpenPackets(n) :
          Inject(n, [uid |-> NextUid, head |-> h, type |-> type,
                     header |-> NoHeader, blocked |-> FALSE], injected[h].dst)
    BY <1>2 DEF InjectBody
  <2> DEFINE f   == [uid |-> NextUid, head |-> h, type |-> type,
                     header |-> NoHeader, blocked |-> FALSE]
             dst == injected[h].dst
  <2>2. injected \in Seq(InjectedFlit) /\ Len(injected) < MaxInjected
    BY <2>1 DEF Inject, IInv, TypeOK
  <2>3. h \in 1 .. Len(injected) /\ injected[h] \in InjectedFlit
    BY <2>2 DEF OpenPackets
  <2>4. h \in 1 .. MaxInjected /\ NextUid \in 1 .. MaxInjected /\ dst \in Node
    BY <2>2, <2>3, ConfigurationAssumption DEF NextUid, InjectedFlit
  <2>5. f \in Flit /\ f.uid = NextUid
    BY <2>4 DEF Flit
  <2>6. Inject(n, f, dst)
    BY <2>1
  <2> HIDE DEF f, dst
  <2> QED
    BY <2>4, <2>5, <2>6, InjectKeepsIInv
<1>3. ASSUME NEW t \in transmitEnd, TransmitEnd(t) PROVE IInv'
  BY <1>3, TransmitEndKeepsIInv
<1>4. ASSUME NEW d \in Device, Retry(d) PROVE IInv'
  BY <1>4, RetryKeepsIInv
<1>5. CASE UNCHANGED vars
  <2>1. UNCHANGED <<inQueue, linkState, transmitEnd, originalDevice, routes, injected,
                    received, dropped, aborted>>
    BY <1>5 DEF vars
  <2>2. TypeOK'
    BY <2>1 DEF IInv, TypeOK
  <2>3. /\ NetInv(inQueue', originalDevice', transmitEnd', linkState')
        /\ \A u : Held(inQueue', u) <=> Held(inQueue, u)
    BY <2>1, AbortKeepsNetInv DEF IInv
  <2>4. Accounted'
    BY <2>1, <2>3 DEF IInv, Accounted
  <2> QED
    BY <2>1, <2>2, <2>3, <2>4 DEF IInv, NoDrop
<1> QED
  BY <1>1, <1>2, <1>3, <1>4, <1>5 DEF Next

\* The inductive invariant holds in every reachable state.
LEMMA SpecIInv == Spec => []IInv
BY InitIInv, NextIInv, PTL DEF Spec

\* What is in flight is as NocChannel assumes: one flit per link, its one sender is
\* known and has it at the head of its queue.
LEMMA IInvFlight == IInv => Flight
<1> SUFFICES ASSUME IInv PROVE Flight
  OBVIOUS
<1>1. NetInv(inQueue, originalDevice, transmitEnd, linkState)
  BY DEF IInv
<1>2. /\ inQueue \in [Device -> Seq(Entry)] /\ originalDevice \subseteq Sender
      /\ Distinct(inQueue) /\ SendersAreFirst(inQueue, originalDevice)
      /\ InFlight(inQueue, originalDevice, transmitEnd, linkState)
  BY <1>1 DEF NetInv
<1>3. ASSUME NEW t \in transmitEnd
      PROVE  \E d \in Device :
               /\ OriginalDevices(t) = {d}
               /\ inQueue[d] # <<>>
               /\ Head(inQueue[d]).flit.uid = t.flit.uid
               /\ Head(inQueue[d]).via = t.via
               /\ Head(inQueue[d]).to = t.to
  <2>1. PICK o \in originalDevice :
          /\ o.link = Link(t.via) /\ o.uid = t.flit.uid
          /\ inQueue[o.device][1] = t
    BY <1>2 DEF InFlight, SenderKnown
  <2> DEFINE d == o.device
  <2>2. d \in OriginalDevices(t)
    BY <2>1 DEF OriginalDevices
  <2>3. \A x \in OriginalDevices(t) : x \in Device /\ inQueue[x] # <<>> /\ inQueue[x][1] = t
    BY <1>1, SenderHasFlit
  <2>4. \A x \in OriginalDevices(t) : inQueue[x] \in Seq(Entry) /\ 1 \in 1 .. Len(inQueue[x])
    BY <1>2, <2>3
  <2>5. \A x \in OriginalDevices(t) : x = d
    BY <1>2, <2>2, <2>3, <2>4 DEF Distinct
  <2>6. OriginalDevices(t) = {d}
    BY <2>2, <2>5
  <2>7. Head(inQueue[d]) = inQueue[d][1]
    BY <2>2, <2>4
  <2> QED
    BY <2>2, <2>3, <2>6, <2>7
<1>4. /\ \A t, u \in transmitEnd : Link(t.via) = Link(u.via) => t = u
      /\ \A t \in transmitEnd :
           linkState[Link(t.via)] = "PROPAGATING" /\ Len(inQueue[Peer[t.via]]) < MaxPackets
      /\ \A l \in Links :
           linkState[l] = "PROPAGATING" => \E t \in transmitEnd : Link(t.via) = l
  BY <1>2 DEF InFlight
<1> QED
  BY <1>3, <1>4 DEF Flight

(***************************************************************************)
(* The theorems about the hand over of flits.                              *)
(***************************************************************************)

\* Type correctness of the transport, in particular of what the channels and the
\* routing protocols remember about flits.
THEOREM TypeCorrect == Spec => []TypeOK
<1>1. IInv => TypeOK
  BY DEF IInv
<1> QED
  BY <1>1, SpecIInv, PTL

\* NocNetDevice::Drop is never called: the check in TransmitStart for room at the
\* other end still holds when TransmitEnd delivers, for every topology, routing,
\* queue size and switching, because nobody else fills that queue meanwhile.
THEOREM NoFlitDropped == Spec => []NoDrop
<1>1. IInv => NoDrop
  BY DEF IInv
<1> QED
  BY <1>1, SpecIInv, PTL

\* A link is busy if and only if one TransmitEnd is pending for it, the flit in
\* flight is still the first of the queue of the one sender the channel remembers,
\* and the other end keeps room for it.
THEOREM FlightCorrect == Spec => []Flight
BY IInvFlight, SpecIInv, PTL

\* Handing a flit over from queue to queue neither loses nor duplicates it.
THEOREM FlitsConserved == Spec => []Conservation
<1>1. IInv => Conservation
  BY DEF IInv, NetInv, Accounted, Conservation
<1> QED
  BY <1>1, SpecIInv, PTL

\* The assertions of NocChannel::TransmitEnd never fail; the program can only stop
\* for want of a route.
THEOREM TransmissionSucceeds == Spec => [](aborted \in {"none", "no route"})
<1>1. IInv => aborted \in {"none", "no route"}
  BY DEF IInv
<1> QED
  BY <1>1, SpecIInv, PTL

(***************************************************************************)
(* Delivery in order.                                                      *)
(*                                                                         *)
(* The routes that a head flit got are its trail: from its source each one *)
(* leads to the node of the next, always nearer to the destination, so no  *)
(* node comes twice.  The other flits of the packet follow the trail, and  *)
(* none overtakes another, since a device sends what it has in its order.  *)
(* Way and Distance are those of RoutesLead.                               *)
(***************************************************************************)
Route == [node : Node, head : 1 .. MaxInjected, via : NetDevice, to : NetDevice]

\* How far node n is from where the packet of the head flit h goes.
Far(Distance, inj, n, h) == Distance[n][inj[h].dst]

NextNode(r) == NodeOf[Peer[r.via]]

Trail(rts, h) == {r \in rts : r.head = h}

\* Every flit was injected after its head, for the same nodes.
PacketOk(inj, u) ==
  LET h == inj[u].head
  IN /\ h \in 1 .. u /\ inj[h].head = h
     /\ inj[u].type = "HEAD" <=> h = u
     /\ inj[u].src = inj[h].src /\ inj[u].dst = inj[h].dst
     /\ <<inj[u].src, inj[u].dst>> \in Flow
PacketsOk(inj) == \A u \in 1 .. Len(inj) : PacketOk(inj, u)

\* A route leads nearer to the destination, and no route of the packet was given
\* between its node and the next.
TrailStep(Distance, rts, inj, r) ==
  LET far(n) == Far(Distance, inj, n, r.head)
  IN /\ r.head \in 1 .. Len(inj) /\ inj[r.head].head = r.head
     /\ r.node # inj[r.head].dst /\ NodeOf[r.to] = inj[r.head].dst
     /\ far(NextNode(r)) < far(r.node) /\ far(r.node) <= far(inj[r.head].src)
     /\ NextNode(r) = inj[r.head].dst => r.to = Peer[r.via]
     /\ \A s \in Trail(rts, r.head) :
          /\ far(r.node) = far(s.node) => r = s
          /\ far(s.node) < far(r.node) => NextNode(r) = s.node \/ far(s.node) < far(NextNode(r))
TrailsOk(Distance, rts, inj) == \A r \in rts : TrailStep(Distance, rts, inj, r)

\* The trail starts where the head was injected.
TrailsStart(rts, inj) ==
  \A h \in 1 .. Len(inj) : inj[h].head = h => \E r \in Trail(rts, h) : r.node = inj[h].src

\* The trail only ends at the destination or where the head is.
HeadAt(q, n, h) ==
  \E d \in Device : NodeOf[d] = n /\ \E i \in 1 .. Len(q[d]) : q[d][i].flit.uid = h
TrailsGoOn(q, rts, inj) ==
  \A r \in rts :
    \/ NextNode(r) = inj[r.head].dst
    \/ \E s \in Trail(rts, r.head) : s.node = NextNode(r)
    \/ HeadAt(q, r.node, r.head)

\* The flits of the packet of h come to device d: it is where they are injected, or
\* a route leads to it.
OnTrail(rts, inj, h, d) ==
  \/ d = InjectionDevice[inj[h].src]
  \/ d \in NetDevice /\ \E r \in Trail(rts, h) : Peer[r.via] = d

\* The head flit is at the end of its trail, where the routing algorithm goes on.
HeadOk(Way, Distance, rts, inj, d, e) ==
  LET h == e.flit.uid
  IN /\ \A r \in Trail(rts, h) : Far(Distance, inj, NodeOf[d], h) <= Far(Distance, inj, r.node, h)
     /\ NodeOf[Peer[e.via]] # inj[h].dst =>
          [device |-> Peer[e.via], to |-> inj[h].dst, header |-> e.flit.header] \in Way

\* A queued flit is the one that was injected, and takes the route its head got here.
EntryOk(Way, Distance, rts, inj, d, e) ==
  LET u == e.flit.uid
  IN /\ u \in 1 .. Len(inj)
     /\ e.flit.head = inj[u].head /\ e.flit.type = inj[u].type
     /\ \E r \in Trail(rts, inj[u].head) : r.node = NodeOf[d] /\ r.via = e.via /\ r.to = e.to
     /\ OnTrail(rts, inj, inj[u].head, d)
     /\ e.flit.type = "HEAD" => HeadOk(Way, Distance, rts, inj, d, e)
EntriesOk(Way, Distance, q, rts, inj) ==
  \A d \in Device : \A i \in 1 .. Len(q[d]) : EntryOk(Way, Distance, rts, inj, d, q[d][i])

\* Of two flits of a packet the earlier one is nearer, or before the other in a queue.
InOrder(Distance, inj, d, i, u, c, j, w) ==
  inj[u].head = inj[w].head /\ u < w =>
    \/ Far(Distance, inj, NodeOf[d], inj[u].head) < Far(Distance, inj, NodeOf[c], inj[u].head)
    \/ d = c /\ i < j
Ordered(Distance, q, inj) ==
  \A d, c \in Device : \A i \in 1 .. Len(q[d]), j \in 1 .. Len(q[c]) :
    InOrder(Distance, inj, d, i, q[d][i].flit.uid, c, j, q[c][j].flit.uid)

FlitsOk(Way, Distance, q, rts, inj) ==
  /\ PacketsOk(inj) /\ TrailsOk(Distance, rts, inj)
  /\ EntriesOk(Way, Distance, q, rts, inj) /\ Ordered(Distance, q, inj)

\* What was received came to its node, after the flits of its packet before it.
ReceivedOk(q, rec, inj) ==
  \A r \in rec :
    /\ r.node = inj[r.uid].dst
    /\ \A w \in 1 .. r.uid - 1 : inj[w].head = inj[r.uid].head => ~Held(q, w)

DeliveryInv(Way, Distance) ==
  /\ aborted = "none"
  /\ FlitsOk(Way, Distance, inQueue, routes, injected)
  /\ TrailsStart(routes, injected)
  /\ TrailsGoOn(inQueue, routes, injected)
  /\ ReceivedOk(inQueue, received, injected)

\* The types that the lemmas below need.
LEMMA DeliveryTypes ==
  ASSUME TypeOK
  PROVE  /\ inQueue \in [Device -> Seq(Entry)] /\ routes \in SUBSET Route
         /\ injected \in Seq(InjectedFlit) /\ Len(injected) \in Nat
<1>1. /\ inQueue \in [Device -> Seq(Entry)] /\ injected \in Seq(InjectedFlit)
      /\ routes \in SUBSET Route
  BY DEF TypeOK, Route
<1> QED
  BY <1>1

\* A distance is a number.
LEMMA FarNat ==
  ASSUME NEW Distance \in [Node -> [Node -> Nat]], NEW inj \in Seq(InjectedFlit),
         NEW n \in Node, NEW h \in 1 .. Len(inj)
  PROVE  Far(Distance, inj, n, h) \in Nat
<1>1. inj[h] \in InjectedFlit
  OBVIOUS
<1>2. inj[h].dst \in Node
  BY <1>1 DEF InjectedFlit
<1> QED
  BY <1>2 DEF Far

\* So are those of a trail.
LEMMA TrailNat ==
  ASSUME NEW Distance \in [Node -> [Node -> Nat]], NEW inj \in Seq(InjectedFlit),
         NEW rts \in SUBSET Route, TrailsOk(Distance, rts, inj), NEW r \in rts
  PROVE  /\ r.head \in 1 .. Len(inj) /\ r.node \in Node /\ NextNode(r) \in Node
         /\ inj[r.head].src \in Node /\ inj[r.head].dst \in Node
         /\ Far(Distance, inj, r.node, r.head) \in Nat
         /\ Far(Distance, inj, NextNode(r), r.head) \in Nat
         /\ Far(Distance, inj, inj[r.head].src, r.head) \in Nat
         /\ Far(Distance, inj, inj[r.head].dst, r.head) \in Nat
<1>1. r.head \in 1 .. Len(inj)
  BY DEF TrailsOk, TrailStep
<1>2. r.node \in Node /\ NextNode(r) \in Node
  BY LinkOfDevice, TopologyAssumption DEF Route, NextNode, Device
<1>3. inj[r.head].src \in Node /\ inj[r.head].dst \in Node
  <2>1. inj[r.head] \in InjectedFlit
    BY <1>1
  <2> QED
    BY <2>1 DEF InjectedFlit
<1> QED
  BY <1>1, <1>2, <1>3, FarNat

\* Two routes of a packet never lead to the same node.
LEMMA TrailsDoNotMeet ==
  ASSUME NEW Distance \in [Node -> [Node -> Nat]], NEW inj \in Seq(InjectedFlit),
         NEW rts \in SUBSET Route, TrailsOk(Distance, rts, inj),
         NEW r \in rts, NEW s \in rts, r.head = s.head, NextNode(r) = NextNode(s)
  PROVE  r = s
<1> DEFINE far(n) == Far(Distance, inj, n, r.head)
<1>1. /\ far(r.node) \in Nat /\ far(s.node) \in Nat /\ far(NextNode(r)) \in Nat
  BY TrailNat
<1>2. /\ r \in Trail(rts, r.head) /\ s \in Trail(rts, r.head)
  BY DEF Trail
<1>3. /\ far(NextNode(r)) < far(r.node) /\ far(NextNode(r)) < far(s.node)
      /\ far(r.node) = far(s.node) => r = s
      /\ far(s.node) < far(r.node) => NextNode(r) = s.node \/ far(s.node) < far(NextNode(r))
      /\ far(r.node) < far(s.node) => NextNode(r) = r.node \/ far(r.node) < far(NextNode(r))
  BY <1>2 DEF TrailsOk, TrailStep
<1> QED
  BY <1>1, <1>3

(***************************************************************************)
(* A flit leaves a queue, or enters one.                                   *)
(***************************************************************************)

\* What is left in the queues when d has dequeued its first flit was in them before.
LEMMA DequeuePlace ==
  ASSUME NEW q \in [Device -> Seq(Entry)], NEW d \in Device, q[d] # <<>>,
         NEW a \in Device, NEW i \in 1 .. Len(Dequeue(q, d)[a])
  PROVE  LET k == IF a = d THEN i + 1 ELSE i
         IN k \in 1 .. Len(q[a]) /\ Dequeue(q, d)[a][i] = q[a][k]
<1>1. CASE a = d
  <2>1. q[d] \in Seq(Entry) /\ Dequeue(q, d)[d] = Tail(q[d])
    BY DEF Dequeue
  <2>2. /\ Len(Tail(q[d])) = Len(q[d]) - 1 /\ Len(q[d]) \in Nat
        /\ \A k \in 1 .. Len(Tail(q[d])) : Tail(q[d])[k] = q[d][k + 1]
    BY <2>1
  <2> QED
    BY <1>1, <2>1, <2>2
<1>2. CASE a # d
  BY <1>2 DEF Dequeue
<1> QED
  BY <1>1, <1>2

\* What is in the queues when d has enqueued e was in them before, or it is e.
LEMMA EnqueuePlace ==
  ASSUME NEW q \in [Device -> Seq(Entry)], NEW d \in Device, NEW e \in Entry,
         NEW a \in Device
  PROVE  /\ \A i \in 1 .. Len(Enqueue(q, d, e)[a]) :
              \/ i \in 1 .. Len(q[a]) /\ Enqueue(q, d, e)[a][i] = q[a][i]
              \/ a = d /\ i = Len(q[d]) + 1 /\ Enqueue(q, d, e)[a][i] = e
         /\ \A i \in 1 .. Len(q[a]) :
              i \in 1 .. Len(Enqueue(q, d, e)[a]) /\ Enqueue(q, d, e)[a][i] = q[a][i]
         /\ a = d => /\ Len(q[d]) + 1 \in 1 .. Len(Enqueue(q, d, e)[a])
                     /\ Enqueue(q, d, e)[a][Len(q[d]) + 1] = e
<1>1. CASE a = d
  <2>1. q[d] \in Seq(Entry) /\ Enqueue(q, d, e)[d] = Append(q[d], e)
    BY DEF Enqueue
  <2> QED
    BY <1>1, <2>1
<1>2. CASE a # d
  BY <1>2 DEF Enqueue
<1> QED
  BY <1>1, <1>2

\* The queues then hold what they held before, and e.
LEMMA EnqueueHolds ==
  ASSUME NEW q \in [Device -> Seq(Entry)], NEW d \in Device, NEW e \in Entry, NEW u
  PROVE  Held(Enqueue(q, d, e), u) <=> Held(q, u) \/ u = e.flit.uid
<1>1. ASSUME Held(Enqueue(q, d, e), u) PROVE Held(q, u) \/ u = e.flit.uid
  <2>1. PICK a \in Device : \E i \in 1 .. Len(Enqueue(q, d, e)[a]) : Enqueue(q, d, e)[a][i].flit.uid = u
    BY <1>1 DEF Held
  <2>2. PICK i \in 1 .. Len(Enqueue(q, d, e)[a]) : Enqueue(q, d, e)[a][i].flit.uid = u
    BY <2>1
  <2>3. \/ i \in 1 .. Len(q[a]) /\ Enqueue(q, d, e)[a][i] = q[a][i]
        \/ Enqueue(q, d, e)[a][i] = e
    BY EnqueuePlace
  <2> QED
    BY <2>2, <2>3 DEF Held
<1>2. ASSUME Held(q, u) PROVE Held(Enqueue(q, d, e), u)
  <2>1. PICK a \in Device : \E i \in 1 .. Len(q[a]) : q[a][i].flit.uid = u
    BY <1>2 DEF Held
  <2> QED
    BY <2>1, EnqueuePlace DEF Held
<1>3. Held(Enqueue(q, d, e), e.flit.uid)
  BY EnqueuePlace DEF Held
<1> QED
  BY <1>1, <1>2, <1>3

\* Taking out the first flit of a queue keeps the order of the others, and how they
\* are related to it.
LEMMA DequeueKeepsOrder ==
  ASSUME NEW Way, NEW Distance, NEW rts, NEW inj,
         NEW q \in [Device -> Seq(Entry)], NEW d \in Device, q[d] # <<>>,
         EntriesOk(Way, Distance, q, rts, inj), Ordered(Distance, q, inj)
  PROVE  LET q2 == Dequeue(q, d)
             u  == q[d][1].flit.uid
         IN /\ EntriesOk(Way, Distance, q2, rts, inj) /\ Ordered(Distance, q2, inj)
            /\ \A c \in Device : \A j \in 1 .. Len(q2[c]) :
                 LET w == q2[c][j].flit.uid
                 IN /\ InOrder(Distance, inj, d, 1, u, c, j + 1, w)
                    /\ InOrder(Distance, inj, c, 1, w, d, 1, u)
<1> DEFINE q2 == Dequeue(q, d)
           k(a, i) == IF a = d THEN i + 1 ELSE i
<1>1. \A a \in Device : \A i \in 1 .. Len(q2[a]) :
        k(a, i) \in 1 .. Len(q[a]) /\ q2[a][i] = q[a][k(a, i)]
  BY DequeuePlace
<1>2. 1 \in 1 .. Len(q[d])
  OBVIOUS
<1> HIDE DEF q2
<1>3. EntriesOk(Way, Distance, q2, rts, inj)
  BY <1>1 DEF EntriesOk
<1>4. ASSUME NEW a \in Device, NEW c \in Device,
             NEW i \in 1 .. Len(q2[a]), NEW j \in 1 .. Len(q2[c])
      PROVE  InOrder(Distance, inj, a, i, q2[a][i].flit.uid, c, j, q2[c][j].flit.uid)
  <2> DEFINE x == k(a, i)
             y == k(c, j)
  <2>1. /\ x \in 1 .. Len(q[a]) /\ q2[a][i] = q[a][x]
        /\ y \in 1 .. Len(q[c]) /\ q2[c][j] = q[c][y]
        /\ a = c => (x < y => i < j)
    BY <1>1
  <2> HIDE DEF x, y
  <2>2. InOrder(Distance, inj, a, x, q[a][x].flit.uid, c, y, q[c][y].flit.uid)
    BY <2>1 DEF Ordered
  <2> QED
    BY <2>1, <2>2 DEF InOrder
<1>5. ASSUME NEW c \in Device, NEW j \in 1 .. Len(q2[c])
      PROVE  /\ InOrder(Distance, inj, d, 1, q[d][1].flit.uid, c, j + 1, q2[c][j].flit.uid)
             /\ InOrder(Distance, inj, c, 1, q2[c][j].flit.uid, d, 1, q[d][1].flit.uid)
  <2> DEFINE y == k(c, j)
  <2>1. y \in 1 .. Len(q[c]) /\ q2[c][j] = q[c][y] /\ (d = c => y = j + 1)
    BY <1>1
  <2>2. y >= 1 /\ (1 < y => 1 < j + 1)
    OBVIOUS
  <2> HIDE DEF y
  <2>3. /\ InOrder(Distance, inj, d, 1, q[d][1].flit.uid, c, y, q[c][y].flit.uid)
        /\ InOrder(Distance, inj, c, y, q[c][y].flit.uid, d, 1, q[d][1].flit.uid)
    BY <1>2, <2>1 DEF Ordered
  <2> QED
    BY <2>1, <2>2, <2>3 DEF InOrder
<1> QED
  BY <1>3, <1>4, <1>5 DEF Ordered, q2

\* Putting e at the end of the queue of d keeps the order when e is nearer than the
\* later flits of its packet and no nearer than the earlier ones elsewhere.
LEMMA EnqueueKeepsOrder ==
  ASSUME NEW Way, NEW Distance, NEW rts, NEW inj,
         NEW q \in [Device -> Seq(Entry)], NEW d \in Device, NEW e \in Entry,
         EntriesOk(Way, Distance, q, rts, inj), Ordered(Distance, q, inj),
         EntryOk(Way, Distance, rts, inj, d, e),
         \A c \in Device : \A j \in 1 .. Len(q[c]) :
           LET w == q[c][j].flit.uid
               h == inj[e.flit.uid].head
           IN inj[w].head = h =>
                /\ e.flit.uid < w =>
                     Far(Distance, inj, NodeOf[d], h) < Far(Distance, inj, NodeOf[c], h)
                /\ w < e.flit.uid =>
                     \/ Far(Distance, inj, NodeOf[c], h) < Far(Distance, inj, NodeOf[d], h)
                     \/ c = d
  PROVE  /\ EntriesOk(Way, Distance, Enqueue(q, d, e), rts, inj)
         /\ Ordered(Distance, Enqueue(q, d, e), inj)
<1> DEFINE q2 == Enqueue(q, d, e)
<1>1. \A a \in Device : \A i \in 1 .. Len(q2[a]) :
        \/ i \in 1 .. Len(q[a]) /\ q2[a][i] = q[a][i]
        \/ a = d /\ i = Len(q[d]) + 1 /\ q2[a][i] = e
  BY EnqueuePlace
<1> HIDE DEF q2
<1>2. EntriesOk(Way, Distance, q2, rts, inj)
  BY <1>1 DEF EntriesOk
<1>3. ASSUME NEW a \in Device, NEW c \in Device,
             NEW i \in 1 .. Len(q2[a]), NEW j \in 1 .. Len(q2[c])
      PROVE  InOrder(Distance, inj, a, i, q2[a][i].flit.uid, c, j, q2[c][j].flit.uid)
  <2>0. e.flit.uid \in Nat
    BY ConfigurationAssumption DEF Entry, Flit
  <2>1. CASE i \in 1 .. Len(q[a]) /\ q2[a][i] = q[a][i]
             /\ j \in 1 .. Len(q[c]) /\ q2[c][j] = q[c][j]
    BY <2>1 DEF Ordered
  <2>2. CASE a = d /\ i = Len(q[d]) + 1 /\ q2[a][i] = e
             /\ j \in 1 .. Len(q[c]) /\ q2[c][j] = q[c][j]
    BY <2>2 DEF InOrder
  <2>3. CASE i \in 1 .. Len(q[a]) /\ q2[a][i] = q[a][i]
             /\ c = d /\ j = Len(q[d]) + 1 /\ q2[c][j] = e
    <3>1. Len(q[d]) \in Nat
      OBVIOUS
    <3> QED
      BY <2>3, <3>1 DEF InOrder
  <2>4. CASE a = d /\ q2[a][i] = e /\ c = d /\ q2[c][j] = e
    BY <2>0, <2>4 DEF InOrder
  <2> QED
    BY <1>1, <2>1, <2>2, <2>3, <2>4
<1> QED
  BY <1>2, <1>3 DEF Ordered, q2

(***************************************************************************)
(* A head gets a route, or a flit is injected.                             *)
(***************************************************************************)

\* What a route must be to go on with the trail of its packet.
ContinuesTrail(Distance, rts, inj, new) ==
  LET far(n) == Far(Distance, inj, n, new.head)
  IN /\ new \in Route
     /\ new.head \in 1 .. Len(inj) /\ inj[new.head].head = new.head
     /\ new.node # inj[new.head].dst /\ NodeOf[new.to] = inj[new.head].dst
     /\ far(NextNode(new)) < far(new.node) /\ far(new.node) <= far(inj[new.head].src)
     /\ NextNode(new) = inj[new.head].dst => new.to = Peer[new.via]
     /\ \A s \in Trail(rts, new.head) :
          /\ far(new.node) < far(s.node)
          /\ NextNode(s) = new.node \/ far(new.node) < far(NextNode(s))

\* A route nearer than those of its packet so far makes the trail longer.
LEMMA NewRouteKeepsTrails ==
  ASSUME NEW Distance \in [Node -> [Node -> Nat]], NEW inj \in Seq(InjectedFlit),
         NEW rts \in SUBSET Route, TrailsOk(Distance, rts, inj),
         NEW new, ContinuesTrail(Distance, rts, inj, new)
  PROVE  TrailsOk(Distance, rts \cup {new}, inj)
<1> DEFINE rts2 == rts \cup {new}
           far(n) == Far(Distance, inj, n, new.head)
<1>1. /\ new \in Route
      /\ new.head \in 1 .. Len(inj) /\ inj[new.head].head = new.head
      /\ new.node # inj[new.head].dst /\ NodeOf[new.to] = inj[new.head].dst
      /\ far(NextNode(new)) < far(new.node) /\ far(new.node) <= far(inj[new.head].src)
      /\ NextNode(new) = inj[new.head].dst => new.to = Peer[new.via]
      /\ \A s \in Trail(rts, new.head) :
           /\ far(new.node) < far(s.node)
           /\ NextNode(s) = new.node \/ far(new.node) < far(NextNode(s))
  BY DEF ContinuesTrail
<1>2. far(new.node) \in Nat
  <2>1. new.node \in Node
    BY <1>1 DEF Route
  <2> QED
    BY <1>1, <2>1, FarNat
<1>3. TrailStep(Distance, rts2, inj, new)
  <2> SUFFICES ASSUME NEW s \in Trail(rts2, new.head)
               PROVE  /\ far(new.node) = far(s.node) => new = s
                      /\ far(s.node) < far(new.node) =>
                           NextNode(new) = s.node \/ far(s.node) < far(NextNode(new))
    BY <1>1 DEF TrailStep
  <2>1. CASE s = new
    BY <1>2, <2>1
  <2>2. CASE s # new
    <3>1. s \in Trail(rts, new.head) /\ s \in rts /\ s.head = new.head
      BY <2>2 DEF Trail
    <3>2. far(s.node) \in Nat /\ far(new.node) < far(s.node)
      BY <1>1, <3>1, TrailNat
    <3> QED
      BY <1>2, <3>2
  <2> QED
    BY <2>1, <2>2
<1>4. ASSUME NEW r \in rts PROVE TrailStep(Distance, rts2, inj, r)
  <2>1. TrailStep(Distance, rts, inj, r)
    BY DEF TrailsOk
  <2> SUFFICES ASSUME NEW s \in Trail(rts2, r.head)
               PROVE  LET fr(n) == Far(Distance, inj, n, r.head)
                      IN /\ fr(r.node) = fr(s.node) => r = s
                         /\ fr(s.node) < fr(r.node) =>
                              NextNode(r) = s.node \/ fr(s.node) < fr(NextNode(r))
    BY <2>1 DEF TrailStep
  <2>2. CASE s \in Trail(rts, r.head)
    BY <2>1, <2>2 DEF TrailStep
  <2>3. CASE s = new
    <3>1. r.head = new.head /\ r \in Trail(rts, new.head)
      BY <2>3 DEF Trail
    <3>2. far(r.node) \in Nat /\ far(new.node) < far(r.node)
      BY <1>1, <3>1, TrailNat
    <3> QED
      BY <1>1, <1>2, <2>3, <3>1, <3>2
  <2> QED
    BY <2>2, <2>3 DEF Trail
<1> QED
  BY <1>3, <1>4 DEF TrailsOk

\* The other flits do not notice the route.
LEMMA NewRouteKeepsEntries ==
  ASSUME NEW Way, NEW Distance, NEW q, NEW rts, NEW inj, NEW new,
         EntriesOk(Way, Distance, q, rts, inj), ~Held(q, new.head)
  PROVE  EntriesOk(Way, Distance, q, rts \cup {new}, inj)
<1> SUFFICES ASSUME NEW d \in Device, NEW i \in 1 .. Len(q[d])
             PROVE  EntryOk(Way, Distance, rts \cup {new}, inj, d, q[d][i])
  BY DEF EntriesOk
<1> DEFINE e == q[d][i]
<1>1. EntryOk(Way, Distance, rts, inj, d, e) /\ e.flit.uid # new.head
  BY DEF EntriesOk, Held
<1> HIDE DEF e
<1>2. Trail(rts \cup {new}, e.flit.uid) = Trail(rts, e.flit.uid)
  BY <1>1 DEF Trail
<1>3. \A h : Trail(rts, h) \subseteq Trail(rts \cup {new}, h)
  BY DEF Trail
<1>4. e.flit.type = "HEAD" => HeadOk(Way, Distance, rts \cup {new}, inj, d, e)
  BY <1>1, <1>2 DEF EntryOk, HeadOk
<1>5. OnTrail(rts \cup {new}, inj, inj[e.flit.uid].head, d)
  BY <1>1, <1>3 DEF EntryOk, OnTrail
<1> QED
  BY <1>1, <1>3, <1>4, <1>5 DEF EntryOk, e

\* A packet gets one more flit, or there is one more packet.
LEMMA InjectionKeepsFlits ==
  ASSUME NEW Way, NEW Distance, NEW rts, NEW inj \in Seq(InjectedFlit), NEW x \in InjectedFlit,
         NEW q, FlitsOk(Way, Distance, q, rts, inj),
         PacketOk(Append(inj, x), Len(inj) + 1)
  PROVE  FlitsOk(Way, Distance, q, rts, Append(inj, x))
<1> DEFINE inj2 == Append(inj, x)
<1>1. /\ Len(inj) \in Nat /\ Len(inj2) = Len(inj) + 1
      /\ \A u \in 1 .. Len(inj) : inj2[u] = inj[u]
  OBVIOUS
<1>2. \A u \in 1 .. Len(inj) : u \in 1 .. Len(inj2) /\ inj[u].head \in 1 .. Len(inj)
  <2>1. \A u \in 1 .. Len(inj) : inj[u].head \in 1 .. u
    BY DEF FlitsOk, PacketsOk, PacketOk
  <2> HIDE DEF inj2
  <2> QED
    BY <1>1, <2>1
<1> HIDE DEF inj2
<1>3. \A n : \A h \in 1 .. Len(inj) : Far(Distance, inj2, n, h) = Far(Distance, inj, n, h)
  BY <1>1 DEF Far
<1>4. PacketsOk(inj2)
  <2> SUFFICES ASSUME NEW u \in 1 .. Len(inj2) PROVE PacketOk(inj2, u)
    BY DEF PacketsOk
  <2>1. CASE u \in 1 .. Len(inj)
    <3>1. PacketOk(inj, u)
      BY <2>1 DEF FlitsOk, PacketsOk
    <3> QED
      BY <1>1, <1>2, <2>1, <3>1 DEF PacketOk
  <2>2. CASE u = Len(inj) + 1
    BY <2>2 DEF inj2
  <2> QED
    BY <1>1, <2>1, <2>2
<1>5. TrailsOk(Distance, rts, inj2)
  <2> SUFFICES ASSUME NEW r \in rts PROVE TrailStep(Distance, rts, inj2, r)
    BY DEF TrailsOk
  <2>1. TrailStep(Distance, rts, inj, r)
    BY DEF FlitsOk, TrailsOk
  <2>2. r.head \in 1 .. Len(inj)
    BY <2>1 DEF TrailStep
  <2> QED
    BY <1>1, <1>2, <1>3, <2>1, <2>2 DEF TrailStep
<1>6. ASSUME NEW d \in Device, NEW i \in 1 .. Len(q[d])
      PROVE  q[d][i].flit.uid \in 1 .. Len(inj) /\ EntryOk(Way, Distance, rts, inj2, d, q[d][i])
  <2> DEFINE e == q[d][i]
  <2>1. EntryOk(Way, Distance, rts, inj, d, e)
    BY DEF FlitsOk, EntriesOk
  <2> HIDE DEF e
  <2>2. e.flit.uid \in 1 .. Len(inj)
    BY <2>1 DEF EntryOk
  <2>3. e.flit.type = "HEAD" => HeadOk(Way, Distance, rts, inj2, d, e)
    BY <1>1, <1>3, <2>1, <2>2 DEF EntryOk, HeadOk
  <2>4. OnTrail(rts, inj2, inj2[e.flit.uid].head, d)
    BY <1>1, <1>2, <2>1, <2>2 DEF EntryOk, OnTrail
  <2> QED
    BY <1>1, <1>2, <2>1, <2>2, <2>3, <2>4 DEF EntryOk, e
<1>7. Ordered(Distance, q, inj2)
  <2> SUFFICES ASSUME NEW d \in Device, NEW c \in Device,
                      NEW i \in 1 .. Len(q[d]), NEW j \in 1 .. Len(q[c])
               PROVE  InOrder(Distance, inj2, d, i, q[d][i].flit.uid, c, j, q[c][j].flit.uid)
    BY DEF Ordered
  <2>1. InOrder(Distance, inj, d, i, q[d][i].flit.uid, c, j, q[c][j].flit.uid)
    BY DEF FlitsOk, Ordered
  <2> QED
    BY <1>1, <1>2, <1>3, <1>6, <2>1 DEF InOrder
<1> QED
  BY <1>4, <1>5, <1>6, <1>7 DEF FlitsOk, EntriesOk, inj2

(***************************************************************************)
(* The handlers.                                                           *)
(***************************************************************************)

\* What a node with a route does: the flit is put into the queue with the route, and
\* the route of a head is remembered.
LEMMA NodeSendRoutes ==
  ASSUME TypeOK, NEW d \in Device, NEW f \in Flit, NEW dst \in Node,
         NEW q \in [Device -> Seq(Entry)], NEW od, NEW ev, NEW freed,
         CanReceive(d, q, ev), ManageFlit(d, f, dst) # {},
         NodeSend(d, f, dst, q, od, ev, freed)
  PROVE  /\ UNCHANGED aborted
         /\ \E r \in ManageFlit(d, f, dst), e \in Entry :
              /\ e.flit.uid = f.uid /\ e.flit.head = f.head /\ e.flit.type = f.type
              /\ e.flit.header = r.header /\ e.via = r.via /\ e.to = r.to
              /\ inQueue' = Enqueue(q, d, e)
              /\ routes' = IF f.type = "HEAD" THEN RememberRoute(d, f, r) ELSE routes
<1>1. PICK r \in ManageFlit(d, f, dst) :
        /\ routes' = IF f.type = "HEAD" THEN RememberRoute(d, f, r) ELSE routes
        /\ SendFrom(d, [flit |-> [f EXCEPT !.header = r.header],
                        via |-> r.via, to |-> r.to], q, od, ev, freed)
        /\ UNCHANGED aborted
  BY DEF NodeSend
<1> DEFINE g      == [f EXCEPT !.header = r.header]
           e0     == [flit |-> g, via |-> r.via, to |-> r.to]
           first  == IF q[d] = <<>> THEN e0 ELSE Head(q[d])
           isBusy == linkState[Link(first.via)] # "IDLE"
           flit   == IF isBusy THEN MarkHeadPacketAsBlocked(g) ELSE g
           e      == [e0 EXCEPT !.flit = flit]
<1>2. /\ r.via \in NetDevice /\ r.to \in NetDevice /\ g \in Flit /\ g.header = r.header
      /\ g.uid = f.uid /\ g.head = f.head /\ g.type = f.type
  BY RouteTypes
<1>3. SendFrom(d, e0, q, od, ev, freed)
  BY <1>1
<1>4. e0.flit = g /\ e0.via = r.via /\ e0.to = r.to /\ e0 \in Entry
  BY <1>2 DEF Entry
<1> HIDE DEF g, e0
<1>5. HasRoom(d, q[d])
  BY DEF HasRoom, CanReceive
<1>6. ProcessBufferedPackets(d, Enqueue(q, d, e), od, ev, freed, ApplyFlowControl(flit))
  BY <1>3, <1>4, <1>5 DEF SendFrom
<1>7. inQueue' = Enqueue(q, d, e)
  BY <1>6 DEF ProcessBufferedPackets
<1>8. /\ flit \in Flit /\ flit.header = r.header
      /\ flit.uid = f.uid /\ flit.head = f.head /\ flit.type = f.type
  BY <1>2 DEF Flit, MarkHeadPacketAsBlocked
<1> HIDE DEF flit
<1>9. e \in Entry /\ e.flit = flit /\ e.via = r.via /\ e.to = r.to
  BY <1>4, <1>8 DEF Entry
<1> HIDE DEF e
<1> QED
  BY <1>1, <1>7, <1>8, <1>9

\* The flit t that arrives: it is in order, it followed a route of its packet from the
\* sender, and it is received at the node it is for and nowhere else.
LEMMA ArrivingFlit ==
  ASSUME NEW Way, NEW Distance, IInv, DeliveryInv(Way, Distance),
         NEW t \in transmitEnd, NEW d \in OriginalDevices(t)
  PROVE  LET u  == t.flit.uid
             h  == injected[u].head
             rx == Peer[t.via]
         IN /\ d \in Device /\ inQueue[d] # <<>> /\ inQueue[d][1] = t
            /\ t \in Entry /\ t.flit \in Flit /\ rx \in NetDevice /\ rx \in Device
            /\ u \in 1 .. Len(injected) /\ h \in 1 .. u /\ h \in 1 .. Len(injected)
            /\ t.flit.head = h /\ t.flit.type = injected[u].type
            /\ injected[h].head = h /\ injected[u].dst = injected[h].dst
            /\ t.flit.type = "HEAD" <=> h = u
            /\ EntryOk(Way, Distance, routes, injected, d, t)
            /\ NodeOf[t.to] = injected[h].dst
            /\ t.to = rx <=> NodeOf[rx] = injected[h].dst
<1> DEFINE u  == t.flit.uid
           h  == injected[u].head
           rx == Peer[t.via]
<1>1. /\ TypeOK /\ NetInv(inQueue, originalDevice, transmitEnd, linkState)
      /\ FlitsOk(Way, Distance, inQueue, routes, injected)
  BY DEF IInv, DeliveryInv
<1>2. d \in Device /\ inQueue[d] # <<>> /\ inQueue[d][1] = t
  BY <1>1, SenderHasFlit
<1>3. 1 \in 1 .. Len(inQueue[d]) /\ Len(injected) \in Nat
  <2>1. inQueue \in [Device -> Seq(Entry)] /\ injected \in Seq(InjectedFlit)
    BY <1>1 DEF TypeOK
  <2> QED
    BY <1>2, <2>1
<1>4. EntryOk(Way, Distance, routes, injected, d, t)
  BY <1>1, <1>2, <1>3 DEF FlitsOk, EntriesOk
<1>5. t \in Entry /\ t.flit \in Flit /\ rx \in NetDevice /\ rx \in Device
  BY <1>1, LinkOfDevice DEF TypeOK, Entry, Device
<1>6. u \in 1 .. Len(injected) /\ t.flit.head = h /\ t.flit.type = injected[u].type
  BY <1>4 DEF EntryOk
<1>7. /\ h \in 1 .. u /\ injected[h].head = h /\ injected[u].dst = injected[h].dst
      /\ injected[u].type = "HEAD" <=> h = u
  BY <1>1, <1>6 DEF FlitsOk, PacketsOk, PacketOk
<1>8. h \in 1 .. Len(injected)
  BY <1>3, <1>6, <1>7
<1>9. PICK r \in Trail(routes, h) : r.node = NodeOf[d] /\ r.via = t.via /\ r.to = t.to
  BY <1>4 DEF EntryOk
<1>10. TrailStep(Distance, routes, injected, r) /\ r.head = h
  BY <1>1, <1>9 DEF FlitsOk, TrailsOk, Trail
<1>11. NodeOf[t.to] = injected[h].dst /\ (NodeOf[rx] = injected[h].dst => t.to = rx)
  BY <1>9, <1>10 DEF TrailStep, NextNode
<1> QED
  BY <1>2, <1>4, <1>5, <1>6, <1>7, <1>8, <1>11

\* The route that the head u gets at device d, for the flit e that takes it.
NewRoute(d, u, e) == [node |-> NodeOf[d], head |-> u, via |-> e.via, to |-> e.to]

\* Where a head is on its way and nearer than ever, the algorithm continues its trail.
LEMMA HeadGetsRoute ==
  ASSUME NEW Way, NEW Distance, RoutesLead(Way, Distance), TypeOK,
         NEW d \in Device, NEW f \in Flit, f.type = "HEAD",
         NEW inj \in Seq(InjectedFlit), f.uid \in 1 .. Len(inj), inj[f.uid].head = f.uid,
         TrailsOk(Distance, routes, inj),
         [device |-> d, to |-> inj[f.uid].dst, header |-> f.header] \in Way,
         Far(Distance, inj, NodeOf[d], f.uid) <= Far(Distance, inj, inj[f.uid].src, f.uid),
         \A s \in Trail(routes, f.uid) :
           /\ Far(Distance, inj, NodeOf[d], f.uid) < Far(Distance, inj, s.node, f.uid)
           /\ \/ NextNode(s) = NodeOf[d]
              \/ Far(Distance, inj, NodeOf[d], f.uid) < Far(Distance, inj, NextNode(s), f.uid),
         NEW q \in [Device -> Seq(Entry)], NEW od, NEW ev, NEW freed, CanReceive(d, q, ev),
         NodeSend(d, f, inj[f.uid].dst, q, od, ev, freed)
  PROVE  /\ UNCHANGED aborted
         /\ \E e \in Entry :
              /\ e.flit.uid = f.uid /\ e.flit.head = f.head /\ e.flit.type = "HEAD"
              /\ inQueue' = Enqueue(q, d, e)
              /\ routes' = routes \cup {NewRoute(d, f.uid, e)}
              /\ \E r \in RequestNewRoute(d, inj[f.uid].dst, f.header) : e.via = r.via
              /\ ContinuesTrail(Distance, routes, inj, NewRoute(d, f.uid, e))
              /\ TrailsOk(Distance, routes', inj)
              /\ HeadOk(Way, Distance, routes', inj, d, e)
<1> DEFINE u   == f.uid
           dst == inj[u].dst
           w   == [device |-> d, to |-> dst, header |-> f.header]
           far(n) == Far(Distance, inj, n, u)
<1>1. dst \in Node /\ NodeOf[d] \in Node /\ u \in 1 .. MaxInjected
  <2>1. inj[u] \in InjectedFlit
    OBVIOUS
  <2> QED
    BY <2>1, TopologyAssumption DEF InjectedFlit, Flit
<1>2. /\ Distance \in [Node -> [Node -> Nat]]
      /\ NodeOf[w.device] # w.to
      /\ RequestNewRoute(w.device, w.to, w.header) # {}
      /\ \A r \in RequestNewRoute(w.device, w.to, w.header) :
           /\ Distance[NodeOf[Peer[r.via]]][w.to] < Distance[NodeOf[w.device]][w.to]
           /\ IF NodeOf[Peer[r.via]] = w.to THEN r.to = Peer[r.via]
              ELSE [device |-> Peer[r.via], to |-> w.to, header |-> r.header] \in Way
  BY DEF RoutesLead
<1>3. w.device = d /\ w.to = dst /\ w.header = f.header
  OBVIOUS
<1> HIDE DEF w
<1>4. ManageFlit(d, f, dst) = RequestNewRoute(d, dst, f.header) /\ ManageFlit(d, f, dst) # {}
  BY <1>2, <1>3 DEF ManageFlit, RequestRoute
<1>5. /\ UNCHANGED aborted
      /\ \E r \in ManageFlit(d, f, dst), e \in Entry :
           /\ e.flit.uid = f.uid /\ e.flit.head = f.head /\ e.flit.type = f.type
           /\ e.flit.header = r.header /\ e.via = r.via /\ e.to = r.to
           /\ inQueue' = Enqueue(q, d, e)
           /\ routes' = IF f.type = "HEAD" THEN RememberRoute(d, f, r) ELSE routes
  BY <1>1, <1>4, NodeSendRoutes
<1>6. PICK r \in ManageFlit(d, f, dst), e \in Entry :
        /\ e.flit.uid = u /\ e.flit.head = f.head /\ e.flit.type = "HEAD"
        /\ e.flit.header = r.header /\ e.via = r.via /\ e.to = r.to
        /\ inQueue' = Enqueue(q, d, e)
        /\ routes' = RememberRoute(d, f, r)
  BY <1>5
<1>7. NodeOf[e.to] = dst
  <2>1. f.header \in Header
    BY DEF Flit
  <2> QED
    BY <1>1, <1>4, <1>6, <2>1, RoutingAssumption
<1>8. /\ far(NodeOf[Peer[e.via]]) < far(NodeOf[d])
      /\ IF NodeOf[Peer[e.via]] = dst THEN e.to = Peer[e.via]
         ELSE [device |-> Peer[e.via], to |-> dst, header |-> e.flit.header] \in Way
      /\ NodeOf[d] # dst
  BY <1>2, <1>3, <1>4, <1>6 DEF Far
<1> DEFINE new == NewRoute(d, u, e)
<1>9. new \in Route /\ new.node = NodeOf[d] /\ new.head = u /\ new.via = e.via /\ new.to = e.to
  BY <1>1, <1>6 DEF NewRoute, Route, Entry
<1>10. routes' = routes \cup {new}
  <2>1. far(NodeOf[d]) \in Nat
    BY <1>1, <1>2, FarNat
  <2>2. ASSUME NEW s \in routes PROVE ~(s.node = NodeOf[d] /\ s.head = u)
    BY <2>1 DEF Trail
  <2> QED
    BY <1>6, <2>2 DEF RememberRoute, NewRoute
<1> HIDE DEF new
<1>11. ContinuesTrail(Distance, routes, inj, new)
  BY <1>7, <1>8, <1>9 DEF ContinuesTrail, NextNode
<1>12. TrailsOk(Distance, routes', inj)
  <2>1. routes \in SUBSET Route
    BY DEF TypeOK, Route
  <2> QED
    BY <1>2, <1>10, <1>11, <2>1, NewRouteKeepsTrails
<1>13. HeadOk(Way, Distance, routes', inj, d, e)
  <2>1. far(NodeOf[d]) \in Nat
    BY <1>1, <1>2, FarNat
  <2>2. \A s \in Trail(routes', u) : far(NodeOf[d]) <= far(s.node)
    <3> SUFFICES ASSUME NEW s \in Trail(routes', u) PROVE far(NodeOf[d]) <= far(s.node)
      OBVIOUS
    <3>1. s = new \/ s \in Trail(routes, u)
      BY <1>10 DEF Trail
    <3>2. CASE s = new
      BY <1>9, <2>1, <3>2
    <3>3. CASE s \in Trail(routes, u)
      <4>1. s \in routes /\ s.head = u /\ routes \in SUBSET Route
        BY <3>3 DEF Trail, TypeOK, Route
      <4>2. far(s.node) \in Nat
        BY <1>2, <4>1, TrailNat
      <4> QED
        BY <2>1, <3>3, <4>2
    <3> QED
      BY <3>1, <3>2, <3>3
  <2> QED
    BY <1>6, <1>8, <2>2 DEF HeadOk
<1> QED
  BY <1>4, <1>5, <1>6, <1>10, <1>11, <1>12, <1>13 DEF new

\* A head stays where it is when another flit leaves a queue, or enters one.
LEMMA HeadStays ==
  ASSUME NEW q \in [Device -> Seq(Entry)], NEW n, NEW h, HeadAt(q, n, h)
  PROVE  /\ \A d \in Device : q[d] # <<>> /\ q[d][1].flit.uid # h => HeadAt(Dequeue(q, d), n, h)
         /\ \A d \in Device, e \in Entry : HeadAt(Enqueue(q, d, e), n, h)
<1>1. PICK a \in Device : NodeOf[a] = n /\ \E i \in 1 .. Len(q[a]) : q[a][i].flit.uid = h
  BY DEF HeadAt
<1>2. PICK i \in 1 .. Len(q[a]) : q[a][i].flit.uid = h
  BY <1>1
<1>3. ASSUME NEW d \in Device, q[d] # <<>>, q[d][1].flit.uid # h
      PROVE  HeadAt(Dequeue(q, d), n, h)
  <2>1. CASE a = d
    <3>1. q[d] \in Seq(Entry) /\ Dequeue(q, d)[d] = Tail(q[d])
      BY DEF Dequeue
    <3>2. /\ Len(Tail(q[d])) = Len(q[d]) - 1 /\ Len(q[d]) \in Nat
          /\ \A k \in 1 .. Len(Tail(q[d])) : Tail(q[d])[k] = q[d][k + 1]
      BY <1>3, <3>1
    <3>3. i # 1
      BY <1>2, <1>3, <2>1
    <3>4. i - 1 \in 1 .. Len(Dequeue(q, d)[d]) /\ Dequeue(q, d)[d][i - 1] = q[d][i]
      BY <2>1, <3>1, <3>2, <3>3
    <3> QED
      BY <1>1, <1>2, <2>1, <3>4 DEF HeadAt
  <2>2. CASE a # d
    <3>1. Dequeue(q, d)[a] = q[a]
      BY <2>2 DEF Dequeue
    <3> QED
      BY <1>1, <1>2, <3>1 DEF HeadAt
  <2> QED
    BY <2>1, <2>2
<1>4. ASSUME NEW d \in Device, NEW e \in Entry
      PROVE  HeadAt(Enqueue(q, d, e), n, h)
  <2>1. i \in 1 .. Len(Enqueue(q, d, e)[a]) /\ Enqueue(q, d, e)[a][i] = q[a][i]
    BY EnqueuePlace
  <2> QED
    BY <1>1, <1>2, <2>1 DEF HeadAt
<1> QED
  BY <1>3, <1>4

\* Injecting a head keeps the invariant: its trail starts.
LEMMA InjectHeadKeepsDelivery ==
  ASSUME NEW Way, NEW Distance, RoutesLead(Way, Distance), IInv, DeliveryInv(Way, Distance),
         NEW n \in Node, NEW dst \in Node, InjectHead(n, dst), IInv'
  PROVE  /\ DeliveryInv(Way, Distance)'
         /\ \E new : /\ routes' = routes \cup {new} /\ Trail(routes, new.head) = {}
                     /\ ContinuesTrail(Distance, routes, injected', new)
<1> DEFINE u   == NextUid
           f   == [uid |-> u, head |-> u, type |-> "HEAD",
                   header |-> NewHeader(n, dst), blocked |-> FALSE]
           d   == InjectionDevice[n]
           x   == [head |-> f.head, type |-> f.type, src |-> n, dst |-> dst]
           inj == Append(injected, x)
<1>1. /\ TypeOK /\ NetInv(inQueue, originalDevice, transmitEnd, linkState)
      /\ Accounted /\ Accounted'
      /\ FlitsOk(Way, Distance, inQueue, routes, injected)
      /\ TrailsStart(routes, injected) /\ TrailsGoOn(inQueue, routes, injected)
      /\ ReceivedOk(inQueue, received, injected) /\ aborted = "none"
  BY DEF IInv, DeliveryInv
<1>2. /\ inQueue \in [Device -> Seq(Entry)] /\ routes \in SUBSET Route
      /\ injected \in Seq(InjectedFlit) /\ Len(injected) \in Nat
  BY <1>1, DeliveryTypes
<1>3. /\ d \in Device /\ d \in InputDevice /\ NodeOf[d] = n
      /\ <<n, dst>> \in Flow /\ n # dst
  BY TopologyAssumption, ConfigurationAssumption DEF Device, InjectHead
<1>4. /\ NodeSend(d, f, dst, inQueue, originalDevice, transmitEnd, {})
      /\ injected' = inj /\ received' = received /\ Len(injected) < MaxInjected
  BY DEF InjectHead, Inject
<1>5. u = Len(injected) + 1 /\ u \in 1 .. MaxInjected
  BY <1>2, <1>4, ConfigurationAssumption DEF NextUid
<1>6. f \in Flit /\ f.uid = u /\ f.head = u /\ f.type = "HEAD" /\ f.header = NewHeader(n, dst)
  BY <1>5, RoutingAssumption DEF Flit
<1>7. x \in InjectedFlit /\ x = [head |-> u, type |-> "HEAD", src |-> n, dst |-> dst]
  BY <1>5 DEF InjectedFlit
<1>8. /\ inj \in Seq(InjectedFlit) /\ Len(inj) = u /\ inj[u] = x
      /\ \A w \in 1 .. Len(injected) : inj[w] = injected[w] /\ w \in 1 .. Len(inj)
  BY <1>2, <1>5, <1>7
<1> HIDE DEF f, x, inj, u, d
<1>9. FlitsOk(Way, Distance, inQueue, routes, inj)
  <2>1. PacketOk(inj, u)
    BY <1>3, <1>5, <1>7, <1>8 DEF PacketOk
  <2> QED
    BY <1>1, <1>2, <1>5, <1>7, <2>1, InjectionKeepsFlits DEF inj
<1>10. ~Held(inQueue, u) /\ Trail(routes, u) = {}
  <2>1. \A r \in routes : r.head \in 1 .. Len(injected)
    BY <1>1 DEF FlitsOk, TrailsOk, TrailStep
  <2>2. u \notin 1 .. Len(injected)
    BY <1>2, <1>5
  <2> QED
    BY <1>1, <2>1, <2>2 DEF Accounted, Trail
<1>11. [device |-> d, to |-> inj[u].dst, header |-> f.header] \in Way
  <2> DEFINE fl == <<n, dst>>
  <2>1. fl \in Flow /\ fl[1] = n /\ fl[2] = dst
    BY <1>3
  <2> HIDE DEF fl
  <2>2. [device |-> InjectionDevice[fl[1]], to |-> fl[2], header |-> NewHeader(fl[1], fl[2])] \in Way
    BY <2>1 DEF RoutesLead
  <2> QED
    BY <1>6, <1>7, <1>8, <2>1, <2>2 DEF d
<1>12. CanReceive(d, inQueue, transmitEnd)
  BY <1>3 DEF CanReceive
<1>13. inj[u].head = u /\ inj[u].src = n /\ inj[u].dst = dst /\ u \in 1 .. Len(inj)
  BY <1>5, <1>7, <1>8
<1>14. Far(Distance, inj, n, u) \in Nat
  BY <1>8, <1>13, FarNat DEF RoutesLead
<1>15. /\ UNCHANGED aborted
       /\ \E e \in Entry :
            /\ e.flit.uid = f.uid /\ e.flit.head = f.head /\ e.flit.type = "HEAD"
            /\ inQueue' = Enqueue(inQueue, d, e)
            /\ routes' = routes \cup {NewRoute(d, f.uid, e)}
            /\ ContinuesTrail(Distance, routes, inj, NewRoute(d, f.uid, e))
            /\ TrailsOk(Distance, routes', inj)
            /\ HeadOk(Way, Distance, routes', inj, d, e)
  <2>1. TrailsOk(Distance, routes, inj)
    BY <1>9 DEF FlitsOk
  <2>2. f.uid \in 1 .. Len(inj) /\ inj[f.uid].head = f.uid /\ inj[f.uid].dst = dst
    BY <1>6, <1>13
  <2>3. Far(Distance, inj, NodeOf[d], f.uid) <= Far(Distance, inj, inj[f.uid].src, f.uid)
    BY <1>3, <1>6, <1>13, <1>14
  <2>4. Trail(routes, f.uid) = {}
    BY <1>6, <1>10
  <2>5. NodeSend(d, f, inj[f.uid].dst, inQueue, originalDevice, transmitEnd, {})
    BY <1>4, <2>2
  <2>6. [device |-> d, to |-> inj[f.uid].dst, header |-> f.header] \in Way
    BY <1>6, <1>11
  <2> QED
    BY <1>1, <1>2, <1>3, <1>6, <1>8, <1>12, <2>1, <2>2, <2>3, <2>4, <2>5, <2>6, HeadGetsRoute
<1>16. PICK e \in Entry :
         /\ e.flit.uid = u /\ e.flit.head = u /\ e.flit.type = "HEAD"
         /\ inQueue' = Enqueue(inQueue, d, e)
         /\ routes' = routes \cup {NewRoute(d, u, e)}
         /\ ContinuesTrail(Distance, routes, inj, NewRoute(d, u, e))
         /\ TrailsOk(Distance, routes', inj)
         /\ HeadOk(Way, Distance, routes', inj, d, e)
  BY <1>6, <1>15
<1> DEFINE new == NewRoute(d, u, e)
<1>17. new.node = n /\ new.head = u /\ new.via = e.via /\ new.to = e.to
  BY <1>3 DEF NewRoute
<1> HIDE DEF new
<1>18. EntryOk(Way, Distance, routes', inj, d, e)
  <2>1. new \in Trail(routes', u)
    BY <1>16, <1>17 DEF Trail, new
  <2>2. OnTrail(routes', inj, u, d)
    BY <1>13 DEF OnTrail, d
  <2> QED
    BY <1>3, <1>7, <1>8, <1>13, <1>16, <1>17, <2>1, <2>2 DEF EntryOk
<1>19. \A c \in Device : \A j \in 1 .. Len(inQueue[c]) : inj[inQueue[c][j].flit.uid].head # u
  <2> SUFFICES ASSUME NEW c \in Device, NEW j \in 1 .. Len(inQueue[c])
               PROVE  inj[inQueue[c][j].flit.uid].head # u
    OBVIOUS
  <2>1. inQueue[c][j].flit.uid \in 1 .. Len(injected)
    BY <1>1 DEF FlitsOk, EntriesOk, EntryOk
  <2>2. inj[inQueue[c][j].flit.uid].head \in 1 .. inQueue[c][j].flit.uid
    BY <1>8, <1>9, <2>1 DEF FlitsOk, PacketsOk, PacketOk
  <2> QED
    BY <1>2, <1>5, <2>1, <2>2
<1>20. /\ EntriesOk(Way, Distance, inQueue', routes', inj)
       /\ Ordered(Distance, inQueue', inj)
  <2>1. EntriesOk(Way, Distance, inQueue, routes', inj)
    BY <1>9, <1>10, <1>16, <1>17, NewRouteKeepsEntries DEF FlitsOk, new
  <2>2. Ordered(Distance, inQueue, inj)
    BY <1>9 DEF FlitsOk
  <2> QED
    BY <1>2, <1>3, <1>13, <1>16, <1>18, <1>19, <2>1, <2>2, EnqueueKeepsOrder
<1>21. TrailsStart(routes', inj)
  <2> SUFFICES ASSUME NEW h \in 1 .. Len(inj), inj[h].head = h
               PROVE  \E r \in Trail(routes', h) : r.node = inj[h].src
    BY DEF TrailsStart
  <2>1. CASE h = u
    BY <1>13, <1>16, <1>17, <2>1 DEF Trail, new
  <2>2. CASE h # u
    <3>1. h \in 1 .. Len(injected) /\ inj[h] = injected[h]
      BY <1>2, <1>5, <1>8, <2>2
    <3> QED
      BY <1>1, <1>16, <3>1 DEF TrailsStart, Trail
  <2> QED
    BY <2>1, <2>2
<1>22. TrailsGoOn(inQueue', routes', inj)
  <2> SUFFICES ASSUME NEW r \in routes'
               PROVE  \/ NextNode(r) = inj[r.head].dst
                      \/ \E s \in Trail(routes', r.head) : s.node = NextNode(r)
                      \/ HeadAt(inQueue', r.node, r.head)
    BY DEF TrailsGoOn
  <2>1. CASE r = new
    <3>1. Len(inQueue[d]) + 1 \in 1 .. Len(inQueue'[d]) /\ inQueue'[d][Len(inQueue[d]) + 1] = e
      BY <1>2, <1>3, <1>16, EnqueuePlace
    <3> QED
      BY <1>3, <1>16, <1>17, <2>1, <3>1 DEF HeadAt
  <2>2. CASE r \in routes
    <3>1. r.head \in 1 .. Len(injected)
      BY <1>1, <2>2 DEF FlitsOk, TrailsOk, TrailStep
    <3>2. inj[r.head] = injected[r.head]
      BY <1>8, <3>1
    <3>3. HeadAt(inQueue, r.node, r.head) => HeadAt(inQueue', r.node, r.head)
      BY <1>2, <1>3, <1>16, HeadStays
    <3> QED
      BY <1>1, <1>16, <2>2, <3>2, <3>3 DEF TrailsGoOn, Trail
  <2> QED
    BY <1>16, <2>1, <2>2 DEF new
<1>23. ReceivedOk(inQueue', received', inj)
  <2> SUFFICES ASSUME NEW r \in received
               PROVE  /\ r.node = inj[r.uid].dst
                      /\ \A w \in 1 .. r.uid - 1 : inj[w].head = inj[r.uid].head => ~Held(inQueue', w)
    BY <1>4 DEF ReceivedOk
  <2>1. r.uid \in 1 .. Len(injected)
    BY <1>1 DEF Accounted
  <2>2. \A w \in 1 .. r.uid - 1 : w \in 1 .. Len(injected) /\ w # u
    BY <1>2, <1>5, <2>1
  <2>3. \A w : Held(inQueue', w) => Held(inQueue, w) \/ w = u
    BY <1>2, <1>3, <1>16, EnqueueHolds
  <2> QED
    BY <1>1, <1>8, <2>1, <2>2, <2>3 DEF ReceivedOk
<1>24. DeliveryInv(Way, Distance)'
  BY <1>1, <1>4, <1>9, <1>15, <1>16, <1>20, <1>21, <1>22, <1>23 DEF DeliveryInv, FlitsOk
<1> QED
  BY <1>4, <1>10, <1>16, <1>17, <1>24 DEF new

\* A body flit takes the route of its head, and changes neither trail nor route.
LEMMA BodyTakesRoute ==
  ASSUME TypeOK, NEW d \in Device, NEW f \in Flit, f.type # "HEAD",
         NEW dst \in Node, NodeOf[d] # dst, \E s \in Trail(routes, f.head) : s.node = NodeOf[d],
         NEW q \in [Device -> Seq(Entry)], NEW od, NEW ev, NEW freed, CanReceive(d, q, ev),
         NodeSend(d, f, dst, q, od, ev, freed)
  PROVE  /\ UNCHANGED <<aborted, routes>>
         /\ \E e \in Entry, s \in Trail(routes, f.head) :
              /\ e.flit.uid = f.uid /\ e.flit.head = f.head /\ e.flit.type = f.type
              /\ inQueue' = Enqueue(q, d, e)
              /\ s.node = NodeOf[d] /\ s.via = e.via /\ s.to = e.to
<1>1. ManageFlit(d, f, dst)
        = {[via |-> r.via, to |-> r.to, header |-> f.header] :
             r \in {r \in routes : r.node = NodeOf[d] /\ r.head = f.head}}
  BY DEF ManageFlit, RequestRoute
<1>2. ManageFlit(d, f, dst) # {}
  BY <1>1 DEF Trail
<1>3. /\ UNCHANGED aborted
      /\ \E r \in ManageFlit(d, f, dst), e \in Entry :
           /\ e.flit.uid = f.uid /\ e.flit.head = f.head /\ e.flit.type = f.type
           /\ e.flit.header = r.header /\ e.via = r.via /\ e.to = r.to
           /\ inQueue' = Enqueue(q, d, e)
           /\ routes' = IF f.type = "HEAD" THEN RememberRoute(d, f, r) ELSE routes
  BY <1>2, NodeSendRoutes
<1>4. PICK r \in ManageFlit(d, f, dst), e \in Entry :
        /\ e.flit.uid = f.uid /\ e.flit.head = f.head /\ e.flit.type = f.type
        /\ e.via = r.via /\ e.to = r.to
        /\ inQueue' = Enqueue(q, d, e) /\ routes' = routes
  BY <1>3
<1>5. PICK s \in routes : /\ s.node = NodeOf[d] /\ s.head = f.head
                          /\ r = [via |-> s.via, to |-> s.to, header |-> f.header]
  BY <1>1
<1> QED
  BY <1>3, <1>4, <1>5 DEF Trail

\* Injecting a body flit keeps the invariant: it is the last of its packet, and all
\* others are before it in the queue or have left.
LEMMA InjectBodyKeepsDelivery ==
  ASSUME NEW Way, NEW Distance, RoutesLead(Way, Distance), IInv, DeliveryInv(Way, Distance),
         NEW n \in Node, NEW type \in {"DATA", "TAIL"}, InjectBody(n, type), IInv'
  PROVE  DeliveryInv(Way, Distance)' /\ UNCHANGED routes
<1>1. PICK h \in OpenPackets(n) :
        Inject(n, [uid |-> NextUid, head |-> h, type |-> type,
                   header |-> NoHeader, blocked |-> FALSE], injected[h].dst)
  BY DEF InjectBody
<1> DEFINE u   == NextUid
           dst == injected[h].dst
           f   == [uid |-> u, head |-> h, type |-> type,
                   header |-> NoHeader, blocked |-> FALSE]
           d   == InjectionDevice[n]
           x   == [head |-> f.head, type |-> f.type, src |-> n, dst |-> dst]
           inj == Append(injected, x)
           far(m) == Far(Distance, inj, m, h)
<1>2. /\ TypeOK /\ Accounted /\ Accounted'
      /\ FlitsOk(Way, Distance, inQueue, routes, injected)
      /\ TrailsStart(routes, injected) /\ TrailsGoOn(inQueue, routes, injected)
      /\ ReceivedOk(inQueue, received, injected) /\ aborted = "none"
      /\ Distance \in [Node -> [Node -> Nat]]
  BY DEF IInv, DeliveryInv, RoutesLead
<1>3. /\ inQueue \in [Device -> Seq(Entry)] /\ routes \in SUBSET Route
      /\ injected \in Seq(InjectedFlit) /\ Len(injected) \in Nat
  BY <1>2, DeliveryTypes
<1>4. /\ h \in 1 .. Len(injected) /\ injected[h].type = "HEAD" /\ injected[h].src = n
      /\ injected[h] \in InjectedFlit /\ dst \in Node
  <2>1. h \in 1 .. Len(injected) /\ injected[h].type = "HEAD" /\ injected[h].src = n
    BY DEF OpenPackets
  <2>2. injected[h] \in InjectedFlit
    BY <1>3, <2>1
  <2> QED
    BY <2>1, <2>2 DEF InjectedFlit
<1>5. injected[h].head = h /\ <<n, dst>> \in Flow /\ n # dst
  <2>1. PacketOk(injected, h)
    BY <1>2, <1>4 DEF FlitsOk, PacketsOk
  <2>2. injected[h].head = h /\ <<n, dst>> \in Flow
    BY <1>4, <2>1 DEF PacketOk
  <2> QED
    BY <2>2, ConfigurationAssumption
<1>6. /\ NodeSend(d, f, dst, inQueue, originalDevice, transmitEnd, {})
      /\ injected' = inj /\ received' = received /\ Len(injected) < MaxInjected
  BY <1>1 DEF Inject
<1>7. u = Len(injected) + 1 /\ u \in 1 .. MaxInjected /\ h \in 1 .. MaxInjected /\ h < u
  BY <1>3, <1>4, <1>6, ConfigurationAssumption DEF NextUid
<1>8. d \in Device /\ d \in InputDevice /\ NodeOf[d] = n
  BY TopologyAssumption DEF Device
<1>9. f \in Flit /\ f.uid = u /\ f.head = h /\ f.type = type /\ f.type # "HEAD"
  BY <1>7 DEF Flit
<1>10. x \in InjectedFlit /\ x = [head |-> h, type |-> type, src |-> n, dst |-> dst]
  BY <1>4, <1>7 DEF InjectedFlit
<1>11. /\ inj \in Seq(InjectedFlit) /\ Len(inj) = u /\ inj[u] = x /\ u \in 1 .. Len(inj)
       /\ \A w \in 1 .. Len(injected) : inj[w] = injected[w] /\ w \in 1 .. Len(inj)
  BY <1>3, <1>7, <1>10
<1> HIDE DEF f, x, inj, u, d, dst
<1>12. FlitsOk(Way, Distance, inQueue, routes, inj)
  <2>1. PacketOk(inj, u)
    BY <1>4, <1>5, <1>7, <1>10, <1>11 DEF PacketOk, dst
  <2> QED
    BY <1>2, <1>3, <1>7, <1>10, <2>1, InjectionKeepsFlits DEF inj
<1>13. inj[u].head = h /\ inj[h] = injected[h] /\ inj[h].src = n /\ h \in 1 .. Len(inj)
  BY <1>4, <1>10, <1>11
<1>14. PICK r \in Trail(routes, h) : r.node = n
  BY <1>2, <1>4, <1>5 DEF TrailsStart
<1>15. CanReceive(d, inQueue, transmitEnd)
  BY <1>8 DEF CanReceive
<1>16. /\ UNCHANGED <<aborted, routes>>
       /\ \E e \in Entry, s \in Trail(routes, f.head) :
            /\ e.flit.uid = f.uid /\ e.flit.head = f.head /\ e.flit.type = f.type
            /\ inQueue' = Enqueue(inQueue, d, e)
            /\ s.node = NodeOf[d] /\ s.via = e.via /\ s.to = e.to
  <2>1. \E s \in Trail(routes, f.head) : s.node = NodeOf[d]
    BY <1>8, <1>9, <1>14
  <2> QED
    BY <1>2, <1>3, <1>4, <1>5, <1>6, <1>8, <1>9, <1>15, <2>1, BodyTakesRoute DEF dst
<1>17. PICK e \in Entry, s \in Trail(routes, h) :
         /\ e.flit.uid = u /\ e.flit.head = h /\ e.flit.type = type
         /\ inQueue' = Enqueue(inQueue, d, e)
         /\ s.node = n /\ s.via = e.via /\ s.to = e.to
  BY <1>8, <1>9, <1>16
<1>18. EntryOk(Way, Distance, routes, inj, d, e)
  <2>1. OnTrail(routes, inj, h, d)
    BY <1>13 DEF OnTrail, d
  <2> QED
    BY <1>8, <1>10, <1>11, <1>13, <1>17, <2>1 DEF EntryOk
<1>19. ASSUME NEW c \in Device, NEW j \in 1 .. Len(inQueue[c]),
              inj[inQueue[c][j].flit.uid].head = h
       PROVE  /\ inQueue[c][j].flit.uid < u
              /\ far(NodeOf[c]) < far(n) \/ c = d
  <2>1. inQueue[c][j].flit.uid \in 1 .. Len(injected)
    BY <1>2 DEF FlitsOk, EntriesOk, EntryOk
  <2>2. EntryOk(Way, Distance, routes, inj, c, inQueue[c][j]) /\ TrailsOk(Distance, routes, inj)
    BY <1>12 DEF FlitsOk, EntriesOk
  <2>3. PICK y \in Trail(routes, h) : y.node = NodeOf[c]
    BY <1>19, <2>2 DEF EntryOk
  <2>4. far(y.node) \in Nat /\ far(n) \in Nat
    <3>1. y \in routes /\ y.head = h
      BY <2>3 DEF Trail
    <3> QED
      BY <1>2, <1>3, <1>11, <1>13, <2>2, <3>1, TrailNat
  <2>5. far(y.node) <= far(n) /\ (far(r.node) = far(y.node) => r = y)
    BY <1>13, <2>2 DEF TrailsOk, TrailStep, Trail
  <2>6. CASE far(y.node) = far(n)
    <3>1. NodeOf[c] = n
      BY <1>14, <2>3, <2>5, <2>6
    <3>2. ASSUME NEW z \in Trail(routes, h), Peer[z.via] = c PROVE FALSE
      <4>1. far(NextNode(z)) < far(z.node) /\ far(z.node) <= far(n)
        BY <1>13, <2>2 DEF TrailsOk, TrailStep, Trail
      <4>2. far(z.node) \in Nat
        BY <1>2, <1>3, <1>11, <2>2, TrailNat DEF Trail
      <4>3. NextNode(z) = n
        BY <3>1, <3>2 DEF NextNode
      <4> QED
        BY <2>4, <4>1, <4>2, <4>3
    <3> QED
      BY <1>13, <1>19, <2>1, <2>2, <3>2, <1>3, <1>7 DEF EntryOk, OnTrail, d
  <2>7. CASE far(y.node) < far(n)
    BY <1>3, <1>7, <2>1, <2>3, <2>7
  <2> QED
    BY <2>4, <2>5, <2>6, <2>7
<1>20. /\ EntriesOk(Way, Distance, inQueue', routes, inj)
       /\ Ordered(Distance, inQueue', inj)
  <2>1. EntriesOk(Way, Distance, inQueue, routes, inj) /\ Ordered(Distance, inQueue, inj)
    BY <1>12 DEF FlitsOk
  <2>2. \A c \in Device : \A j \in 1 .. Len(inQueue[c]) :
          LET w == inQueue[c][j].flit.uid
              k == inj[e.flit.uid].head
          IN inj[w].head = k =>
               /\ e.flit.uid < w =>
                    Far(Distance, inj, NodeOf[d], k) < Far(Distance, inj, NodeOf[c], k)
               /\ w < e.flit.uid =>
                    \/ Far(Distance, inj, NodeOf[c], k) < Far(Distance, inj, NodeOf[d], k)
                    \/ c = d
    <3> SUFFICES ASSUME NEW c \in Device, NEW j \in 1 .. Len(inQueue[c]),
                        inj[inQueue[c][j].flit.uid].head = h
                 PROVE  /\ ~(u < inQueue[c][j].flit.uid)
                        /\ far(NodeOf[c]) < far(NodeOf[d]) \/ c = d
      BY <1>13, <1>17
    <3>1. inQueue[c][j].flit.uid \in 1 .. Len(injected)
      BY <1>2 DEF FlitsOk, EntriesOk, EntryOk
    <3> QED
      BY <1>3, <1>7, <1>8, <1>19, <3>1
  <2> QED
    BY <1>3, <1>8, <1>17, <1>18, <2>1, <2>2, EnqueueKeepsOrder
<1>21. TrailsStart(routes, inj)
  <2> SUFFICES ASSUME NEW k \in 1 .. Len(inj), inj[k].head = k
               PROVE  \E y \in Trail(routes, k) : y.node = inj[k].src
    BY DEF TrailsStart
  <2>1. k # u
    BY <1>7, <1>13
  <2>2. k \in 1 .. Len(injected) /\ inj[k] = injected[k]
    BY <1>3, <1>7, <1>11, <2>1
  <2> QED
    BY <1>2, <2>2 DEF TrailsStart
<1>22. TrailsGoOn(inQueue', routes, inj)
  <2> SUFFICES ASSUME NEW y \in routes
               PROVE  \/ NextNode(y) = inj[y.head].dst
                      \/ \E z \in Trail(routes, y.head) : z.node = NextNode(y)
                      \/ HeadAt(inQueue', y.node, y.head)
    BY DEF TrailsGoOn
  <2>1. y.head \in 1 .. Len(injected)
    BY <1>2 DEF FlitsOk, TrailsOk, TrailStep
  <2>2. inj[y.head] = injected[y.head]
    BY <1>11, <2>1
  <2>3. HeadAt(inQueue, y.node, y.head) => HeadAt(inQueue', y.node, y.head)
    BY <1>3, <1>8, <1>17, HeadStays
  <2> QED
    BY <1>2, <2>2, <2>3 DEF TrailsGoOn
<1>23. ReceivedOk(inQueue', received', inj)
  <2> SUFFICES ASSUME NEW y \in received
               PROVE  /\ y.node = inj[y.uid].dst
                      /\ \A w \in 1 .. y.uid - 1 : inj[w].head = inj[y.uid].head => ~Held(inQueue', w)
    BY <1>6 DEF ReceivedOk
  <2>1. y.uid \in 1 .. Len(injected)
    BY <1>2 DEF Accounted
  <2>2. \A w \in 1 .. y.uid - 1 : w \in 1 .. Len(injected) /\ w # u
    BY <1>3, <1>7, <2>1
  <2>3. \A w : Held(inQueue', w) => Held(inQueue, w) \/ w = u
    BY <1>3, <1>8, <1>17, EnqueueHolds
  <2> QED
    BY <1>2, <1>11, <2>1, <2>2, <2>3 DEF ReceivedOk
<1> QED
  BY <1>2, <1>6, <1>12, <1>16, <1>20, <1>21, <1>22, <1>23 DEF DeliveryInv, FlitsOk

\* The queues without the flit t that arrives: what is left is in order, and how the
\* other flits of the packet of t are related to its sender.
LEMMA OthersInOrder ==
  ASSUME NEW Way, NEW Distance \in [Node -> [Node -> Nat]], IInv, DeliveryInv(Way, Distance),
         NEW t \in transmitEnd, NEW d \in OriginalDevices(t)
  PROVE  LET q  == Dequeue(inQueue, d)
             u  == t.flit.uid
             h  == injected[u].head
             far(n) == Far(Distance, injected, n, h)
         IN /\ q \in [Device -> Seq(Entry)] /\ CanReceive(Peer[t.via], q, transmitEnd \ {t})
            /\ EntriesOk(Way, Distance, q, routes, injected) /\ Ordered(Distance, q, injected)
            /\ \A x : Held(q, x) <=> Held(inQueue, x) /\ x # u
            /\ far(NodeOf[d]) \in Nat /\ far(NodeOf[Peer[t.via]]) \in Nat
            /\ far(NodeOf[Peer[t.via]]) < far(NodeOf[d])
            /\ \A c \in Device : \A j \in 1 .. Len(q[c]) :
                 LET w == q[c][j].flit.uid
                 IN injected[w].head = h =>
                      /\ far(NodeOf[c]) \in Nat
                      /\ u < w => far(NodeOf[d]) < far(NodeOf[c]) \/ c = d
                      /\ w < u => far(NodeOf[c]) < far(NodeOf[d])
<1> DEFINE q  == Dequeue(inQueue, d)
           u  == t.flit.uid
           h  == injected[u].head
           rx == Peer[t.via]
           far(n) == Far(Distance, injected, n, h)
<1>1. /\ NetInv(inQueue, originalDevice, transmitEnd, linkState)
      /\ EntriesOk(Way, Distance, inQueue, routes, injected) /\ Ordered(Distance, inQueue, injected)
      /\ TrailsOk(Distance, routes, injected)
  BY DEF IInv, DeliveryInv, FlitsOk
<1>2. /\ inQueue \in [Device -> Seq(Entry)] /\ routes \in SUBSET Route
      /\ injected \in Seq(InjectedFlit)
  BY DEF IInv, TypeOK, Route
<1>3. /\ d \in Device /\ inQueue[d] # <<>> /\ inQueue[d][1] = t
      /\ u \in 1 .. Len(injected) /\ h \in 1 .. Len(injected) /\ h \in 1 .. u
      /\ EntryOk(Way, Distance, routes, injected, d, t) /\ rx \in Device
  BY ArrivingFlit
<1>4. /\ NetInv(q, ForgetSender(originalDevice, t), transmitEnd \ {t}, Freed({Link(t.via)}))
      /\ \A x : Held(q, x) <=> Held(inQueue, x) /\ x # u
      /\ CanReceive(rx, q, transmitEnd \ {t})
  BY <1>1, DequeueKeepsNetInv
<1>5. q \in [Device -> Seq(Entry)]
  BY <1>4 DEF NetInv
<1>6. /\ EntriesOk(Way, Distance, q, routes, injected) /\ Ordered(Distance, q, injected)
      /\ \A c \in Device : \A j \in 1 .. Len(q[c]) :
           /\ InOrder(Distance, injected, d, 1, u, c, j + 1, q[c][j].flit.uid)
           /\ InOrder(Distance, injected, c, 1, q[c][j].flit.uid, d, 1, u)
  BY <1>1, <1>2, <1>3, DequeueKeepsOrder
<1> HIDE DEF q, h, u
<1>7. \A n \in Node : far(n) \in Nat
  BY <1>2, <1>3, FarNat
<1>8. \A c \in Device : far(NodeOf[c]) \in Nat
  BY <1>7, TopologyAssumption
<1>9. far(NodeOf[rx]) < far(NodeOf[d])
  <2>1. PICK r \in Trail(routes, h) : r.node = NodeOf[d] /\ r.via = t.via /\ r.to = t.to
    BY <1>3 DEF EntryOk, h, u
  <2> QED
    BY <1>1, <2>1 DEF TrailsOk, TrailStep, Trail, NextNode
<1>10. ASSUME NEW c \in Device, NEW j \in 1 .. Len(q[c]), injected[q[c][j].flit.uid].head = h
       PROVE  LET w == q[c][j].flit.uid
              IN /\ u < w => far(NodeOf[d]) < far(NodeOf[c]) \/ c = d
                 /\ w < u => far(NodeOf[c]) < far(NodeOf[d])
  <2>1. /\ InOrder(Distance, injected, d, 1, u, c, j + 1, q[c][j].flit.uid)
        /\ InOrder(Distance, injected, c, 1, q[c][j].flit.uid, d, 1, u)
    BY <1>6
  <2>2. injected[u].head = h
    BY DEF h
  <2> QED
    BY <1>10, <2>1, <2>2 DEF InOrder
<1> QED
  BY <1>3, <1>4, <1>5, <1>6, <1>8, <1>9, <1>10 DEF q, h, u

\* A flit that is received keeps the invariant: the earlier ones of its packet are
\* nearer than the last node of the trail, so they are in no queue.
LEMMA ReceptionKeepsDelivery ==
  ASSUME NEW Way, NEW Distance, RoutesLead(Way, Distance), IInv, DeliveryInv(Way, Distance),
         NEW t \in transmitEnd, NEW d \in OriginalDevices(t), t.to = Peer[t.via],
         Receive(Peer[t.via], t, Dequeue(inQueue, d), ForgetSender(originalDevice, t),
                 transmitEnd \ {t}),
         UNCHANGED injected
  PROVE  DeliveryInv(Way, Distance)'
<1> DEFINE q  == Dequeue(inQueue, d)
           u  == t.flit.uid
           h  == injected[u].head
           rx == Peer[t.via]
           far(n) == Far(Distance, injected, n, h)
           new == [uid |-> u, node |-> NodeOf[rx]]
<1>1. /\ FlitsOk(Way, Distance, inQueue, routes, injected)
      /\ TrailsStart(routes, injected) /\ TrailsGoOn(inQueue, routes, injected)
      /\ ReceivedOk(inQueue, received, injected) /\ aborted = "none"
      /\ Distance \in [Node -> [Node -> Nat]] /\ \A n \in Node : Distance[n][n] = 0
  BY DEF DeliveryInv, RoutesLead
<1>2. /\ inQueue \in [Device -> Seq(Entry)] /\ routes \in SUBSET Route
      /\ injected \in Seq(InjectedFlit) /\ Len(injected) \in Nat
  BY DeliveryTypes DEF IInv
<1>3. /\ d \in Device /\ inQueue[d] # <<>> /\ inQueue[d][1] = t
      /\ u \in 1 .. Len(injected) /\ h \in 1 .. Len(injected) /\ h \in 1 .. u
      /\ injected[h].head = h /\ injected[u].dst = injected[h].dst
      /\ t.flit.type = "HEAD" <=> h = u
      /\ EntryOk(Way, Distance, routes, injected, d, t)
      /\ NodeOf[rx] = injected[h].dst /\ rx \in Device
  BY ArrivingFlit
<1>4. /\ received' = received \cup {new} /\ inQueue' = q
      /\ UNCHANGED <<injected, routes, aborted>>
  BY DEF Receive
<1>5. /\ EntriesOk(Way, Distance, q, routes, injected) /\ Ordered(Distance, q, injected)
      /\ \A x : Held(q, x) <=> Held(inQueue, x) /\ x # u
      /\ \A c \in Device : \A j \in 1 .. Len(q[c]) :
           LET w == q[c][j].flit.uid
           IN injected[w].head = h /\ w < u =>
                far(NodeOf[c]) \in Nat /\ far(NodeOf[c]) < far(NodeOf[d])
  BY <1>1, OthersInOrder
<1>6. PICK r \in Trail(routes, h) : r.node = NodeOf[d] /\ r.via = t.via /\ r.to = t.to
  BY <1>3 DEF EntryOk
<1>7. NextNode(r) = injected[h].dst
  BY <1>3, <1>6 DEF NextNode
<1> HIDE DEF q, h, u, new
<1>8. TrailsGoOn(q, routes, injected)
  <2> SUFFICES ASSUME NEW x \in routes
               PROVE  \/ NextNode(x) = injected[x.head].dst
                      \/ \E s \in Trail(routes, x.head) : s.node = NextNode(x)
                      \/ HeadAt(q, x.node, x.head)
    BY DEF TrailsGoOn
  <2>1. CASE ~HeadAt(inQueue, x.node, x.head)
    BY <1>1, <2>1 DEF TrailsGoOn
  <2>2. CASE HeadAt(inQueue, x.node, x.head) /\ x.head # u
    <3>1. inQueue[d][1].flit.uid # x.head
      BY <1>3, <2>2 DEF u
    <3> QED
      BY <1>2, <1>3, <2>2, <3>1, HeadStays DEF q
  <2>3. CASE HeadAt(inQueue, x.node, x.head) /\ x.head = u
    <3>1. injected[u].head = u /\ x \in Trail(routes, u)
      BY <1>1, <2>3 DEF FlitsOk, TrailsOk, TrailStep, Trail
    <3>2. h = u
      BY <3>1 DEF h
    <3>3. PICK a \in Device : NodeOf[a] = x.node /\ \E i \in 1 .. Len(inQueue[a]) : inQueue[a][i].flit.uid = u
      BY <2>3 DEF HeadAt
    <3>4. a = d
      <4>1. 1 \in 1 .. Len(inQueue[d]) /\ inQueue[d][1].flit.uid = u
        BY <1>2, <1>3 DEF u
      <4>2. Distinct(inQueue)
        BY DEF IInv, NetInv
      <4> QED
        BY <1>3, <3>3, <4>1, <4>2 DEF Distinct
    <3>5. x = r
      <4>1. far(x.node) = far(r.node)
        BY <1>6, <3>3, <3>4
      <4> QED
        BY <1>1, <1>6, <3>1, <3>2, <4>1 DEF FlitsOk, TrailsOk, TrailStep, Trail
    <3> QED
      BY <1>7, <2>3, <3>2, <3>5
  <2> QED
    BY <2>1, <2>2, <2>3
<1>9. \A w \in 1 .. u - 1 : injected[w].head = h => ~Held(q, w)
  <2> SUFFICES ASSUME NEW w \in 1 .. u - 1, injected[w].head = h, Held(q, w) PROVE FALSE
    OBVIOUS
  <2>1. PICK c \in Device : \E j \in 1 .. Len(q[c]) : q[c][j].flit.uid = w
    BY DEF Held
  <2>2. PICK j \in 1 .. Len(q[c]) : q[c][j].flit.uid = w
    BY <2>1
  <2>3. w < u
    BY <1>2, <1>3
  <2>4. far(NodeOf[c]) < far(NodeOf[d])
    BY <1>5, <2>2, <2>3
  <2>5. PICK s \in Trail(routes, h) : s.node = NodeOf[c]
    BY <1>5, <2>2 DEF EntriesOk, EntryOk
  <2>6. /\ s.node # injected[h].dst
        /\ NextNode(r) = s.node \/ far(s.node) < far(NextNode(r))
    BY <1>1, <1>6, <2>4, <2>5 DEF FlitsOk, TrailsOk, TrailStep, Trail
  <2>7. far(injected[h].dst) = 0
    <3>1. injected[h].dst \in Node
      BY <1>3, TopologyAssumption
    <3> QED
      BY <1>1, <3>1 DEF Far
  <2>8. far(s.node) \in Nat
    BY <1>5, <2>2, <2>3, <2>5
  <2> QED
    BY <1>7, <2>6, <2>7, <2>8
<1>10. ReceivedOk(q, received', injected)
  <2>1. ReceivedOk(q, received, injected)
    BY <1>1, <1>5 DEF ReceivedOk
  <2>2. new.uid = u /\ new.node = injected[u].dst /\ injected[u].head = h
    BY <1>3 DEF new, h
  <2> QED
    BY <1>4, <1>9, <2>1, <2>2 DEF ReceivedOk
<1> QED
  BY <1>1, <1>4, <1>5, <1>8, <1>10 DEF DeliveryInv, FlitsOk

\* A head flit that its next node sends on keeps the invariant: the trail goes on.
LEMMA HeadForwardKeepsDelivery ==
  ASSUME NEW Way, NEW Distance, RoutesLead(Way, Distance), IInv, DeliveryInv(Way, Distance),
         NEW t \in transmitEnd, NEW d \in OriginalDevices(t), t.to # Peer[t.via],
         t.flit.type = "HEAD",
         Receive(Peer[t.via], t, Dequeue(inQueue, d), ForgetSender(originalDevice, t),
                 transmitEnd \ {t}),
         UNCHANGED injected
  PROVE  /\ DeliveryInv(Way, Distance)'
         /\ [device |-> Peer[t.via], to |-> injected[t.flit.uid].dst, header |-> t.flit.header] \in Way
         /\ \E new : /\ routes' = routes \cup {new}
                     /\ ContinuesTrail(Distance, routes, injected, new)
                     /\ new.node = NodeOf[Peer[t.via]] /\ new.head = t.flit.uid
                     /\ \E r \in RequestNewRoute(Peer[t.via], injected[t.flit.uid].dst, t.flit.header) :
                          new.via = r.via
<1> DEFINE q  == Dequeue(inQueue, d)
           u  == t.flit.uid
           rx == Peer[t.via]
           far(n) == Far(Distance, injected, n, u)
<1>1. /\ TypeOK /\ FlitsOk(Way, Distance, inQueue, routes, injected)
      /\ TrailsStart(routes, injected) /\ TrailsGoOn(inQueue, routes, injected)
      /\ ReceivedOk(inQueue, received, injected) /\ aborted = "none"
      /\ Distance \in [Node -> [Node -> Nat]]
  BY DEF DeliveryInv, RoutesLead, IInv
<1>2. /\ inQueue \in [Device -> Seq(Entry)] /\ routes \in SUBSET Route
      /\ injected \in Seq(InjectedFlit) /\ Len(injected) \in Nat
  BY <1>1, DeliveryTypes
<1>3. /\ d \in Device /\ inQueue[d] # <<>> /\ inQueue[d][1] = t
      /\ t.flit \in Flit /\ rx \in NetDevice /\ rx \in Device
      /\ u \in 1 .. Len(injected) /\ injected[u].head = u /\ t.flit.head = u
      /\ injected[u].type = "HEAD"
      /\ EntryOk(Way, Distance, routes, injected, d, t)
      /\ NodeOf[t.to] = injected[u].dst /\ NodeOf[rx] # injected[u].dst
  BY ArrivingFlit
<1>4. /\ q \in [Device -> Seq(Entry)] /\ CanReceive(rx, q, transmitEnd \ {t})
      /\ EntriesOk(Way, Distance, q, routes, injected) /\ Ordered(Distance, q, injected)
      /\ \A x : Held(q, x) <=> Held(inQueue, x) /\ x # u
      /\ far(NodeOf[d]) \in Nat /\ far(NodeOf[rx]) \in Nat /\ far(NodeOf[rx]) < far(NodeOf[d])
      /\ \A c \in Device : \A j \in 1 .. Len(q[c]) :
           LET w == q[c][j].flit.uid
           IN injected[w].head = u =>
                /\ far(NodeOf[c]) \in Nat
                /\ u < w => far(NodeOf[d]) < far(NodeOf[c]) \/ c = d
  <2> DEFINE h     == injected[u].head
             fh(n) == Far(Distance, injected, n, h)
  <2>1. /\ q \in [Device -> Seq(Entry)] /\ CanReceive(rx, q, transmitEnd \ {t})
        /\ EntriesOk(Way, Distance, q, routes, injected) /\ Ordered(Distance, q, injected)
        /\ \A x : Held(q, x) <=> Held(inQueue, x) /\ x # u
        /\ fh(NodeOf[d]) \in Nat /\ fh(NodeOf[rx]) \in Nat /\ fh(NodeOf[rx]) < fh(NodeOf[d])
        /\ \A c \in Device : \A j \in 1 .. Len(q[c]) :
             LET w == q[c][j].flit.uid
             IN injected[w].head = h =>
                  /\ fh(NodeOf[c]) \in Nat
                  /\ u < w => fh(NodeOf[d]) < fh(NodeOf[c]) \/ c = d
    BY <1>1, OthersInOrder
  <2>2. h = u
    BY <1>3
  <2> QED
    BY <2>1, <2>2
<1>5. PICK r \in Trail(routes, u) : r.node = NodeOf[d] /\ r.via = t.via /\ r.to = t.to
  BY <1>3 DEF EntryOk
<1>6. /\ NextNode(r) = NodeOf[rx] /\ r \in routes /\ r.head = u
      /\ far(r.node) <= far(injected[u].src)
  BY <1>1, <1>5 DEF NextNode, FlitsOk, TrailsOk, TrailStep, Trail
<1>7. /\ NodeSend(rx, t.flit, NodeOf[t.to], q, ForgetSender(originalDevice, t),
                  transmitEnd \ {t}, {Link(t.via)})
      /\ UNCHANGED <<received, injected>>
  BY DEF Receive
<1>8. /\ [device |-> rx, to |-> injected[u].dst, header |-> t.flit.header] \in Way
      /\ \A s \in Trail(routes, u) : far(NodeOf[d]) <= far(s.node)
  BY <1>3 DEF EntryOk, HeadOk
<1> HIDE DEF q, u, rx
<1>9. ASSUME NEW s \in Trail(routes, u)
      PROVE  /\ far(NodeOf[rx]) < far(s.node)
             /\ NextNode(s) = NodeOf[rx] \/ far(NodeOf[rx]) < far(NextNode(s))
             /\ s.node = NodeOf[d] => s = r
  <2>1. s \in routes /\ s.head = u
    BY DEF Trail
  <2>2. far(s.node) \in Nat /\ far(NextNode(s)) \in Nat
    BY <1>1, <1>2, <2>1, TrailNat DEF FlitsOk
  <2>3. /\ far(s.node) = far(r.node) => s = r
        /\ far(r.node) < far(s.node) => NextNode(s) = r.node \/ far(r.node) < far(NextNode(s))
    BY <1>1, <1>5, <2>1 DEF FlitsOk, TrailsOk, TrailStep
  <2>4. far(NodeOf[d]) <= far(s.node) /\ r.node = NodeOf[d]
    BY <1>5, <1>8
  <2>5. far(NodeOf[rx]) < far(s.node)
    BY <1>4, <2>2, <2>4
  <2>6. CASE s = r
    BY <1>6, <2>5, <2>6
  <2>7. CASE s # r
    <3>1. far(r.node) < far(s.node)
      BY <1>4, <2>2, <2>3, <2>4, <2>7
    <3>2. far(r.node) <= far(NextNode(s))
      BY <1>4, <2>2, <2>3, <2>4, <3>1
    <3> QED
      BY <1>4, <2>2, <2>3, <2>4, <2>5, <3>2
  <2> QED
    BY <2>6, <2>7
<1>10. /\ UNCHANGED aborted
       /\ \E e \in Entry :
            /\ e.flit.uid = t.flit.uid /\ e.flit.head = t.flit.head /\ e.flit.type = "HEAD"
            /\ inQueue' = Enqueue(q, rx, e)
            /\ routes' = routes \cup {NewRoute(rx, t.flit.uid, e)}
            /\ \E y \in RequestNewRoute(rx, injected[t.flit.uid].dst, t.flit.header) : e.via = y.via
            /\ ContinuesTrail(Distance, routes, injected, NewRoute(rx, t.flit.uid, e))
            /\ TrailsOk(Distance, routes', injected)
            /\ HeadOk(Way, Distance, routes', injected, rx, e)
  <2>1. t.flit.uid = u /\ injected[u].src \in Node
    <3>1. injected[u] \in InjectedFlit
      BY <1>2, <1>3
    <3> QED
      BY <3>1 DEF u, InjectedFlit
  <2>2. far(NodeOf[rx]) <= far(injected[u].src)
    <3>1. far(injected[u].src) \in Nat
      BY <1>1, <1>2, <1>3, <2>1, FarNat
    <3> QED
      BY <1>4, <1>5, <1>6, <3>1
  <2>3. TrailsOk(Distance, routes, injected)
    BY <1>1 DEF FlitsOk
  <2>4. NodeSend(rx, t.flit, injected[t.flit.uid].dst, q, ForgetSender(originalDevice, t),
                 transmitEnd \ {t}, {Link(t.via)})
    BY <1>3, <1>7, <2>1
  <2>5. /\ t.flit.uid \in 1 .. Len(injected) /\ injected[t.flit.uid].head = t.flit.uid
        /\ t.flit \in Flit /\ rx \in Device
        /\ [device |-> rx, to |-> injected[t.flit.uid].dst, header |-> t.flit.header] \in Way
    BY <1>3, <1>8 DEF u
  <2>6. Far(Distance, injected, NodeOf[rx], t.flit.uid)
          <= Far(Distance, injected, injected[t.flit.uid].src, t.flit.uid)
    BY <2>2 DEF u
  <2>7. \A s \in Trail(routes, t.flit.uid) :
          /\ Far(Distance, injected, NodeOf[rx], t.flit.uid) < Far(Distance, injected, s.node, t.flit.uid)
          /\ \/ NextNode(s) = NodeOf[rx]
             \/ Far(Distance, injected, NodeOf[rx], t.flit.uid)
                  < Far(Distance, injected, NextNode(s), t.flit.uid)
    BY <1>9 DEF u
  <2>8. q \in [Device -> Seq(Entry)] /\ CanReceive(rx, q, transmitEnd \ {t})
    BY <1>4
  <2> QED
    BY <1>1, <1>2, <2>3, <2>4, <2>5, <2>6, <2>7, <2>8, HeadGetsRoute
<1>11. PICK e \in Entry :
         /\ e.flit.uid = u /\ e.flit.head = u /\ e.flit.type = "HEAD"
         /\ inQueue' = Enqueue(q, rx, e)
         /\ routes' = routes \cup {NewRoute(rx, u, e)}
         /\ \E y \in RequestNewRoute(rx, injected[u].dst, t.flit.header) : e.via = y.via
         /\ ContinuesTrail(Distance, routes, injected, NewRoute(rx, u, e))
         /\ TrailsOk(Distance, routes', injected)
         /\ HeadOk(Way, Distance, routes', injected, rx, e)
  BY <1>3, <1>10 DEF u
<1> DEFINE new == NewRoute(rx, u, e)
<1>12. new.node = NodeOf[rx] /\ new.head = u /\ new.via = e.via /\ new.to = e.to
  BY DEF NewRoute
<1> HIDE DEF new
<1>13. EntryOk(Way, Distance, routes', injected, rx, e)
  <2>1. new \in Trail(routes', u) /\ r \in Trail(routes', u)
    BY <1>6, <1>11, <1>12 DEF Trail, new
  <2>2. OnTrail(routes', injected, u, rx)
    BY <1>3, <1>5, <2>1 DEF OnTrail, rx
  <2> QED
    BY <1>3, <1>11, <1>12, <2>1, <2>2 DEF EntryOk
<1>14. /\ EntriesOk(Way, Distance, inQueue', routes', injected)
       /\ Ordered(Distance, inQueue', injected)
  <2>1. EntriesOk(Way, Distance, q, routes', injected)
    BY <1>4, <1>11, <1>12, NewRouteKeepsEntries DEF new
  <2>2. ASSUME NEW c \in Device, NEW j \in 1 .. Len(q[c]), injected[q[c][j].flit.uid].head = u
        PROVE  /\ far(NodeOf[rx]) < far(NodeOf[c])
               /\ ~(q[c][j].flit.uid < u)
    <3>1. q[c][j].flit.uid \in 1 .. Len(injected) /\ q[c][j].flit.uid # u
      BY <1>4 DEF EntriesOk, EntryOk, Held
    <3>2. injected[q[c][j].flit.uid].head \in 1 .. q[c][j].flit.uid
      BY <1>1, <3>1 DEF FlitsOk, PacketsOk, PacketOk
    <3>3. u < q[c][j].flit.uid
      BY <1>2, <1>3, <2>2, <3>1, <3>2
    <3>4. far(NodeOf[c]) \in Nat /\ (far(NodeOf[d]) < far(NodeOf[c]) \/ c = d)
      BY <1>4, <2>2, <3>3
    <3> QED
      BY <1>2, <1>3, <1>4, <3>1, <3>3, <3>4
  <2> QED
    BY <1>3, <1>4, <1>11, <1>13, <2>1, <2>2, EnqueueKeepsOrder
<1>15. TrailsStart(routes', injected)
  BY <1>1, <1>11 DEF TrailsStart, Trail
<1>16. HeadAt(inQueue', NodeOf[rx], u)
  <2>0. q \in [Device -> Seq(Entry)] /\ rx \in Device /\ inQueue' = Enqueue(q, rx, e)
    BY <1>3, <1>4, <1>11
  <2>1. Len(q[rx]) + 1 \in 1 .. Len(inQueue'[rx]) /\ inQueue'[rx][Len(q[rx]) + 1] = e
    BY <2>0, EnqueuePlace
  <2> QED
    BY <1>3, <1>11, <2>1 DEF HeadAt
<1>17. TrailsGoOn(inQueue', routes', injected)
  <2> SUFFICES ASSUME NEW x \in routes'
               PROVE  \/ NextNode(x) = injected[x.head].dst
                      \/ \E s \in Trail(routes', x.head) : s.node = NextNode(x)
                      \/ HeadAt(inQueue', x.node, x.head)
    BY DEF TrailsGoOn
  <2>1. CASE x = new
    BY <1>12, <1>16, <2>1
  <2>2. CASE x \in routes /\ ~HeadAt(inQueue, x.node, x.head)
    BY <1>1, <1>11, <2>2 DEF TrailsGoOn, Trail
  <2>3. CASE x \in routes /\ HeadAt(inQueue, x.node, x.head) /\ x.head # u
    <3>1. inQueue[d][1].flit.uid # x.head
      BY <1>3, <2>3 DEF u
    <3>2. HeadAt(q, x.node, x.head)
      BY <1>2, <1>3, <2>3, <3>1, HeadStays DEF q
    <3> QED
      BY <1>3, <1>4, <1>11, <3>2, HeadStays
  <2>4. CASE x \in routes /\ HeadAt(inQueue, x.node, x.head) /\ x.head = u
    <3>1. PICK a \in Device : NodeOf[a] = x.node /\ \E i \in 1 .. Len(inQueue[a]) : inQueue[a][i].flit.uid = u
      BY <2>4 DEF HeadAt
    <3>2. a = d
      <4>1. 1 \in 1 .. Len(inQueue[d]) /\ inQueue[d][1].flit.uid = u
        BY <1>2, <1>3 DEF u
      <4>2. Distinct(inQueue)
        BY DEF IInv, NetInv
      <4> QED
        BY <1>3, <3>1, <4>1, <4>2 DEF Distinct
    <3>3. x = r
      BY <1>9, <2>4, <3>1, <3>2 DEF Trail
    <3>4. new \in Trail(routes', x.head) /\ new.node = NextNode(x)
      BY <1>6, <1>11, <1>12, <3>3 DEF Trail, new
    <3> QED
      BY <3>4
  <2> QED
    BY <1>11, <2>1, <2>2, <2>3, <2>4 DEF new
<1>18. ReceivedOk(inQueue', received', injected)
  <2>1. \A w : Held(inQueue', w) => Held(inQueue, w) \/ w = u
    BY <1>3, <1>4, <1>11, EnqueueHolds
  <2>2. Held(inQueue, u)
    <3>1. 1 \in 1 .. Len(inQueue[d]) /\ inQueue[d][1].flit.uid = u
      BY <1>2, <1>3 DEF u
    <3> QED
      BY <1>3, <3>1 DEF Held
  <2> QED
    BY <1>1, <1>7, <2>1, <2>2 DEF ReceivedOk
<1>19. DeliveryInv(Way, Distance)'
  BY <1>1, <1>7, <1>10, <1>11, <1>14, <1>15, <1>17, <1>18 DEF DeliveryInv, FlitsOk
<1> QED
  BY <1>8, <1>11, <1>12, <1>19 DEF new, u, rx

\* A body flit that its next node sends on keeps the invariant: its head has left that
\* node, and of the earlier flits those that are there are in the same queue.
LEMMA BodyForwardKeepsDelivery ==
  ASSUME NEW Way, NEW Distance, RoutesLead(Way, Distance), IInv, DeliveryInv(Way, Distance),
         NEW t \in transmitEnd, NEW d \in OriginalDevices(t), t.to # Peer[t.via],
         t.flit.type # "HEAD",
         Receive(Peer[t.via], t, Dequeue(inQueue, d), ForgetSender(originalDevice, t),
                 transmitEnd \ {t}),
         UNCHANGED injected
  PROVE  DeliveryInv(Way, Distance)' /\ UNCHANGED routes
<1> DEFINE q  == Dequeue(inQueue, d)
           u  == t.flit.uid
           h  == injected[u].head
           rx == Peer[t.via]
           far(n) == Far(Distance, injected, n, h)
<1>1. /\ TypeOK /\ FlitsOk(Way, Distance, inQueue, routes, injected)
      /\ TrailsOk(Distance, routes, injected)
      /\ TrailsStart(routes, injected) /\ TrailsGoOn(inQueue, routes, injected)
      /\ ReceivedOk(inQueue, received, injected) /\ aborted = "none"
      /\ Distance \in [Node -> [Node -> Nat]]
  BY DEF DeliveryInv, RoutesLead, IInv, FlitsOk
<1>2. /\ inQueue \in [Device -> Seq(Entry)] /\ routes \in SUBSET Route
      /\ injected \in Seq(InjectedFlit) /\ Len(injected) \in Nat
  BY <1>1, DeliveryTypes
<1>3. /\ d \in Device /\ inQueue[d] # <<>> /\ inQueue[d][1] = t
      /\ t.flit \in Flit /\ rx \in NetDevice /\ rx \in Device
      /\ u \in 1 .. Len(injected) /\ h \in 1 .. Len(injected) /\ h \in 1 .. u
      /\ t.flit.head = h /\ t.flit.type = injected[u].type
      /\ injected[h].head = h /\ h # u
      /\ EntryOk(Way, Distance, routes, injected, d, t)
      /\ NodeOf[t.to] = injected[h].dst /\ NodeOf[rx] # injected[h].dst
  BY ArrivingFlit
<1>4. /\ q \in [Device -> Seq(Entry)] /\ CanReceive(rx, q, transmitEnd \ {t})
      /\ EntriesOk(Way, Distance, q, routes, injected) /\ Ordered(Distance, q, injected)
      /\ \A x : Held(q, x) <=> Held(inQueue, x) /\ x # u
      /\ far(NodeOf[d]) \in Nat /\ far(NodeOf[rx]) \in Nat /\ far(NodeOf[rx]) < far(NodeOf[d])
      /\ \A c \in Device : \A j \in 1 .. Len(q[c]) :
           LET w == q[c][j].flit.uid
           IN injected[w].head = h =>
                /\ far(NodeOf[c]) \in Nat
                /\ u < w => far(NodeOf[d]) < far(NodeOf[c]) \/ c = d
                /\ w < u => far(NodeOf[c]) < far(NodeOf[d])
  BY <1>1, OthersInOrder
<1>5. PICK r \in Trail(routes, h) : r.node = NodeOf[d] /\ r.via = t.via /\ r.to = t.to
  BY <1>3 DEF EntryOk
<1>6. /\ NextNode(r) = NodeOf[rx] /\ r \in routes /\ r.head = h /\ Peer[r.via] = rx
      /\ TrailStep(Distance, routes, injected, r)
  BY <1>1, <1>5 DEF NextNode, TrailsOk, Trail
<1>7. /\ NodeSend(rx, t.flit, NodeOf[t.to], q, ForgetSender(originalDevice, t),
                  transmitEnd \ {t}, {Link(t.via)})
      /\ UNCHANGED <<received, injected>>
  BY DEF Receive
<1> HIDE DEF q, u, h, rx
<1>8. \E s \in Trail(routes, h) : s.node = NodeOf[rx]
  <2>1. ~HeadAt(inQueue, r.node, h)
    <3> SUFFICES ASSUME HeadAt(inQueue, r.node, h) PROVE FALSE
      OBVIOUS
    <3>1. HeadAt(q, NodeOf[d], h)
      BY <1>2, <1>3, <1>5, HeadStays DEF q, u
    <3>2. PICK a \in Device : NodeOf[a] = NodeOf[d] /\ \E i \in 1 .. Len(q[a]) : q[a][i].flit.uid = h
      BY <3>1 DEF HeadAt
    <3>3. h < u
      BY <1>2, <1>3
    <3>4. far(NodeOf[a]) < far(NodeOf[d])
      BY <1>3, <1>4, <3>2, <3>3
    <3> QED
      BY <1>4, <3>2, <3>4
  <2> QED
    BY <1>1, <1>3, <1>6, <2>1 DEF TrailsGoOn
<1>9. /\ UNCHANGED <<aborted, routes>>
      /\ \E e \in Entry, s \in Trail(routes, t.flit.head) :
           /\ e.flit.uid = t.flit.uid /\ e.flit.head = t.flit.head /\ e.flit.type = t.flit.type
           /\ inQueue' = Enqueue(q, rx, e)
           /\ s.node = NodeOf[rx] /\ s.via = e.via /\ s.to = e.to
  <2>1. NodeOf[t.to] \in Node /\ NodeOf[rx] # NodeOf[t.to]
    <3>1. injected[h] \in InjectedFlit
      BY <1>2, <1>3
    <3> QED
      BY <1>3, <3>1 DEF InjectedFlit
  <2>2. \E s \in Trail(routes, t.flit.head) : s.node = NodeOf[rx]
    BY <1>3, <1>8
  <2>3. /\ TypeOK /\ rx \in Device /\ t.flit \in Flit /\ t.flit.type # "HEAD"
        /\ q \in [Device -> Seq(Entry)] /\ CanReceive(rx, q, transmitEnd \ {t})
    BY <1>1, <1>3, <1>4
  <2> QED
    BY <1>7, <2>1, <2>2, <2>3, BodyTakesRoute
<1>10. PICK e \in Entry, s \in Trail(routes, h) :
         /\ e.flit.uid = u /\ e.flit.head = h /\ e.flit.type = t.flit.type
         /\ inQueue' = Enqueue(q, rx, e)
         /\ s.node = NodeOf[rx] /\ s.via = e.via /\ s.to = e.to
  BY <1>3, <1>9 DEF u
<1>11. injected[u].head = h
  BY DEF h
<1>12. EntryOk(Way, Distance, routes, injected, rx, e)
  <2>1. OnTrail(routes, injected, h, rx)
    BY <1>3, <1>5, <1>6 DEF OnTrail
  <2> QED
    BY <1>3, <1>10, <1>11, <2>1 DEF EntryOk
<1>13. ASSUME NEW c \in Device, NEW j \in 1 .. Len(q[c]), injected[q[c][j].flit.uid].head = h
       PROVE  LET w == q[c][j].flit.uid
              IN /\ u < w => far(NodeOf[rx]) < far(NodeOf[c])
                 /\ w < u => far(NodeOf[c]) < far(NodeOf[rx]) \/ c = rx
  <2> DEFINE w == q[c][j].flit.uid
  <2>1. /\ far(NodeOf[c]) \in Nat
        /\ u < w => far(NodeOf[d]) < far(NodeOf[c]) \/ c = d
        /\ w < u => far(NodeOf[c]) < far(NodeOf[d])
    BY <1>4, <1>13
  <2>2. EntryOk(Way, Distance, routes, injected, c, q[c][j])
    BY <1>4 DEF EntriesOk
  <2>3. PICK y \in Trail(routes, h) : y.node = NodeOf[c]
    BY <1>13, <2>2 DEF EntryOk
  <2>4. OnTrail(routes, injected, h, c)
    BY <1>13, <2>2 DEF EntryOk
  <2> HIDE DEF w
  <2>5. u < w => far(NodeOf[rx]) < far(NodeOf[c])
    BY <1>4, <2>1
  <2>6. ASSUME w < u, ~(far(NodeOf[c]) < far(NodeOf[rx])) PROVE c = rx
    <3>1. far(y.node) < far(r.node)
      BY <1>5, <2>1, <2>3, <2>6
    <3>2. NextNode(r) = NodeOf[c]
      BY <1>6, <2>3, <2>6, <3>1 DEF TrailStep
    <3>3. CASE c = InjectionDevice[injected[h].src]
      <4>1. injected[h] \in InjectedFlit
        BY <1>2, <1>3
      <4>2. NodeOf[c] = injected[h].src
        BY <3>3, <4>1, TopologyAssumption DEF InjectedFlit
      <4>3. far(r.node) <= far(injected[h].src)
        BY <1>6 DEF TrailStep
      <4> QED
        BY <1>4, <1>5, <1>6, <3>2, <4>2, <4>3
    <3>4. CASE c \in NetDevice /\ \E z \in Trail(routes, h) : Peer[z.via] = c
      <4>1. PICK z \in Trail(routes, h) : Peer[z.via] = c
        BY <3>4
      <4>2. z \in routes /\ z.head = r.head /\ NextNode(z) = NextNode(r)
        BY <1>6, <3>2, <4>1 DEF Trail, NextNode
      <4>3. z = r
        BY <1>1, <1>2, <1>6, <4>2, TrailsDoNotMeet
      <4> QED
        BY <1>6, <4>1, <4>3
    <3> QED
      BY <2>4, <3>3, <3>4 DEF OnTrail
  <2> QED
    BY <2>5, <2>6 DEF w
<1>14. /\ EntriesOk(Way, Distance, inQueue', routes, injected)
       /\ Ordered(Distance, inQueue', injected)
  BY <1>3, <1>4, <1>10, <1>11, <1>12, <1>13, EnqueueKeepsOrder
<1>15. TrailsGoOn(inQueue', routes, injected)
  <2> SUFFICES ASSUME NEW x \in routes, HeadAt(inQueue, x.node, x.head)
               PROVE  HeadAt(inQueue', x.node, x.head)
    BY <1>1 DEF TrailsGoOn
  <2>1. x.head # u
    BY <1>1, <1>3, <1>11 DEF TrailsOk, TrailStep
  <2>2. HeadAt(q, x.node, x.head)
    BY <1>2, <1>3, <2>1, HeadStays DEF q, u
  <2> QED
    BY <1>3, <1>4, <1>10, <2>2, HeadStays
<1>16. ReceivedOk(inQueue', received', injected)
  <2>1. \A w : Held(inQueue', w) => Held(inQueue, w) \/ w = u
    BY <1>3, <1>4, <1>10, EnqueueHolds
  <2>2. Held(inQueue, u)
    <3>1. 1 \in 1 .. Len(inQueue[d]) /\ inQueue[d][1].flit.uid = u
      BY <1>2, <1>3 DEF u
    <3> QED
      BY <1>3, <3>1 DEF Held
  <2> QED
    BY <1>1, <1>7, <2>1, <2>2 DEF ReceivedOk
<1> QED
  BY <1>1, <1>7, <1>9, <1>14, <1>15, <1>16 DEF DeliveryInv, FlitsOk

\* Initially there is nothing to be in order.
LEMMA InitDelivery ==
  ASSUME NEW Way, NEW Distance, Init
  PROVE  DeliveryInv(Way, Distance)
BY DEF Init, DeliveryInv, FlitsOk, PacketsOk, TrailsOk, EntriesOk, Ordered, TrailsStart,
       TrailsGoOn, ReceivedOk

\* Every step keeps the order.
LEMMA NextDelivery ==
  ASSUME NEW Way, NEW Distance, RoutesLead(Way, Distance), IInv, DeliveryInv(Way, Distance),
         [Next]_vars
  PROVE  DeliveryInv(Way, Distance)'
<1>1. IInv'
  BY NextIInv
<1>2. ASSUME NEW n \in Node, NEW dst \in Node, InjectHead(n, dst)
      PROVE  DeliveryInv(Way, Distance)'
  BY <1>1, <1>2, InjectHeadKeepsDelivery
<1>3. ASSUME NEW n \in Node, NEW type \in {"DATA", "TAIL"}, InjectBody(n, type)
      PROVE  DeliveryInv(Way, Distance)'
  BY <1>1, <1>3, InjectBodyKeepsDelivery
<1>4. ASSUME NEW t \in transmitEnd, TransmitEnd(t)
      PROVE  DeliveryInv(Way, Distance)'
  <2>1. UNCHANGED injected
    BY <1>4, TransmitEndReceives
  <2>2. PICK d \in OriginalDevices(t) :
          Receive(Peer[t.via], t, Dequeue(inQueue, d), ForgetSender(originalDevice, t),
                  transmitEnd \ {t})
    BY <1>4, TransmitEndReceives
  <2>3. CASE t.to = Peer[t.via]
    BY <2>1, <2>2, <2>3, ReceptionKeepsDelivery
  <2>4. CASE t.to # Peer[t.via] /\ t.flit.type = "HEAD"
    BY <2>1, <2>2, <2>4, HeadForwardKeepsDelivery
  <2>5. CASE t.to # Peer[t.via] /\ t.flit.type # "HEAD"
    BY <2>1, <2>2, <2>5, BodyForwardKeepsDelivery
  <2> QED
    BY <2>3, <2>4, <2>5
<1>5. ASSUME NEW d \in Device, Retry(d)
      PROVE  DeliveryInv(Way, Distance)'
  <2>1. UNCHANGED <<inQueue, routes, injected, received, aborted>>
    BY <1>5 DEF Retry, ProcessBufferedPackets
  <2> QED
    BY <2>1 DEF DeliveryInv
<1>6. CASE UNCHANGED vars
  BY <1>6 DEF vars, DeliveryInv
<1> QED
  BY <1>2, <1>3, <1>4, <1>5, <1>6 DEF Next

(***************************************************************************)
(* Where nobody can start.                                                 *)
(***************************************************************************)

\* Every route of a packet is for a channel that comes after the one which brought the
\* flit to the node.
TrailsAscend(Rank, rts) ==
  \A r \in rts : \A s \in Trail(rts, r.head) :
    NextNode(s) = r.node => Rank[s.via] < Rank[r.via]

\* A head whose next channel comes after the last keeps the order of the channels.
LEMMA NewRouteAscends ==
  ASSUME NEW Distance \in [Node -> [Node -> Nat]], NEW Rank, NEW inj \in Seq(InjectedFlit),
         NEW rts \in SUBSET Route, TrailsOk(Distance, rts, inj), TrailsAscend(Rank, rts),
         NEW new, ContinuesTrail(Distance, rts, inj, new),
         \A s \in Trail(rts, new.head) : NextNode(s) = new.node => Rank[s.via] < Rank[new.via]
  PROVE  TrailsAscend(Rank, rts \cup {new})
<1> DEFINE far(n) == Far(Distance, inj, n, new.head)
<1>1. far(new.node) \in Nat /\ far(NextNode(new)) \in Nat /\ far(NextNode(new)) < far(new.node)
  <2>1. /\ new.node \in Node /\ NextNode(new) \in Node /\ new.head \in 1 .. Len(inj)
        /\ far(NextNode(new)) < far(new.node)
    BY LinkOfDevice, TopologyAssumption DEF ContinuesTrail, Route, NextNode, Device
  <2> QED
    BY <2>1, FarNat
<1> SUFFICES ASSUME NEW r \in rts \cup {new}, NEW s \in Trail(rts \cup {new}, r.head),
                    NextNode(s) = r.node
             PROVE  Rank[s.via] < Rank[r.via]
  BY DEF TrailsAscend
<1>2. s \in rts \cup {new} /\ s.head = r.head
  BY DEF Trail
<1>3. CASE r \in rts /\ s \in rts
  BY <1>2, <1>3 DEF TrailsAscend, Trail
<1>4. CASE r = new /\ s \in rts
  BY <1>2, <1>4 DEF Trail
<1>5. CASE s = new /\ r \in rts
  <2>1. far(new.node) < far(r.node) /\ far(r.node) \in Nat
    BY <1>2, <1>5, TrailNat DEF ContinuesTrail, Trail
  <2> QED
    BY <1>1, <1>5, <2>1
<1>6. CASE s = new /\ r = new
  BY <1>1, <1>6
<1> QED
  BY <1>2, <1>3, <1>4, <1>5, <1>6

\* Every step keeps the order of the channels.
LEMMA NextAscends ==
  ASSUME NEW Way, NEW Distance, NEW Rank, NEW Highest,
         RoutesLead(Way, Distance), RoutesAscend(Way, Rank, Highest),
         IInv, DeliveryInv(Way, Distance), TrailsAscend(Rank, routes), [Next]_vars
  PROVE  TrailsAscend(Rank, routes')
<1>1. /\ TypeOK /\ FlitsOk(Way, Distance, inQueue, routes, injected)
      /\ TrailsOk(Distance, routes, injected) /\ Distance \in [Node -> [Node -> Nat]]
  BY DEF DeliveryInv, FlitsOk, RoutesLead, IInv
<1>2. /\ routes \in SUBSET Route /\ injected \in Seq(InjectedFlit)
      /\ inQueue \in [Device -> Seq(Entry)]
  BY <1>1, DeliveryTypes
<1>3. IInv'
  BY NextIInv
<1>4. ASSUME NEW n \in Node, NEW dst \in Node, InjectHead(n, dst)
      PROVE  TrailsAscend(Rank, routes')
  <2>1. DeliveryInv(Way, Distance)'
    BY <1>3, <1>4, InjectHeadKeepsDelivery
  <2>2. PICK new : /\ routes' = routes \cup {new} /\ Trail(routes, new.head) = {}
                   /\ ContinuesTrail(Distance, routes, injected', new)
    BY <1>3, <1>4, InjectHeadKeepsDelivery
  <2>3. TrailsOk(Distance, routes', injected')
    BY <2>1 DEF DeliveryInv, FlitsOk
  <2>4. ASSUME NEW r \in routes', NEW s \in Trail(routes', r.head), NextNode(s) = r.node
        PROVE  Rank[s.via] < Rank[r.via]
    <3>1. CASE r = new
      <4>1. s = new
        BY <2>2, <3>1 DEF Trail
      <4>2. /\ new.node \in Node /\ new.head \in 1 .. Len(injected')
            /\ Far(Distance, injected', NextNode(new), new.head)
                 < Far(Distance, injected', new.node, new.head)
        BY <2>2 DEF ContinuesTrail, Route
      <4>3. injected' \in Seq(InjectedFlit)
        BY <1>3 DEF IInv, TypeOK
      <4>4. Far(Distance, injected', new.node, new.head) \in Nat
        BY <1>1, <4>2, <4>3, FarNat
      <4> QED
        BY <2>4, <3>1, <4>1, <4>2, <4>4
    <3>2. CASE r # new
      <4>1. r \in routes /\ s \in Trail(routes, r.head)
        BY <2>2, <3>2 DEF Trail
      <4> QED
        BY <2>4, <4>1 DEF TrailsAscend
    <3> QED
      BY <3>1, <3>2
  <2> QED
    BY <2>4 DEF TrailsAscend
<1>5. ASSUME NEW n \in Node, NEW type \in {"DATA", "TAIL"}, InjectBody(n, type)
      PROVE  TrailsAscend(Rank, routes')
  BY <1>3, <1>5, InjectBodyKeepsDelivery
<1>6. ASSUME NEW t \in transmitEnd, TransmitEnd(t)
      PROVE  TrailsAscend(Rank, routes')
  <2>1. UNCHANGED injected
    BY <1>6, TransmitEndReceives
  <2>2. PICK d \in OriginalDevices(t) :
          Receive(Peer[t.via], t, Dequeue(inQueue, d), ForgetSender(originalDevice, t),
                  transmitEnd \ {t})
    BY <1>6, TransmitEndReceives
  <2>3. CASE t.to = Peer[t.via]
    BY <2>2, <2>3 DEF Receive
  <2>4. CASE t.to # Peer[t.via] /\ t.flit.type = "HEAD"
    <3>0. /\ [device |-> Peer[t.via], to |-> injected[t.flit.uid].dst, header |-> t.flit.header] \in Way
          /\ \E new : /\ routes' = routes \cup {new}
                      /\ ContinuesTrail(Distance, routes, injected, new)
                      /\ new.node = NodeOf[Peer[t.via]] /\ new.head = t.flit.uid
                      /\ \E r \in RequestNewRoute(Peer[t.via], injected[t.flit.uid].dst, t.flit.header) :
                           new.via = r.via
      BY <2>1, <2>2, <2>4, HeadForwardKeepsDelivery
    <3> DEFINE rx == Peer[t.via]
               u  == t.flit.uid
               w  == [device |-> rx, to |-> injected[u].dst, header |-> t.flit.header]
    <3>1. w \in Way
      BY <3>0
    <3>2. PICK new : /\ routes' = routes \cup {new}
                     /\ ContinuesTrail(Distance, routes, injected, new)
                     /\ new.node = NodeOf[rx] /\ new.head = u
                     /\ \E r \in RequestNewRoute(rx, injected[u].dst, t.flit.header) : new.via = r.via
      BY <3>0
    <3>3. /\ rx \in NetDevice /\ t.via \in NetDevice
          /\ u \in 1 .. Len(injected) /\ injected[u].head = u
          /\ EntryOk(Way, Distance, routes, injected, d, t)
      BY <2>2, <2>4, ArrivingFlit DEF Entry
    <3>4. Peer[rx] = t.via
      BY <3>3, TopologyAssumption
    <3>5. w.device = rx /\ w.to = injected[u].dst /\ w.header = t.flit.header
      OBVIOUS
    <3> HIDE DEF w
    <3>6. Rank[t.via] < Rank[new.via]
      BY <3>1, <3>2, <3>3, <3>4, <3>5 DEF RoutesAscend
    <3>7. PICK r \in Trail(routes, u) : r.via = t.via
      BY <3>3 DEF EntryOk
    <3>8. NextNode(r) = NodeOf[rx] /\ r \in routes /\ r.head = u
      BY <3>7 DEF NextNode, Trail
    <3>9. ASSUME NEW s \in Trail(routes, new.head), NextNode(s) = new.node
          PROVE  Rank[s.via] < Rank[new.via]
      <4>1. s \in routes /\ s.head = r.head /\ NextNode(s) = NextNode(r)
        BY <3>2, <3>8, <3>9 DEF Trail
      <4>2. s = r
        BY <1>1, <1>2, <3>8, <4>1, TrailsDoNotMeet
      <4> QED
        BY <3>6, <3>7, <4>2
    <3> HIDE DEF u, rx
    <3> QED
      BY <1>1, <1>2, <3>2, <3>9, NewRouteAscends
  <2>5. CASE t.to # Peer[t.via] /\ t.flit.type # "HEAD"
    BY <2>1, <2>2, <2>5, BodyForwardKeepsDelivery
  <2> QED
    BY <2>3, <2>4, <2>5
<1>7. ASSUME NEW d \in Device, Retry(d)
      PROVE  TrailsAscend(Rank, routes')
  BY <1>7 DEF Retry
<1>8. CASE UNCHANGED vars
  BY <1>8 DEF vars
<1> QED
  BY <1>4, <1>5, <1>6, <1>7, <1>8 DEF Next

\* The order of the natural numbers, and that a set of them has a least one.
Less == {p \in Nat \X Nat : p[1] < p[2]}
LEMMA LeastNat ==
  ASSUME NEW T \in SUBSET Nat, T # {}
  PROVE  \E x \in T : \A y \in T : x <= y
<1>1. IsWellFoundedOn(Less, Nat)
  BY NatLessThanWellFounded DEF OpToRel, Less
<1>2. PICK x \in T : \A y \in T : <<y, x>> \notin Less
  BY <1>1, WFMin
<1>3. \A y \in T : ~(y < x)
  BY <1>2 DEF Less
<1> QED
  BY <1>3

\* When nothing is in flight, of the first flits in the queues the one whose channel
\* comes last can start: if the next queue were full, its first flit would have to take
\* a channel that comes later still.
LEMMA SomeFlitCanStart ==
  ASSUME NEW Way, NEW Distance, NEW Rank, NEW Highest,
         RoutesAscend(Way, Rank, Highest),
         IInv, DeliveryInv(Way, Distance), TrailsAscend(Rank, routes)
  PROVE  NoWedge
<1> DEFINE Queued   == {d \in Device : inQueue[d] # <<>>}
           via(d)   == inQueue[d][1].via
           after(d) == Highest - Rank[via(d)]
<1> SUFFICES ASSUME Queued # {}, transmitEnd = {},
                    \A d \in Queued : ~CanStart(Head(inQueue[d]), inQueue)
             PROVE  FALSE
  BY DEF NoWedge
<1>1. TypeOK /\ NetInv(inQueue, originalDevice, transmitEnd, linkState)
  BY DEF IInv
<1>2. /\ inQueue \in [Device -> Seq(Entry)] /\ routes \in SUBSET Route
      /\ injected \in Seq(InjectedFlit)
  BY <1>1, DeliveryTypes
<1>3. ASSUME NEW d \in Queued
      PROVE  /\ 1 \in 1 .. Len(inQueue[d]) /\ inQueue[d][1] \in Entry
             /\ Head(inQueue[d]) = inQueue[d][1]
             /\ via(d) \in NetDevice /\ Link(via(d)) \in Links /\ Peer[via(d)] \in NetDevice
             /\ EntryOk(Way, Distance, routes, injected, d, inQueue[d][1])
  <2>1. /\ 1 \in 1 .. Len(inQueue[d]) /\ inQueue[d][1] \in Entry
        /\ Head(inQueue[d]) = inQueue[d][1]
    BY <1>2
  <2>2. via(d) \in NetDevice
    BY <2>1 DEF Entry
  <2>3. EntryOk(Way, Distance, routes, injected, d, inQueue[d][1])
    BY <2>1 DEF DeliveryInv, FlitsOk, EntriesOk
  <2> QED
    BY <2>1, <2>2, <2>3, LinkOfDevice
<1>4. \A l \in Links : linkState[l] = "IDLE"
  BY <1>1 DEF NetInv, InFlight, LinkState
<1>5. ASSUME NEW d \in Queued
      PROVE  Peer[via(d)] \in Queued
  <2>1. Len(inQueue[Peer[via(d)]]) = MaxPackets
    BY <1>3, <1>4 DEF CanStart
  <2>2. Peer[via(d)] \in Device
    BY <1>3 DEF Device
  <2> QED
    BY <1>2, <2>1, <2>2, ConfigurationAssumption
<1>6. ASSUME NEW d \in Queued
      PROVE  Rank[via(d)] < Rank[via(Peer[via(d)])]
  <2> DEFINE c == Peer[via(d)]
             e == inQueue[c][1]
             h == injected[e.flit.uid].head
  <2>1. EntryOk(Way, Distance, routes, injected, c, e) /\ e.flit.uid \in 1 .. Len(injected)
    BY <1>3, <1>5 DEF EntryOk
  <2>2. PICK r \in Trail(routes, h) : r.node = NodeOf[c] /\ r.via = e.via
    BY <2>1 DEF EntryOk
  <2>3. c # InjectionDevice[injected[h].src]
    <3>1. h \in 1 .. Len(injected)
      BY <2>2 DEF DeliveryInv, FlitsOk, TrailsOk, TrailStep, Trail
    <3> HIDE DEF h
    <3>2. injected[h] \in InjectedFlit
      BY <1>2, <3>1
    <3> QED
      BY <1>3, <3>2, TopologyAssumption DEF InjectedFlit, InputDevice
  <2>4. PICK s \in Trail(routes, h) : Peer[s.via] = c
    BY <2>1, <2>3 DEF EntryOk, OnTrail
  <2>5. s.via = via(d)
    <3>1. s.via \in NetDevice /\ via(d) \in NetDevice
      BY <1>2, <1>3 DEF Trail, Route
    <3> QED
      BY <2>4, <3>1, ReceivingLink
  <2>6. Rank[s.via] < Rank[r.via]
    BY <2>2, <2>4 DEF TrailsAscend, Trail, NextNode
  <2> QED
    BY <2>2, <2>5, <2>6
<1>7. \A d \in Queued : Rank[via(d)] \in 0 .. Highest /\ after(d) \in Nat
  <2>1. Highest \in Nat /\ Rank \in [NetDevice -> 0 .. Highest]
    BY DEF RoutesAscend
  <2>2. \A d \in Queued : Rank[via(d)] \in 0 .. Highest
    BY <1>3, <2>1
  <2> QED
    BY <2>1, <2>2
<1>8. PICK d \in Queued : \A c \in Queued : after(d) <= after(c)
  <2> HIDE DEF Queued, after
  <2> DEFINE T == {after(c) : c \in Queued}
  <2>1. T \in SUBSET Nat /\ T # {}
    BY <1>7
  <2>2. PICK x \in T : \A y \in T : x <= y
    BY <2>1, LeastNat
  <2> QED
    BY <2>2
<1>9. Highest \in Nat
  BY DEF RoutesAscend
<1> DEFINE c == Peer[via(d)]
<1>10. /\ c \in Queued /\ Rank[via(d)] < Rank[via(c)]
       /\ Rank[via(d)] \in 0 .. Highest /\ Rank[via(c)] \in 0 .. Highest
       /\ Highest - Rank[via(d)] <= Highest - Rank[via(c)]
  BY <1>5, <1>6, <1>7, <1>8
<1> QED
  BY <1>9, <1>10

(***************************************************************************)
(* What NocDelivery promises.                                              *)
(***************************************************************************)

\* Every step is one of NocDelivery or changes nothing there: a flit that is received
\* was not before, and the flits of its packet before it were.
LEMMA NextDelivers ==
  ASSUME NEW Way, NEW Distance, RoutesLead(Way, Distance), IInv, DeliveryInv(Way, Distance),
         [Next]_vars
  PROVE  [Delivery!DeliveryNext]_(Delivery!deliveryVars)
<1>1. IInv' /\ DeliveryInv(Way, Distance)'
  BY NextIInv, NextDelivery
<1>2. injected \in Seq(InjectedFlit) /\ Len(injected) \in Nat /\ Len(injected) <= MaxInjected
  BY DeliveryTypes DEF IInv, TypeOK
<1>3. ASSUME NEW n \in Node, NEW dst \in Node, InjectHead(n, dst)
      PROVE  Delivery!DeliveryNext
  <2>1. Delivery!SendHead(n, dst)
    BY <1>3 DEF InjectHead, Inject, NextUid, Delivery!SendHead
  <2> QED
    BY <2>1 DEF Delivery!DeliveryNext
<1>4. ASSUME NEW n \in Node, NEW type \in {"DATA", "TAIL"}, InjectBody(n, type)
      PROVE  Delivery!DeliveryNext
  <2>1. PICK h \in OpenPackets(n) :
          Inject(n, [uid |-> NextUid, head |-> h, type |-> type,
                     header |-> NoHeader, blocked |-> FALSE], injected[h].dst)
    BY <1>4 DEF InjectBody
  <2>2. /\ h \in 1 .. Len(injected) /\ injected[h].type = "HEAD" /\ injected[h].src = n
        /\ \A u \in 1 .. Len(injected) : ~(injected[u].head = h /\ injected[u].type = "TAIL")
    BY DEF OpenPackets
  <2>3. injected[h] \in InjectedFlit /\ injected[h].head = h
    <3>1. PacketOk(injected, h)
      BY <2>2 DEF DeliveryInv, FlitsOk, PacketsOk
    <3> QED
      BY <1>2, <2>2, <3>1 DEF PacketOk
  <2>4. [injected[h] EXCEPT !.type = type]
          = [head |-> h, type |-> type, src |-> n, dst |-> injected[h].dst]
    BY <2>2, <2>3 DEF InjectedFlit
  <2>5. /\ injected' = Append(injected, [injected[h] EXCEPT !.type = type])
        /\ Len(injected) < MaxInjected /\ received' = received
    BY <2>1, <2>4 DEF Inject
  <2>6. Delivery!SendBody(h, type)
    BY <2>2, <2>5 DEF Delivery!SendBody
  <2>7. h \in 1 .. MaxInjected
    BY <1>2, <2>2, ConfigurationAssumption
  <2> QED
    BY <2>6, <2>7 DEF Delivery!DeliveryNext
<1>5. ASSUME NEW t \in transmitEnd, TransmitEnd(t)
      PROVE  Delivery!DeliveryNext \/ UNCHANGED <<injected, received>>
  <2> DEFINE u  == t.flit.uid
             h  == injected[u].head
             rx == Peer[t.via]
  <2>1. UNCHANGED injected
    BY <1>5, TransmitEndReceives
  <2>2. PICK d \in OriginalDevices(t) :
          Receive(rx, t, Dequeue(inQueue, d), ForgetSender(originalDevice, t), transmitEnd \ {t})
    BY <1>5, TransmitEndReceives
  <2>3. CASE t.to # rx
    BY <2>1, <2>2, <2>3 DEF Receive
  <2>4. CASE t.to = rx
    <3>1. /\ received' = received \cup {[uid |-> u, node |-> NodeOf[rx]]}
          /\ UNCHANGED aborted
      BY <2>2, <2>4 DEF Receive
    <3>2. /\ u \in 1 .. Len(injected) /\ NodeOf[rx] = injected[h].dst
          /\ injected[u].dst = injected[h].dst /\ d \in Device /\ inQueue[d] # <<>>
          /\ inQueue[d][1] = t
      BY <2>2, <2>4, ArrivingFlit
    <3>3. Held(inQueue, u)
      <4>1. 1 \in 1 .. Len(inQueue[d]) /\ inQueue[d][1].flit.uid = u
        <5>1. inQueue \in [Device -> Seq(Entry)]
          BY DeliveryTypes DEF IInv
        <5> QED
          BY <3>2, <5>1
      <4> QED
        BY <3>2, <4>1 DEF Held
    <3>4. ~Delivery!HasArrived(u)
      BY <3>3 DEF IInv, Accounted, Delivery!HasArrived
    <3>5. ASSUME NEW w \in 1 .. u - 1, injected[w].head = injected[u].head
          PROVE  Delivery!HasArrived(w)
      <4>1. ~Held(inQueue', w)
        <5>1. [uid |-> u, node |-> NodeOf[rx]] \in received'
          BY <3>1
        <5>2. ReceivedOk(inQueue', received', injected)
          BY <1>1, <2>1 DEF DeliveryInv
        <5> QED
          BY <3>5, <5>1, <5>2 DEF ReceivedOk
      <4>2. w \in 1 .. Len(injected') /\ w # u
        BY <1>2, <2>1, <3>2
      <4>3. \E r \in received' : r.uid = w
        BY <1>1, <4>1, <4>2 DEF IInv, Accounted, DeliveryInv
      <4> QED
        BY <3>1, <4>2, <4>3 DEF Delivery!HasArrived
    <3>6. Delivery!Arrive(u)
      BY <2>1, <3>1, <3>2, <3>4, <3>5 DEF Delivery!Arrive
    <3>7. u \in 1 .. MaxInjected
      BY <1>2, <3>2, ConfigurationAssumption
    <3> QED
      BY <3>6, <3>7 DEF Delivery!DeliveryNext
  <2> QED
    BY <2>3, <2>4
<1>6. ASSUME NEW d \in Device, Retry(d)
      PROVE  UNCHANGED <<injected, received>>
  BY <1>6 DEF Retry
<1>7. CASE UNCHANGED vars
  BY <1>7 DEF vars, Delivery!deliveryVars
<1> QED
  BY <1>3, <1>4, <1>5, <1>6, <1>7 DEF Next, Delivery!deliveryVars

(***************************************************************************)
(* The theorems about delivery.                                            *)
(***************************************************************************)

\* Packets stay in order in every reachable state, when the routing algorithm leads to
\* the destination.
LEMMA SpecDelivery ==
  ASSUME NEW Way, NEW Distance, RoutesLead(Way, Distance)
  PROVE  Spec => [](IInv /\ DeliveryInv(Way, Distance))
<1>1. Init => IInv /\ DeliveryInv(Way, Distance)
  BY InitIInv, InitDelivery
<1>2. IInv /\ DeliveryInv(Way, Distance) /\ [Next]_vars
        => IInv' /\ DeliveryInv(Way, Distance)'
  BY NextIInv, NextDelivery
<1> QED
  BY <1>1, <1>2, PTL DEF Spec

\* With a routing algorithm that leads to the destination no assertion ever fails: a
\* body flit always finds the route of its head, because the head has left the node.
THEOREM NoAssertionEverFails ==
  ASSUME NEW Way, NEW Distance, RoutesLead(Way, Distance)
  PROVE  Spec => []NoAssertionFails
<1>1. IInv /\ DeliveryInv(Way, Distance) => NoAssertionFails
  BY DEF DeliveryInv, NoAssertionFails
<1> QED
  BY <1>1, SpecDelivery, PTL

\* With such an algorithm the network delivers what is injected at the right node, at
\* most once and in the order of the packet: NocTransport implements NocDelivery.
THEOREM DeliveryImplemented ==
  ASSUME NEW Way, NEW Distance, RoutesLead(Way, Distance)
  PROVE  Spec => DeliversInOrder
<1>1. Init => Delivery!DeliveryInit
  BY DEF Init, Delivery!DeliveryInit
<1>2. IInv /\ DeliveryInv(Way, Distance) /\ [Next]_vars
        => [Delivery!DeliveryNext]_(Delivery!deliveryVars)
  BY NextDelivers
<1> QED
  BY <1>1, <1>2, SpecDelivery, PTL DEF Spec, DeliversInOrder, Delivery!DeliverySpec

\* If moreover the channels can be ordered so that every packet takes them in that
\* order, the input queues never block each other, however small they are.
THEOREM NeverWedged ==
  ASSUME NEW Way, NEW Distance, NEW Rank, NEW Highest,
         RoutesLead(Way, Distance), RoutesAscend(Way, Rank, Highest)
  PROVE  Spec => []NoWedge
<1>1. Init => TrailsAscend(Rank, routes)
  BY DEF Init, TrailsAscend
<1>2. IInv /\ DeliveryInv(Way, Distance) /\ TrailsAscend(Rank, routes) /\ [Next]_vars
        => TrailsAscend(Rank, routes)'
  BY NextAscends
<1>3. IInv /\ DeliveryInv(Way, Distance) /\ TrailsAscend(Rank, routes) => NoWedge
  BY SomeFlitCanStart
<1> QED
  BY <1>1, <1>2, <1>3, SpecDelivery, PTL DEF Spec

=============================================================================
