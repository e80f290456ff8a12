----------------------------- MODULE NocDelivery -----------------------------
(***************************************************************************)
(* What the network promises to the processing elements: a flit injected   *)
(* for a node arrives at that node, once, after the flits of its packet    *)
(* that were injected before it.  NocTransport implements this.            *)
(***************************************************************************)
EXTENDS Naturals, Sequences

CONSTANTS
  Node,
  Flow,          \* the <<source, destination>> pairs of the traffic
  MaxInjected    \* bound: how many flits are sent

VARIABLES
  sent,      \* the flits sent, in the order of their UIDs
  arrived    \* the flits that arrived, with the node they arrived at

deliveryVars == <<sent, arrived>>

DeliveryInit == sent = <<>> /\ arrived = {}

HasArrived(u) == \E r \in arrived : r.uid = u

SendHead(src, dst) ==
  /\ Len(sent) < MaxInjected
  /\ <<src, dst>> \in Flow
  /\ sent' = Append(sent,
       [head |-> Len(sent) + 1, type |-> "HEAD", src |-> src, dst |-> dst])
  /\ UNCHANGED arrived

\* A body flit follows its head, from the same node to the same node, and nothing
\* follows the tail.
SendBody(h, type) ==
  /\ Len(sent) < MaxInjected
  /\ h \in 1 .. Len(sent) /\ sent[h].type = "HEAD"
  /\ \A u \in 1 .. Len(sent) : ~(sent[u].head = h /\ sent[u].type = "TAIL")
  /\ sent' = Append(sent, [sent[h] EXCEPT !.type = type])
  /\ UNCHANGED arrived

Arrive(u) ==
  /\ u \in 1 .. Len(sent)
  /\ ~HasArrived(u)
  /\ \A w \in 1 .. u - 1 : sent[w].head = sent[u].head => HasArrived(w)
  /\ arrived' = arrived \cup {[uid |-> u, node |-> sent[u].dst]}
  /\ UNCHANGED sent

DeliveryNext ==
  \/ \E src, dst \in Node : SendHead(src, dst)
  \/ \E h \in 1 .. MaxInjected, type \in {"DATA", "TAIL"} : SendBody(h, type)
  \/ \E u \in 1 .. MaxInjected : Arrive(u)

DeliverySpec == DeliveryInit /\ [][DeliveryNext]_deliveryVars

\* Everything that is sent arrives.
DeliveryFairSpec ==
  DeliverySpec /\ \A u \in 1 .. MaxInjected : WF_deliveryVars(Arrive(u))

=============================================================================
