------------------------------ MODULE NocWakeup ------------------------------
(***************************************************************************)
(* When a net device processes its input queue again.  At the end of       *)
(* NocNetDevice::ProcessBufferedPackets a non-empty queue schedules the    *)
(* next call at a clock edge, unless m_lastScheduledEvent equals the       *)
(* current time plus one (sped up) clock period.  Nothing else processes   *)
(* the queue of a net device that no flit arrives at, so a missing event   *)
(* would leave its flits there for ever.                                   *)
(*                                                                         *)
(* One net device in simulated time; the rest of the network is the        *)
(* environment: it delivers flits, and its links and queues let the first  *)
(* flit of the device start or not.                                        *)
(***************************************************************************)
EXTENDS NocClock, Sequences

CONSTANTS
  DataPacketSpeedup,  \* attribute of NocRegistry
  TransmitDelay,      \* the delay of the channel plus the time on the wire
  MaxPackets,         \* the size of the input queue
  MaxTime,            \* bound: how long the simulation lasts
  MaxPending          \* bound: flits arrive while fewer events are due at a time

\* A sped up period is still a period.
ASSUME ClockAssumption ==
  /\ DataPacketSpeedup \in Nat \ {0}
  /\ Clock \div DataPacketSpeedup \in 1 .. Clock
  /\ TransmitDelay \in Nat
  /\ TransmitDelay \div DataPacketSpeedup \in Nat
  /\ MaxPackets \in Nat \ {0}
  /\ MaxTime \in Nat
  /\ MaxPending \in Nat

\* The times a ProcessBufferedPackets can be scheduled for.
RetryTime == 0 .. MaxTime + 2 * Clock
Kind == {"HEAD", "BODY"}

\* A definition marked `mutant' is the next definition with a mistake in it, kept to
\* show which property notices that mistake.

VARIABLES
  queue,                \* the kinds of the flits in m_inQueue
  transmitEndAt,        \* when TransmitEnd is due for the first flit, or Nothing
  lastScheduledEvent,   \* m_lastScheduledEvent
  events                \* how many ProcessBufferedPackets are pending, by time

wakeupVars == <<now, queue, transmitEndAt, lastScheduledEvent, events>>

WakeupTypeOK ==
  /\ now \in 0 .. MaxTime
  /\ queue \in Seq(Kind) /\ Len(queue) <= MaxPackets
  /\ transmitEndAt \in Nat \cup {Nothing}
  /\ lastScheduledEvent \in Nat
  /\ events \in [RetryTime -> Nat]

WakeupInit ==
  /\ now = 0
  /\ queue = <<>>
  /\ transmitEndAt = Nothing
  /\ lastScheduledEvent = 0
  /\ events = [t \in RetryTime |-> 0]

\* Mutant: the speedup makes a duration longer.
SlowedDown(kind, duration) ==
  IF kind = "HEAD" THEN duration * DataPacketSpeedup ELSE duration

\* What a duration becomes for a flit: the speedup goes to the head flits.
SpedUp(kind, duration) ==
  IF kind = "HEAD" THEN duration \div DataPacketSpeedup ELSE duration

\* The end of ProcessBufferedPackets, when q is the queue and ev the events still
\* pending: schedule the next call, unless one is thought to be scheduled.
Reschedule(q, ev) ==
  IF q # <<>> /\ lastScheduledEvent # now + SpedUp(Head(q), Clock)
  THEN /\ \E t \in NextClock(now) : events' = [ev EXCEPT ![t] = @ + 1]
       /\ lastScheduledEvent' = now + SpedUp(Head(q), Clock)
  ELSE /\ events' = ev
       /\ UNCHANGED lastScheduledEvent

\* The first flit of q starts when the switching protocol and the channel let it;
\* NocChannel::Send then schedules its TransmitEnd.
ProcessBufferedPackets(q, ev) ==
  /\ queue' = q
  /\ \/ UNCHANGED transmitEndAt
     \/ /\ q # <<>> /\ transmitEndAt = Nothing
        /\ transmitEndAt' = now + SpedUp(Head(q), TransmitDelay)
  /\ Reschedule(q, ev)

\* A flit arrives: NocNetDevice::SendFrom.
SendFrom(kind) ==
  /\ Len(queue) < MaxPackets
  /\ \A t \in NextClock(now) : events[t] < MaxPending
  /\ ProcessBufferedPackets(Append(queue, kind), events)
  /\ UNCHANGED now

\* A scheduled ProcessBufferedPackets is due.
Fire ==
  /\ events[now] > 0
  /\ ProcessBufferedPackets(queue, [events EXCEPT ![now] = @ - 1])
  /\ UNCHANGED now

\* NocChannel::TransmitEnd dequeues the flit that was sent; it does not process the
\* queue of the sender.
DequeuePacketFromInQueue ==
  /\ transmitEndAt = now
  /\ queue' = Tail(queue)
  /\ transmitEndAt' = Nothing
  /\ UNCHANGED <<now, lastScheduledEvent, events>>

\* Simulator: time advances when no event is due.
TimePasses ==
  /\ now < MaxTime
  /\ events[now] = 0
  /\ transmitEndAt # now
  /\ now' = now + 1
  /\ UNCHANGED <<queue, transmitEndAt, lastScheduledEvent, events>>

WakeupNext ==
  \/ \E kind \in Kind : SendFrom(kind)
  \/ Fire
  \/ DequeuePacketFromInQueue
  \/ TimePasses

WakeupSpec == WakeupInit /\ [][WakeupNext]_wakeupVars

(***************************************************************************)
(* Properties.                                                             *)
(***************************************************************************)

\* No lost wakeup: a flit that waits is tried again within two clock periods,
\* although no event is scheduled when m_lastScheduledEvent says there is one,
\* whatever the events, arrivals and transmissions before left in it.
RetryWithinTwoClocks ==
  queue # <<>> =>
    \E t \in RetryTime : now <= t /\ t <= now + 2 * Clock /\ events[t] > 0

\* What makes the comparison with m_lastScheduledEvent safe: when it lies ahead, an
\* event is pending at that time or later, two periods away at most.
LastIsPending ==
  lastScheduledEvent > now =>
    \E t \in RetryTime :
      /\ lastScheduledEvent <= t /\ t <= now + 2 * Clock
      /\ events[t] > 0

=============================================================================
