----------------------- MODULE NocNodeProofs -----------------------
(***************************************************************************)
(* The two components of a node that follow NocClock: the traffic          *)
(* generator (NocSyncApplication), and the net device that tries its queue *)
(* again (NocWakeup).                                                      *)
(*                                                                         *)
(* The properties of NocSyncApplication hold for every clock, packet size, *)
(* traffic pattern, injection probability and limit.  IInv adds to them    *)
(* what the pending events tell about the past: when the next attempt is   *)
(* due, given what has been injected (EventInv), and what the flit index   *)
(* tells about the last flit (PacketInv).                                  *)
(***************************************************************************)
EXTENDS NocSyncApplication, NocWakeup, TLAPS

LastFlit == injected[Len(injected)]

\* The start and the stop of the application come at their times, the start once.
AppInv ==
  /\ appStart \in {Nothing, StartTime} /\ appStop \in {Nothing, StopTime}
  /\ appStart # Nothing => now <= StartTime /\ startEvent = Nothing /\ sendEvent = Nothing
  /\ appStart = Nothing => StartTime <= now
  /\ appStop # Nothing => 0 < StopTime /\ now <= StopTime
  /\ appStop = Nothing /\ StopTime > 0 /\ StopTime >= StartTime =>
       appStart = Nothing /\ startEvent = Nothing /\ sendEvent = Nothing

\* A pending event is due within two clock periods; the start of the sending comes
\* before the first attempt, the first flit before any delay.
EventInv ==
  /\ (appStart # Nothing \/ startEvent # Nothing) => injected = <<>>
  /\ startEvent # Nothing => startEvent = now /\ now = StartTime /\ sendEvent = Nothing
  /\ sendEvent # Nothing => /\ sendEvent \in now .. now + 2 * Clock
                            /\ MayContinue(totBytes, totFlits)
                            /\ injected = <<>> => now = StartTime /\ sendEvent = now
                            /\ HeadBytes > 0 /\ injected # <<>> =>
                                 LastFlit.at + Clock <= sendEvent
  /\ injected = <<>> => totBytes = 0
  /\ HeadBytes > 0 /\ injected # <<>> => totBytes > 0

\* What m_currentFlitIndex tells about the last flit.
PacketInv ==
  /\ currentFlitIndex = 0 => injected = <<>> \/ LastFlit.type = "TAIL"
  /\ currentFlitIndex > 0 => /\ injected # <<>>
                             /\ currentHeadFlit \in 1 .. Len(injected)
                             /\ LastFlit.type # "TAIL"
                             /\ LastFlit.index = currentFlitIndex - 1
                             /\ LastFlit.head = currentHeadFlit
                             /\ DestinationNode = {LastFlit.dst}

LimitInv == Len(injected) <= totFlits /\ RespectsLimits

IInv ==
  /\ TypeOK /\ AppInv /\ EventInv /\ PacketInv /\ LimitInv
  /\ PacketsAreWhole /\ OneFlitPerClock /\ FirstFlitAtStart /\ StopIsFinal /\ StaysScheduled

USE ApplicationAssumption, GlobalClockAssumption

\* The last flit, when there is one.
LEMMA LastFlitType ==
  ASSUME TypeOK, injected # <<>>
  PROVE  /\ Len(injected) \in Nat \ {0} /\ LastFlit \in InjectedFlit
         /\ LastFlit.dst \in Node /\ LastFlit.at \in Nat
<1>1. Len(injected) \in Nat \ {0}
  BY DEF TypeOK
<1>2. LastFlit \in InjectedFlit
  BY <1>1 DEF TypeOK, LastFlit
<1> QED
  BY <1>1, <1>2 DEF InjectedFlit, Time

\* What ScheduleNextTx leaves behind.
LEMMA Scheduled ==
  ASSUME NEW bytes \in Nat, NEW flits \in Nat, TypeOK, ScheduleNextTx(bytes, flits)
  PROVE  /\ startEvent' = Nothing
         /\ sendEvent' \in EventTime \cup {Nothing}
         /\ MayContinue(bytes, flits) => sendEvent' \in now .. now + 2 * Clock
         /\ sendEvent' # Nothing =>
              /\ MayContinue(bytes, flits)
              /\ sendEvent' \in now .. now + 2 * Clock
              /\ bytes = 0 => sendEvent' = now
              /\ bytes > 0 => now + Clock <= sendEvent'
<1>1. now \in Nat /\ now <= EndTime /\ now .. now + 2 * Clock \subseteq EventTime
  BY DEF TypeOK, Time, EventTime
<1>2. \A t \in SendTime(bytes, flits) :
        /\ t \in now .. now + 2 * Clock
        /\ bytes = 0 => t = now
        /\ bytes > 0 => now + Clock <= t
  BY <1>1 DEF SendTime, NextClock
<1>3. CASE MayContinue(bytes, flits)
  BY <1>1, <1>2, <1>3 DEF ScheduleNextTx
<1>4. CASE ~MayContinue(bytes, flits)
  BY <1>4 DEF ScheduleNextTx
<1> QED
  BY <1>3, <1>4

\* The invariant holds in the initial states.
LEMMA InitIInv == Init => IInv
<1> SUFFICES ASSUME Init PROVE IInv
  OBVIOUS
<1>1. TypeOK /\ AppInv /\ EventInv /\ PacketInv
  BY DEF Init, TypeOK, Time, EventTime, Nothing, AppInv, EventInv, PacketInv
<1>2. LimitInv /\ PacketsAreWhole /\ OneFlitPerClock /\ FirstFlitAtStart /\ StopIsFinal
  BY DEF Init, LimitInv, RespectsLimits, PacketsAreWhole, OneFlitPerClock,
         FirstFlitAtStart, StopIsFinal
<1>3. StaysScheduled
  BY DEF Init, StaysScheduled, Running, Nothing
<1> QED
  BY <1>1, <1>2, <1>3 DEF IInv

\* The properties of the flits injected so far hold as long as no flit is injected.
LEMMA NothingInjected ==
  ASSUME IInv, UNCHANGED injected
  PROVE  PacketsAreWhole' /\ OneFlitPerClock' /\ FirstFlitAtStart' /\ StopIsFinal'
BY DEF IInv, PacketsAreWhole, OneFlitPerClock, FirstFlitAtStart, StopIsFinal

LEMMA StartApplicationIInv == IInv /\ StartApplication => IInv'
<1> SUFFICES ASSUME IInv, StartApplication PROVE IInv'
  OBVIOUS
<1>1. TypeOK'
  BY DEF IInv, TypeOK, StartApplication, packet, totals, Time, EventTime
<1>2. AppInv'
  BY DEF IInv, TypeOK, AppInv, StartApplication, packet, totals, Time, EventTime, Nothing
<1>3. EventInv'
  BY DEF IInv, TypeOK, AppInv, EventInv, StartApplication, packet, totals, Time, Nothing,
         EventTime
<1>4. PacketInv' /\ LimitInv'
  BY DEF IInv, PacketInv, LimitInv, RespectsLimits, StartApplication, packet, totals,
         LastFlit, DestinationNode
<1>5. StaysScheduled'
  BY DEF IInv, TypeOK, Time, StaysScheduled, StartApplication
<1> QED
  BY <1>1, <1>2, <1>3, <1>4, <1>5, NothingInjected DEF IInv, StartApplication, totals

LEMMA StopApplicationIInv == IInv /\ StopApplication => IInv'
<1> SUFFICES ASSUME IInv, StopApplication PROVE IInv'
  OBVIOUS
<1>1. TypeOK'
  BY DEF IInv, TypeOK, StopApplication, CancelEvents, packet, totals
<1>2. AppInv'
  BY DEF IInv, TypeOK, AppInv, StopApplication, CancelEvents, Time, EventTime, Nothing
<1>3. EventInv'
  BY DEF IInv, AppInv, EventInv, StopApplication, CancelEvents, packet, totals
<1>4. PacketInv' /\ LimitInv'
  BY DEF IInv, PacketInv, LimitInv, RespectsLimits, StopApplication, packet, totals,
         LastFlit, DestinationNode
\* A stop that counts is not before the start; then the application is not running.
<1>5. StaysScheduled'
  BY DEF IInv, TypeOK, AppInv, StaysScheduled, Running, StopApplication, Time, EventTime,
         Nothing
<1> QED
  BY <1>1, <1>2, <1>3, <1>4, <1>5, NothingInjected DEF IInv, StopApplication, totals

LEMMA StartSendingIInv == IInv /\ StartSending => IInv'
<1> SUFFICES ASSUME IInv, StartSending PROVE IInv'
  OBVIOUS
<1>0. now = StartTime /\ injected = <<>> /\ totBytes = 0 /\ startEvent # Nothing
  BY DEF IInv, TypeOK, Time, EventInv, StartSending, Nothing
<1>1. /\ startEvent' = Nothing
      /\ sendEvent' \in EventTime \cup {Nothing}
      /\ MayContinue(totBytes, totFlits) => sendEvent' \in now .. now + 2 * Clock
      /\ sendEvent' # Nothing => MayContinue(totBytes, totFlits) /\ sendEvent' = now
  BY <1>0, Scheduled DEF IInv, TypeOK, StartSending
<1>2. TypeOK'
  BY <1>1 DEF IInv, TypeOK, StartSending, timers, packet, totals
<1>3. AppInv'
  BY <1>0, <1>1 DEF IInv, TypeOK, AppInv, StartSending, OthersAreDue, timers
<1>4. EventInv'
  BY <1>0, <1>1 DEF IInv, TypeOK, Time, AppInv, EventInv, StartSending, timers, packet, totals,
                    MayContinue
<1>5. PacketInv' /\ LimitInv'
  BY DEF IInv, PacketInv, LimitInv, RespectsLimits, StartSending, packet, totals,
         LastFlit, DestinationNode
<1>6. StaysScheduled'
  BY <1>1 DEF StaysScheduled, Running, StartSending, timers, totals, MayContinue
<1> QED
  BY <1>2, <1>3, <1>4, <1>5, <1>6, NothingInjected DEF IInv, StartSending, totals

LEMMA TickIInv == IInv /\ Tick => IInv'
<1> SUFFICES ASSUME IInv, Tick PROVE IInv'
  OBVIOUS
<1>1. TypeOK'
  BY DEF IInv, TypeOK, Tick, packet, totals, Time
<1>2. AppInv'
  BY DEF IInv, TypeOK, AppInv, Tick, Time, Nothing
<1>3. EventInv'
  BY DEF IInv, TypeOK, EventInv, Tick, packet, totals, Time, LastFlit, MayContinue
<1>4. PacketInv' /\ LimitInv'
  BY DEF IInv, PacketInv, LimitInv, RespectsLimits, Tick, packet, totals,
         LastFlit, DestinationNode
<1>5. StaysScheduled'
  BY DEF IInv, TypeOK, Time, EventInv, StaysScheduled, Running, Tick, packet, totals,
         MayContinue,
         Nothing
<1> QED
  BY <1>1, <1>2, <1>3, <1>4, <1>5, NothingInjected DEF IInv, Tick, totals

\* When an attempt is made the application has started, has not been stopped, and the
\* limits are not reached.
LEMMA AttemptContext ==
  ASSUME IInv, SendFlit
  PROVE  /\ sendEvent = now /\ now \in Time /\ startEvent = Nothing /\ appStart = Nothing
         /\ MayContinue(totBytes, totFlits)
         /\ StopTime >= StartTime /\ StopTime > 0 => now < StopTime
         /\ injected = <<>> => now = StartTime
         /\ HeadBytes > 0 /\ injected # <<>> => LastFlit.at + Clock <= now
<1>1. sendEvent = now /\ sendEvent # Nothing /\ now \in Time
  BY DEF SendFlit, IInv, TypeOK, Time, Nothing
<1>2. startEvent = Nothing /\ appStart = Nothing
  BY <1>1 DEF IInv, AppInv, EventInv
<1>3. StopTime >= StartTime /\ StopTime > 0 => now < StopTime
  BY <1>1 DEF IInv, TypeOK, AppInv, SendFlit, OthersAreDue, Time
<1> QED
  BY <1>1, <1>2, <1>3 DEF IInv, EventInv

\* The invariant after an attempt that injects nothing, with `flits' attempts counted.
LEMMA NoFlitIInv ==
  ASSUME IInv, SendFlit, UNCHANGED <<currentFlitIndex, currentHeadFlit, totBytes, injected>>,
         currentFlitIndex = 0 \/ UNCHANGED uniformDestination,
         totFlits' \in {totFlits, totFlits + 1},
         \/ ScheduleNextTx(totBytes, totFlits')
         \/ CancelEvents /\ ~Uniform /\ Destination = Self,
         uniformDestination' \in Node \cup {Unset}
  PROVE  IInv'
<1>0. totFlits' \in Nat /\ totBytes \in Nat /\ UNCHANGED timers /\ UNCHANGED <<now, appStart, appStop>>
  BY DEF IInv, TypeOK, SendFlit, timers
<1>1. /\ startEvent' = Nothing
      /\ sendEvent' \in EventTime \cup {Nothing}
      /\ \/ ~Uniform /\ Destination = Self
         \/ MayContinue(totBytes, totFlits') => sendEvent' \in now .. now + 2 * Clock
      /\ sendEvent' # Nothing => /\ MayContinue(totBytes, totFlits')
                                 /\ sendEvent' \in now .. now + 2 * Clock
                                 /\ totBytes = 0 => sendEvent' = now
                                 /\ totBytes > 0 => now + Clock <= sendEvent'
  <2>1. CASE ScheduleNextTx(totBytes, totFlits')
    BY <1>0, <2>1, Scheduled DEF IInv
  <2>2. CASE CancelEvents /\ ~Uniform /\ Destination = Self
    BY <2>2 DEF CancelEvents
  <2> QED
    BY <2>1, <2>2
<1>2. TypeOK'
  BY <1>0, <1>1 DEF IInv, TypeOK
<1>3. AppInv'
  BY <1>0, <1>1, AttemptContext DEF IInv, AppInv, Time, EventTime, Nothing
<1>4. EventInv'
  <2>1. injected # <<>> /\ HeadBytes > 0 => LastFlit.at \in Nat /\ totBytes > 0
    BY LastFlitType DEF IInv, EventInv
  <2> QED
    BY <1>0, <1>1, <2>1, AttemptContext
    DEF IInv, EventInv, Time, Nothing, LastFlit, MayContinue
<1>5. PacketInv'
  BY DEF IInv, PacketInv, LastFlit, DestinationNode
<1>6. LimitInv'
  BY <1>0, AttemptContext DEF IInv, TypeOK, LimitInv, RespectsLimits, MayContinue
<1>7. StaysScheduled'
  BY <1>0, <1>1 DEF StaysScheduled, Running, MayContinue
<1> QED
  BY <1>2, <1>3, <1>4, <1>5, <1>6, <1>7, NothingInjected DEF IInv

\* The invariant after a flit is injected.
LEMMA InjectFlitIInv ==
  ASSUME IInv, SendFlit, NEW dst \in DestinationNode, dst # Self, InjectFlit(dst),
         uniformDestination' = IF Uniform THEN dst ELSE uniformDestination
  PROVE  IInv'
<1> DEFINE isHead == currentFlitIndex = 0
           bytes == totBytes + (IF isHead THEN HeadBytes ELSE FlitBytes)
           n == Len(injected)
           flit == [type  |-> IF isHead THEN "HEAD"
                              ELSE IF currentFlitIndex + 1 = NumberOfFlits THEN "TAIL" ELSE "DATA",
                    index |-> currentFlitIndex, head |-> currentHeadFlit', dst |-> dst,
                    at |-> now]
<1>0. /\ totFlits' = totFlits + 1 /\ totBytes' = bytes
      /\ currentHeadFlit' = IF isHead THEN n + 1 ELSE currentHeadFlit
      /\ injected' = Append(injected, flit) /\ currentFlitIndex' = NextFlitIndex
      /\ UNCHANGED <<now, appStart, appStop>>
      /\ bytes \in Nat /\ totBytes \in Nat /\ n \in Nat /\ totFlits \in Nat
  BY DEF InjectFlit, SendFlit, timers, IInv, TypeOK
<1>1. /\ startEvent' = Nothing
      /\ sendEvent' \in EventTime \cup {Nothing}
      /\ MayContinue(totBytes', totFlits') => sendEvent' \in now .. now + 2 * Clock
      /\ sendEvent' # Nothing => /\ MayContinue(totBytes', totFlits')
                                 /\ sendEvent' \in now .. now + 2 * Clock
                                 /\ bytes > 0 => now + Clock <= sendEvent'
  BY <1>0, Scheduled DEF InjectFlit, IInv
<1>2. dst \in Node /\ (currentFlitIndex > 0 => dst = LastFlit.dst)
  <2>1. CASE currentFlitIndex > 0
    BY <2>1, LastFlitType DEF IInv, PacketInv
  <2>2. CASE ~(currentFlitIndex > 0)
    BY <2>2 DEF DestinationNode, IInv, TypeOK
  <2> QED
    BY <2>1, <2>2
<1>3. flit \in InjectedFlit /\ currentHeadFlit' \in 1 .. n + 1
  <2>1. currentHeadFlit' \in 1 .. n + 1
    BY <1>0 DEF IInv, TypeOK, PacketInv
  <2> QED
    BY <1>0, <1>2, <2>1, AttemptContext DEF InjectedFlit, IInv, TypeOK
<1>4. /\ injected' \in Seq(InjectedFlit) /\ Len(injected') = n + 1 /\ injected' # <<>>
      /\ injected'[n + 1] = flit /\ LastFlit' = flit
      /\ \A i \in 1 .. n : injected'[i] = injected[i]
  BY <1>0, <1>3 DEF IInv, TypeOK, LastFlit
<1>5. TypeOK'
  BY <1>0, <1>1, <1>2, <1>3, <1>4 DEF IInv, TypeOK, NextFlitIndex
<1>6. AppInv'
  BY <1>0, <1>1, AttemptContext DEF IInv, AppInv, Time, EventTime, Nothing
<1>7. EventInv'
  BY <1>0, <1>1, <1>4, AttemptContext DEF IInv, TypeOK, EventInv, Time, Nothing, MayContinue
<1>8. PacketInv'
  BY <1>0, <1>2, <1>3, <1>4 DEF IInv, TypeOK, PacketInv, NextFlitIndex, DestinationNode
<1>9. LimitInv'
  BY <1>0, <1>4, AttemptContext DEF IInv, LimitInv, RespectsLimits, MayContinue
<1>10. PacketsAreWhole'
  <2> SUFFICES ASSUME NEW i \in 1 .. n + 1
               PROVE  LET f == injected'[i]
                      IN /\ f.dst # Self
                         /\ f.type = "HEAD" <=> f.head = i
                         /\ f.type = "HEAD" <=> i = 1 \/ injected'[i - 1].type = "TAIL"
                         /\ f.type # "HEAD" => /\ injected'[i - 1].head = f.head
                                               /\ injected'[i - 1].dst = f.dst
                                               /\ injected'[i - 1].index = f.index - 1
                         /\ f.type = "TAIL" <=> f.index = NumberOfFlits - 1
    BY <1>4 DEF PacketsAreWhole
  <2>1. CASE i \in 1 .. n
    <3>1. injected'[i] = injected[i] /\ (i > 1 => injected'[i - 1] = injected[i - 1])
      BY <1>0, <1>4, <2>1
    <3> QED
      BY <2>1, <3>1, <1>0 DEF IInv, PacketsAreWhole
  <2>2. CASE i = n + 1
    <3>1. n > 0 => injected'[n] = LastFlit
      BY <1>0, <1>4 DEF LastFlit
    <3>2. n = 0 <=> injected = <<>>
      BY DEF IInv, TypeOK
    <3> QED
      BY <2>2, <3>1, <3>2, <1>0, <1>2, <1>3, <1>4 DEF IInv, TypeOK, PacketInv
  <2> QED
    BY <2>1, <2>2, <1>0
<1>11. OneFlitPerClock'
  <2> SUFFICES ASSUME HeadBytes > 0, NEW i \in 2 .. n + 1
               PROVE  injected'[i].at - injected'[i - 1].at >= Clock
    BY <1>4 DEF OneFlitPerClock
  <2>1. CASE i \in 2 .. n
    BY <2>1, <1>0, <1>4 DEF IInv, OneFlitPerClock
  <2>2. CASE i = n + 1
    <3>1. injected # <<>> /\ injected'[n] = LastFlit /\ flit.at = now
      BY <1>0, <1>4, <2>2 DEF LastFlit
    <3> QED
      BY <2>2, <3>1, <1>4, AttemptContext, LastFlitType DEF IInv, Time
  <2> QED
    BY <2>1, <2>2, <1>0
<1>12. FirstFlitAtStart' /\ StopIsFinal'
  BY <1>0, <1>4, AttemptContext DEF IInv, TypeOK, FirstFlitAtStart, StopIsFinal
<1>13. StaysScheduled'
  BY <1>0, <1>1 DEF StaysScheduled, Running, MayContinue
<1> QED
  BY <1>5, <1>6, <1>7, <1>8, <1>9, <1>10, <1>11, <1>12, <1>13 DEF IInv

LEMMA SendFlitIInv == IInv /\ SendFlit => IInv'
<1> SUFFICES ASSUME IInv, SendFlit PROVE IInv'
  OBVIOUS
<1>1. PICK dst \in DestinationNode :
        /\ uniformDestination' = IF Uniform THEN dst ELSE uniformDestination
        /\ IF dst = Self THEN SkipSelf
           ELSE IF currentFlitIndex > 0 THEN InjectFlit(dst)
           ELSE \E injects \in Injects : IF injects THEN InjectFlit(dst) ELSE SkipPacket
  BY DEF SendFlit
<1>2. /\ currentFlitIndex = 0 \/ UNCHANGED uniformDestination
      /\ uniformDestination' \in Node \cup {Unset}
  BY <1>1 DEF DestinationNode, IInv, TypeOK
<1>3. CASE dst # Self /\ InjectFlit(dst)
  BY <1>1, <1>3, InjectFlitIInv
<1>4. CASE dst = Self /\ SkipSelf
  <2>1. ~Uniform => Destination = Self
    BY <1>4 DEF DestinationNode
  <2>2. UNCHANGED <<currentFlitIndex, currentHeadFlit, totBytes, totFlits, injected>>
    BY <1>4 DEF SkipSelf, totals
  <2>3. \/ ScheduleNextTx(totBytes, totFlits')
        \/ CancelEvents /\ ~Uniform /\ Destination = Self
    BY <1>4, <2>1, <2>2 DEF SkipSelf
  <2> QED
    BY <1>2, <2>2, <2>3, NoFlitIInv
<1>5. CASE currentFlitIndex = 0 /\ SkipPacket
  <2>1. /\ UNCHANGED <<currentFlitIndex, currentHeadFlit, totBytes, injected>>
        /\ totFlits' = totFlits + 1 /\ ScheduleNextTx(totBytes, totFlits')
    BY <1>5 DEF SkipPacket
  <2> QED
    BY <1>2, <1>5, <2>1, NoFlitIInv
<1> QED
  BY <1>1, <1>3, <1>4, <1>5 DEF IInv, TypeOK

LEMMA NextIInv == IInv /\ [Next]_syncVars => IInv'
<1> SUFFICES ASSUME IInv, [Next]_syncVars PROVE IInv'
  OBVIOUS
<1>1. CASE UNCHANGED syncVars
  <2>1. /\ UNCHANGED <<now, appStart, appStop, startEvent, sendEvent>>
        /\ UNCHANGED <<uniformDestination, currentFlitIndex, currentHeadFlit>>
        /\ UNCHANGED <<totBytes, totFlits, injected>>
    BY <1>1 DEF syncVars, timers, packet, totals
  <2>2. TypeOK' /\ AppInv' /\ EventInv'
    BY <2>1 DEF IInv, TypeOK, AppInv, EventInv, MayContinue, LastFlit
  <2>3. PacketInv' /\ LimitInv' /\ StaysScheduled'
    BY <2>1 DEF IInv, PacketInv, LimitInv, RespectsLimits, StaysScheduled, Running, MayContinue,
                LastFlit, DestinationNode
  <2> QED
    BY <2>1, <2>2, <2>3, NothingInjected DEF IInv
<1> QED
  BY <1>1, StartApplicationIInv, StopApplicationIInv, StartSendingIInv, SendFlitIInv, TickIInv
  DEF Next

\* The invariant, and with it all of its parts.
LEMMA SyncInvariant == Spec => []IInv
BY InitIInv, NextIInv, PTL DEF Spec

\* Every variable keeps its type; in particular m_currentFlitIndex stays below
\* m_numberOfFlits.
THEOREM SyncTypeCorrect == Spec => []TypeOK
<1>1. IInv => TypeOK
  BY DEF IInv
<1> QED
  BY <1>1, SyncInvariant, PTL

\* SendFlit injects whole packets, flit after flit, to one destination each: what
\* NocTransport takes for granted of its packets.
THEOREM InjectsWholePackets == Spec => []PacketsAreWhole
<1>1. IInv => PacketsAreWhole
  BY DEF IInv
<1> QED
  BY <1>1, SyncInvariant, PTL

\* The delays that ScheduleNextTx computes leave a clock cycle between two flits.
THEOREM InjectsOneFlitPerClock == Spec => []OneFlitPerClock
<1>1. IInv => OneFlitPerClock
  BY DEF IInv
<1> QED
  BY <1>1, SyncInvariant, PTL

\* As long as nothing was sent ScheduleNextTx repeats the attempt without delay: the first
\* flit leaves at the start, whatever the injection probability.
THEOREM FirstFlitIsNotDelayed == Spec => []FirstFlitAtStart
<1>1. IInv => FirstFlitAtStart
  BY DEF IInv
<1> QED
  BY <1>1, SyncInvariant, PTL

\* ScheduleNextTx never lets the totals pass the limits.
THEOREM LimitsHold == Spec => []RespectsLimits
<1>1. IInv => RespectsLimits
  BY DEF IInv, LimitInv
<1> QED
  BY <1>1, SyncInvariant, PTL

\* Once StopApplication has run, SendFlit does not run again.
THEOREM NothingAfterStop == Spec => []StopIsFinal
<1>1. IInv => StopIsFinal
  BY DEF IInv
<1> QED
  BY <1>1, SyncInvariant, PTL

\* A running application always has its next event pending.
THEOREM AttemptsGoOn == Spec => []StaysScheduled
<1>1. IInv => StaysScheduled
  BY DEF IInv
<1> QED
  BY <1>1, SyncInvariant, PTL


(***************************************************************************)
(* The net device never loses a wakeup, for every clock, speedup,          *)
(* transmission time, queue size and schedule of arrivals.  The invariant  *)
(* relates m_lastScheduledEvent to the pending events: a comparison that   *)
(* finds the event "already scheduled" can only do so while one is still   *)
(* to come.                                                                *)
(***************************************************************************)

\* Only a flit that is still queued is on a link, so TransmitEnd has one to dequeue.
FlightIsQueued == transmitEndAt # Nothing => queue # <<>>

WakeupInv == WakeupTypeOK /\ FlightIsQueued /\ LastIsPending /\ RetryWithinTwoClocks

\* The speedup never lengthens a clock period and never makes it vanish.
LEMMA SpedUpClock ==
  ASSUME NEW kind
  PROVE  SpedUp(kind, Clock) \in 1 .. Clock
BY ClockAssumption, GlobalClockAssumption DEF SpedUp

\* Initially nothing is queued and nothing is scheduled.
LEMMA InitWakeupInv == WakeupInit => WakeupInv
<1> SUFFICES ASSUME WakeupInit PROVE WakeupInv
  OBVIOUS
<1>1. WakeupTypeOK
  BY ClockAssumption, GlobalClockAssumption DEF WakeupInit, WakeupTypeOK, RetryTime, Kind
<1>2. FlightIsQueued /\ LastIsPending /\ RetryWithinTwoClocks
  BY DEF WakeupInit, FlightIsQueued, LastIsPending, RetryWithinTwoClocks
<1> QED
  BY <1>1, <1>2 DEF WakeupInv

\* The end of ProcessBufferedPackets, with the events ev that remain pending after
\* the current one: if ev still has the event m_lastScheduledEvent stands for,
\* the queue q is tried again in time.
LEMMA RescheduleKeepsPromise ==
  ASSUME WakeupTypeOK, now' = now,
         NEW q \in Seq(Kind), queue' = q,
         NEW ev \in [RetryTime -> Nat],
         lastScheduledEvent > now =>
           \E t \in RetryTime :
             lastScheduledEvent <= t /\ t <= now + 2 * Clock /\ ev[t] > 0,
         Reschedule(q, ev)
  PROVE  /\ lastScheduledEvent' \in Nat
         /\ events' \in [RetryTime -> Nat]
         /\ LastIsPending'
         /\ RetryWithinTwoClocks'
<1> DEFINE next == now + SpedUp(Head(q), Clock)
<1>0. /\ now \in Nat /\ Clock \in Nat \ {0} /\ RetryTime \subseteq Nat
      /\ SpedUp(Head(q), Clock) \in 1 .. Clock /\ lastScheduledEvent \in Nat
  BY ClockAssumption, GlobalClockAssumption, SpedUpClock DEF WakeupTypeOK, RetryTime
<1>1. CASE q # <<>> /\ lastScheduledEvent # next
  <2>1. PICK t \in NextClock(now) : events' = [ev EXCEPT ![t] = @ + 1]
    BY <1>1 DEF Reschedule
  <2>2. lastScheduledEvent' = next
    BY <1>1 DEF Reschedule
  <2>3. t \in RetryTime /\ now + Clock <= t /\ t <= now + 2 * Clock
    BY <1>0, <2>1, ClockAssumption DEF NextClock, RetryTime, WakeupTypeOK
  <2>4. events' \in [RetryTime -> Nat] /\ events'[t] > 0
    BY <2>1, <2>3
  <2>5. next \in Nat /\ now < next /\ next <= t
    BY <1>0, <2>3
  <2>6. LastIsPending'
    BY <2>2, <2>3, <2>4, <2>5 DEF LastIsPending, RetryTime
  <2>7. RetryWithinTwoClocks'
    BY <1>0, <2>3, <2>4 DEF RetryWithinTwoClocks, RetryTime
  <2> QED
    BY <2>2, <2>4, <2>5, <2>6, <2>7
<1>2. CASE ~(q # <<>> /\ lastScheduledEvent # next)
  <2>1. events' = ev /\ lastScheduledEvent' = lastScheduledEvent
    BY <1>2 DEF Reschedule
  <2>2. LastIsPending'
    BY <2>1 DEF LastIsPending, RetryTime
  <2>3. ASSUME q # <<>>
        PROVE  \E t \in RetryTime : now <= t /\ t <= now + 2 * Clock /\ ev[t] > 0
    <3>1. lastScheduledEvent = next
      BY <1>2, <2>3
    <3>2. lastScheduledEvent > now
      BY <1>0, <3>1
    <3> QED
      BY <1>0, <3>2
  <2>4. RetryWithinTwoClocks'
    BY <2>1, <2>3 DEF RetryWithinTwoClocks, RetryTime
  <2> QED
    BY <1>0, <2>1, <2>2, <2>4
<1> QED
  BY <1>1, <1>2

\* ProcessBufferedPackets leaves the device with a well formed state.
LEMMA ProcessKeepsWakeupInv ==
  ASSUME WakeupInv, now' = now,
         NEW q \in Seq(Kind), Len(q) <= MaxPackets, queue # <<>> => q # <<>>,
         NEW ev \in [RetryTime -> Nat],
         lastScheduledEvent > now =>
           \E t \in RetryTime :
             lastScheduledEvent <= t /\ t <= now + 2 * Clock /\ ev[t] > 0,
         ProcessBufferedPackets(q, ev)
  PROVE  WakeupInv'
<1>1. queue' = q /\ Reschedule(q, ev)
  BY DEF ProcessBufferedPackets
<1>2. /\ lastScheduledEvent' \in Nat /\ events' \in [RetryTime -> Nat]
      /\ LastIsPending' /\ RetryWithinTwoClocks'
  BY <1>1, RescheduleKeepsPromise DEF WakeupInv
<1>3. transmitEndAt' \in Nat \cup {Nothing} /\ FlightIsQueued'
  <2>1. CASE UNCHANGED transmitEndAt
    BY <1>1, <2>1 DEF WakeupInv, WakeupTypeOK, FlightIsQueued
  <2>2. CASE q # <<>> /\ transmitEndAt' = now + SpedUp(Head(q), TransmitDelay)
    <3>1. SpedUp(Head(q), TransmitDelay) \in Nat /\ now \in Nat
      BY ClockAssumption, GlobalClockAssumption DEF SpedUp, WakeupInv, WakeupTypeOK
    <3> QED
      BY <1>1, <2>2, <3>1 DEF FlightIsQueued
  <2> QED
    BY <2>1, <2>2 DEF ProcessBufferedPackets
<1>4. WakeupTypeOK'
  BY <1>1, <1>2, <1>3 DEF WakeupInv, WakeupTypeOK, RetryTime
<1> QED
  BY <1>2, <1>3, <1>4 DEF WakeupInv

\* Every step keeps the invariant.
LEMMA NextWakeupInv == WakeupInv /\ [WakeupNext]_wakeupVars => WakeupInv'
<1> SUFFICES ASSUME WakeupInv, [WakeupNext]_wakeupVars PROVE WakeupInv'
  OBVIOUS
<1> USE DEF WakeupInv
<1>1. ASSUME NEW kind \in Kind, SendFrom(kind) PROVE WakeupInv'
  <2>1. /\ Append(queue, kind) \in Seq(Kind) /\ Append(queue, kind) # <<>>
        /\ Len(Append(queue, kind)) <= MaxPackets
    BY <1>1, ClockAssumption, GlobalClockAssumption DEF SendFrom, WakeupTypeOK
  <2>2. ProcessBufferedPackets(Append(queue, kind), events) /\ now' = now
    BY <1>1 DEF SendFrom
  <2> QED
    BY <2>1, <2>2, ProcessKeepsWakeupInv DEF WakeupTypeOK, LastIsPending
<1>2. CASE Fire
  <2> DEFINE ev == [events EXCEPT ![now] = @ - 1]
  <2>1. now \in RetryTime /\ events[now] > 0 /\ now' = now
    BY <1>2, ClockAssumption, GlobalClockAssumption DEF Fire, WakeupTypeOK, RetryTime
  <2>2. ev \in [RetryTime -> Nat]
    BY <2>1 DEF WakeupTypeOK
  <2>3. lastScheduledEvent > now =>
          \E t \in RetryTime :
            lastScheduledEvent <= t /\ t <= now + 2 * Clock /\ ev[t] > 0
    BY <2>1, ClockAssumption, GlobalClockAssumption DEF WakeupTypeOK, LastIsPending, RetryTime
  <2>4. ProcessBufferedPackets(queue, ev)
    BY <1>2 DEF Fire
  <2> HIDE DEF ev
  <2> QED
    BY <2>1, <2>2, <2>3, <2>4, ProcessKeepsWakeupInv DEF WakeupTypeOK
<1>3. CASE DequeuePacketFromInQueue
  <2>1. queue # <<>> /\ now \in Nat
    BY <1>3 DEF DequeuePacketFromInQueue, FlightIsQueued, Nothing, WakeupTypeOK
  <2>2. queue' = Tail(queue) /\ Tail(queue) \in Seq(Kind) /\ Len(Tail(queue)) <= MaxPackets
    BY <1>3, <2>1, ClockAssumption, GlobalClockAssumption DEF DequeuePacketFromInQueue, WakeupTypeOK
  <2>3. WakeupTypeOK'
    BY <1>3, <2>2 DEF DequeuePacketFromInQueue, WakeupTypeOK, RetryTime
  <2>4. FlightIsQueued' /\ LastIsPending' /\ RetryWithinTwoClocks'
    BY <1>3, <2>1 DEF DequeuePacketFromInQueue, FlightIsQueued, LastIsPending,
                      RetryWithinTwoClocks, RetryTime
  <2> QED
    BY <2>3, <2>4
<1>4. CASE TimePasses
  <2>1. now \in Nat /\ now' = now + 1 /\ now' \in 0 .. MaxTime /\ events[now] = 0
    BY <1>4, ClockAssumption, GlobalClockAssumption DEF TimePasses, WakeupTypeOK
  <2>2. WakeupTypeOK'
    BY <1>4, <2>1 DEF TimePasses, WakeupTypeOK, RetryTime
  <2>3. FlightIsQueued'
    BY <1>4 DEF TimePasses, FlightIsQueued
  <2>4. LastIsPending'
    BY <1>4, <2>1, ClockAssumption, GlobalClockAssumption DEF TimePasses, WakeupTypeOK, LastIsPending, RetryTime
  <2>5. RetryWithinTwoClocks'
    BY <1>4, <2>1, ClockAssumption, GlobalClockAssumption DEF TimePasses, WakeupTypeOK, RetryWithinTwoClocks, RetryTime
  <2> QED
    BY <2>2, <2>3, <2>4, <2>5
<1>5. CASE UNCHANGED wakeupVars
  BY <1>5 DEF wakeupVars, WakeupTypeOK, FlightIsQueued, LastIsPending,
              RetryWithinTwoClocks, RetryTime
<1> QED
  BY <1>1, <1>2, <1>3, <1>4, <1>5 DEF WakeupNext

\* The invariant holds in every reachable state.
LEMMA SpecWakeupInv == WakeupSpec => []WakeupInv
BY InitWakeupInv, NextWakeupInv, PTL DEF WakeupSpec

\* The device's own state stays well formed: TransmitEnd always finds its flit.
THEOREM WakeupTypeCorrect == WakeupSpec => []WakeupTypeOK
<1>1. WakeupInv => WakeupTypeOK
  BY DEF WakeupInv
<1> QED
  BY <1>1, SpecWakeupInv, PTL

\* A net device whose queue holds a flit has a ProcessBufferedPackets pending, at
\* most two clock periods away: the early exit never leaves it without one.
THEOREM WakeupInTime == WakeupSpec => []RetryWithinTwoClocks
<1>1. WakeupInv => RetryWithinTwoClocks
  BY DEF WakeupInv
<1> QED
  BY <1>1, SpecWakeupInv, PTL

\* m_lastScheduledEvent, which filters later requests, never stays ahead of the clock
\* without an event that is pending at or after it.
THEOREM FilterIsBacked == WakeupSpec => []LastIsPending
<1>1. WakeupInv => LastIsPending
  BY DEF WakeupInv
<1> QED
  BY <1>1, SpecWakeupInv, PTL

=============================================================================
