-------------------------- MODULE NocSyncApplication --------------------------
(***************************************************************************)
(* The traffic generator of one node: NocSyncApplication injects packets   *)
(* of NumberOfFlits flits, one flit per clock cycle, until a limit is      *)
(* reached or the application is stopped.  Every attempt schedules the     *)
(* next one: at most one of its own events is pending, and when none is    *)
(* the node never injects again.                                           *)
(*                                                                         *)
(* Left out: logging, the traces with their warmup period, and how a bit   *)
(* pattern computes the destination of a node.  InjectPacket is the        *)
(* business of NocTransport; here it only records the flit.                *)
(***************************************************************************)
EXTENDS NocClock, Sequences

CONSTANTS
  Node,                   \* the nodes of the topology
  Self,                   \* the node of the application
  Uniform,                \* whether the traffic pattern is UNIFORM_RANDOM
  Destination,            \* where the other traffic patterns send from Self
  InjectionProbability,   \* "ZERO", "TINY" (less than a percent), "SOME" or "ONE"
  NumberOfFlits,          \* of a packet
  HeadBytes, FlitBytes,   \* what a head flit and the other flits carry
  MaxBytes, MaxFlits,     \* the limits; 0 is no limit
  StartTime, StopTime,    \* attributes of Application; stop time 0 is no stop
  EndTime,                \* bound: how long the simulation lasts
  MaxTries                \* bound: how many attempts are made

ASSUME ApplicationAssumption ==
  /\ Self \in Node /\ Destination \in Node
  /\ Uniform \in BOOLEAN
  /\ InjectionProbability \in {"ZERO", "TINY", "SOME", "ONE"}
  /\ NumberOfFlits \in Nat /\ NumberOfFlits >= 2
  /\ HeadBytes \in Nat /\ FlitBytes \in Nat \ {0} /\ HeadBytes <= FlitBytes
  /\ MaxBytes \in Nat /\ MaxFlits \in Nat
  /\ StartTime \in Nat /\ StopTime \in Nat
  /\ EndTime \in Nat /\ MaxTries \in Nat

Unset == "unset"        \* no destination has been drawn yet
Time == 0 .. EndTime
EventTime == 0 .. StartTime + StopTime + EndTime + 2 * Clock

\* A flit as it was injected: its place in the packet (`index', the value of
\* m_currentFlitIndex), the position of its head flit, where to and when.
InjectedFlit ==
  [type : {"HEAD", "DATA", "TAIL"}, index : 0 .. NumberOfFlits - 1,
   head : Nat \ {0}, dst : Node, at : Time]

VARIABLES
  appStart, appStop,    \* Application::m_startEvent, Application::m_stopEvent
  startEvent,           \* NocSyncApplication::m_startEvent
  sendEvent,            \* m_sendEvent
  uniformDestination,   \* m_uniformDestination
  currentFlitIndex,     \* m_currentFlitIndex
  currentHeadFlit,      \* m_currentHeadFlit, its position in `injected'
  totBytes, totFlits,   \* m_totBytes, m_totFlits
  injected              \* the flits InjectPacket was called for

timers == <<now, appStart, appStop>>
packet == <<uniformDestination, currentFlitIndex, currentHeadFlit>>
totals == <<totBytes, totFlits, injected>>
syncVars == <<timers, startEvent, sendEvent, packet, totals>>

TypeOK ==
  /\ now \in Time
  /\ {appStart, appStop, startEvent, sendEvent} \subseteq EventTime \cup {Nothing}
  /\ uniformDestination \in Node \cup {Unset}
  /\ currentFlitIndex \in 0 .. NumberOfFlits - 1
  /\ currentHeadFlit \in Nat
  /\ totBytes \in Nat /\ totFlits \in Nat
  /\ injected \in Seq(InjectedFlit)

\* Application::DoStart has scheduled the start and, if there is one, the stop.
Init ==
  /\ now = 0
  /\ appStart = StartTime
  /\ appStop = IF StopTime = 0 THEN Nothing ELSE StopTime
  /\ startEvent = Nothing /\ sendEvent = Nothing
  /\ uniformDestination = Unset
  /\ currentFlitIndex = 0 /\ currentHeadFlit = 0
  /\ totBytes = 0 /\ totFlits = 0
  /\ injected = <<>>

CancelStartOnly == startEvent' = Nothing /\ UNCHANGED sendEvent        \* mutant
CancelEvents == startEvent' = Nothing /\ sendEvent' = Nothing

\* Events of one time run in the order they were scheduled: the start and the stop
\* of the application come before its other events.
OthersAreDue == appStart # now /\ appStop # now

StartApplication ==
  /\ appStart = now
  /\ appStart' = Nothing
  /\ startEvent' = now /\ sendEvent' = Nothing
  /\ UNCHANGED <<now, appStop, packet, totals>>

StopApplication ==
  /\ appStop = now /\ appStart # now
  /\ appStop' = Nothing
  /\ CancelEvents
  /\ UNCHANGED <<now, appStart, packet, totals>>

\* Mutant: the limits are tested one flit too late.
MayContinueAtLimit(bytes, flits) ==
  /\ InjectionProbability # "ZERO"
  /\ MaxBytes = 0 \/ bytes <= MaxBytes
  /\ MaxFlits = 0 \/ flits <= MaxFlits

MayContinue(bytes, flits) ==
  /\ InjectionProbability # "ZERO"
  /\ MaxBytes = 0 \/ bytes < MaxBytes
  /\ MaxFlits = 0 \/ flits < MaxFlits

\* As long as no byte was sent, an attempt is made without delay.
SendTime(bytes, flits) == IF bytes = 0 THEN {now} ELSE NextClock(now)

\* Schedule the next attempt, or stop.  The event that calls it is over then, and no
\* other was pending: both are gone in either case.
ScheduleNextTx(bytes, flits) ==
  /\ startEvent' = Nothing
  /\ sendEvent' \in IF MayContinue(bytes, flits) THEN SendTime(bytes, flits) ELSE {Nothing}

StartSending ==
  /\ startEvent = now /\ OthersAreDue
  /\ ScheduleNextTx(totBytes, totFlits)
  /\ UNCHANGED <<timers, packet, totals>>

\* rand () % 100 + 1 <= m_injectionProbability * 100
Injects ==
  CASE InjectionProbability = "ONE" -> {TRUE}
    [] InjectionProbability = "SOME" -> {TRUE, FALSE}
    [] OTHER -> {FALSE}

\* Mutant: a destination is drawn for every flit.
DestinationOfFlit == IF Uniform THEN Node ELSE {Destination}

\* Where the flit may go: a uniform random destination is drawn for every attempt to
\* start a packet and kept for the rest of it.
DestinationNode ==
  IF ~Uniform THEN {Destination}
  ELSE IF currentFlitIndex = 0 THEN Node ELSE {uniformDestination}

\* Mutant: the application ends when it draws its own node.
SkipSelfForGood ==
  /\ CancelEvents
  /\ UNCHANGED <<currentFlitIndex, currentHeadFlit, totals>>

\* A pattern that maps the node to itself ends here; a random one tries again.
SkipSelf ==
  /\ IF Uniform THEN ScheduleNextTx(totBytes, totFlits) ELSE CancelEvents
  /\ UNCHANGED <<currentFlitIndex, currentHeadFlit, totals>>

\* The attempt counts for MaxFlits although no flit is injected.
SkipPacket ==
  /\ totFlits' = totFlits + 1
  /\ ScheduleNextTx(totBytes, totFlits + 1)
  /\ UNCHANGED <<currentFlitIndex, currentHeadFlit, totBytes, injected>>

NextFlitIndex == IF currentFlitIndex + 1 = NumberOfFlits THEN 0 ELSE currentFlitIndex + 1

InjectFlit(dst) ==
  LET isHead == currentFlitIndex = 0
      bytes  == totBytes + (IF isHead THEN HeadBytes ELSE FlitBytes)
  IN /\ currentHeadFlit' = IF isHead THEN Len(injected) + 1 ELSE currentHeadFlit
     /\ injected' = Append(injected,
          [type  |-> IF isHead THEN "HEAD"
                     ELSE IF currentFlitIndex + 1 = NumberOfFlits THEN "TAIL" ELSE "DATA",
           index |-> currentFlitIndex, head |-> currentHeadFlit', dst |-> dst, at |-> now])
     /\ currentFlitIndex' = NextFlitIndex
     /\ totBytes' = bytes
     /\ totFlits' = totFlits + 1
     /\ ScheduleNextTx(bytes, totFlits + 1)

SendFlit ==
  /\ sendEvent = now /\ OthersAreDue
  /\ totFlits < MaxTries
  /\ \E dst \in DestinationNode :
       /\ uniformDestination' = IF Uniform THEN dst ELSE uniformDestination
       /\ IF dst = Self THEN SkipSelf
          ELSE IF currentFlitIndex > 0 THEN InjectFlit(dst)
          ELSE \E injects \in Injects : IF injects THEN InjectFlit(dst) ELSE SkipPacket
  /\ UNCHANGED timers

\* Simulator: time advances when no event is due.
Tick ==
  /\ now < EndTime
  /\ now \notin {appStart, appStop, startEvent, sendEvent}
  /\ now' = now + 1
  /\ UNCHANGED <<appStart, appStop, startEvent, sendEvent, packet, totals>>

Next ==
  \/ StartApplication
  \/ StopApplication
  \/ StartSending
  \/ SendFlit
  \/ Tick

Spec == Init /\ [][Next]_syncVars

(***************************************************************************)
(* Properties.                                                             *)
(***************************************************************************)

\* The flits of a packet follow each other, head first and tail last, with nothing
\* in between, and all go to the destination of their head, never to the node
\* itself, although an attempt may fail, draw another destination or be cut off.
PacketsAreWhole ==
  \A i \in 1 .. Len(injected) :
    LET f == injected[i]
    IN /\ f.dst # Self
       /\ f.type = "HEAD" <=> f.head = i
       /\ f.type = "HEAD" <=> i = 1 \/ injected[i - 1].type = "TAIL"
       /\ f.type # "HEAD" => /\ injected[i - 1].head = f.head
                             /\ injected[i - 1].dst = f.dst
                             /\ injected[i - 1].index = f.index - 1
       /\ f.type = "TAIL" <=> f.index = NumberOfFlits - 1

\* At most one flit in a clock cycle, as soon as the head flits carry bytes: the
\* retries without delay end with the first flit.
OneFlitPerClock ==
  HeadBytes > 0 =>
    \A i \in 2 .. Len(injected) : injected[i].at - injected[i - 1].at >= Clock

\* Each limit holds by itself although they are tested only when an attempt is scheduled:
\* not an attempt too much, and bytes are exceeded by less than the last flit.  The code
\* stops at the first limit, where the help of the attributes MaxBytes and MaxFlits wants
\* both to be met.
RespectsLimits ==
  /\ MaxFlits > 0 => totFlits <= MaxFlits /\ Len(injected) <= MaxFlits
  /\ MaxBytes > 0 => totBytes < MaxBytes + FlitBytes

\* The injection probability and the random destination have no say in when the
\* first flit is injected: attempts are repeated in the same instant until one
\* succeeds.
FirstFlitAtStart == injected # <<>> => injected[1].at = StartTime

\* From the stop time on nothing is injected, whatever is scheduled for that time.
StopIsFinal ==
  StopTime >= StartTime /\ StopTime > 0 =>
    \A i \in 1 .. Len(injected) : injected[i].at < StopTime

\* The chain of attempts ends for the reasons the code has, and for no other: a
\* running application has its next event within two clock periods.
Running ==
  /\ appStart = Nothing
  /\ StopTime = 0 \/ StopTime < StartTime \/ appStop # Nothing
  /\ MayContinue(totBytes, totFlits)
  /\ Uniform \/ Destination # Self

StaysScheduled ==
  Running => \E event \in {startEvent, sendEvent} : event \in now .. now + 2 * Clock

=============================================================================
