-------------------------- MODULE NocCtgApplication --------------------------
(***************************************************************************)
(* The node of a communication task graph: NocCtgApplication.  In every    *)
(* iteration of the graph the node waits for the data of its predecessors, *)
(* executes its tasks, and then sends their data, destination after        *)
(* destination, one flit per clock cycle.  The iterations of a node may    *)
(* overlap; each has its own events and counters.                          *)
(*                                                                         *)
(* The predecessors are the environment: their flits arrive in the order   *)
(* they were sent, interleaved in any way, at any time.  Data is counted   *)
(* in whole bytes.  Left out: logging, traces, the warmup period, and      *)
(* ProcessFlit, which does nothing.                                        *)
(***************************************************************************)
EXTENDS NocClock, Sequences, FiniteSetsExt

CONSTANTS
  NumberOfFlits,          \* attribute: of a packet
  HeadBytes, FlitBytes,   \* what a head flit and the other flits carry
  Self,                   \* the node of the application
  Setting                 \* what an application may be set up with, see below

\* The data to send, in order (localTaskList), and what each predecessor sends: to
\* which task, how much in an iteration, and the flits that carry it.  A limit or a
\* stop time of 0 is none.  The simulation lasts until endTime, a bound.
ASSUME CtgAssumption ==
  /\ NumberOfFlits \in Nat /\ NumberOfFlits >= 2
  /\ HeadBytes \in Nat /\ FlitBytes \in Nat \ {0} /\ HeadBytes <= FlitBytes
  /\ \A s \in Setting :
       /\ s.iterations \in Nat \ {0}
       /\ {s.period, s.totalExecTime, s.maxBytes, s.maxFlits, s.stopTime, s.endTime} \subseteq Nat
       /\ s.localTaskList \in Seq(Range(s.localTaskList))
       /\ \A k \in 1 .. Len(s.localTaskList) : s.localTaskList[k].data \in Nat \ {0}
       /\ IsFiniteSet(DOMAIN s.remoteTaskList)
       /\ \A p \in DOMAIN s.remoteTaskList :
            /\ s.remoteTaskList[p].data \in Nat \ {0}
            /\ Len(s.remoteTaskList[p].flits) \in Nat
            /\ \A k \in 1 .. Len(s.remoteTaskList[p].flits) :
                 /\ s.remoteTaskList[p].flits[k].iteration \in 0 .. s.iterations - 1
                 /\ s.remoteTaskList[p].flits[k].bytes \in Nat

SumOfData(remoteTaskList) ==
  MapThenSumSet(LAMBDA p : remoteTaskList[p].data, DOMAIN remoteTaskList)

VARIABLES
  setting,                     \* m_localTaskList, m_remoteTaskList and the attributes
  running,                     \* StartApplication has been called
  appStop,                     \* Application::m_stopEvent
  arrived,                     \* how many flits of each predecessor have arrived
  currentIteration,            \* m_currentIteration
  receivedData,                \* m_receivedData
  executionAvailabilityTime,   \* m_executionAvailabilityTime
  injectionStarted,            \* m_injectionStarted
  startEvent, sendEvent,       \* m_startEvent, m_sendEvent
  numberOfFlits,               \* m_numberOfFlits, which SendFlit makes smaller
  flitIndex,                   \* m_currentFlitIndex
  destinationIndex,            \* m_currentDestinationIndex
  taskBytes,                   \* m_totalTaskBytes
  totBytes, totFlits,          \* m_totBytes, m_totFlits
  started,                     \* the start events that were scheduled, in this order
  sent                         \* the bytes sent, by iteration and destination

received == <<arrived, currentIteration, receivedData>>
starts == <<executionAvailabilityTime, injectionStarted, started>>
sending == <<numberOfFlits, flitIndex, destinationIndex, taskBytes, totBytes, totFlits, sent>>
ctgVars == <<setting, now, running, appStop, received, starts, startEvent, sendEvent, sending>>

Iteration == 0 .. setting.iterations - 1
Destinations == 1 .. Len(setting.localTaskList)
Predecessor == DOMAIN setting.remoteTaskList

\* m_totalData
TotalData == SumOfData(setting.remoteTaskList)

\* Whether some task sends without receiving; the node then waits for nobody.
ContainsNotDependentTask ==
  \E k \in Destinations : \A p \in Predecessor :
    setting.localTaskList[k].task # setting.remoteTaskList[p].task

TypeOK ==
  /\ setting \in Setting
  /\ now \in 0 .. setting.endTime /\ running \in BOOLEAN
  /\ appStop \in {Nothing, setting.stopTime}
  /\ arrived \in [Predecessor -> Nat]
  /\ currentIteration \in 0 .. setting.iterations
  /\ receivedData \in [Iteration -> Nat]
  /\ executionAvailabilityTime \in Nat
  /\ injectionStarted \in [Iteration -> BOOLEAN]
  /\ {startEvent, sendEvent} \subseteq [Iteration -> Nat \cup {Nothing}]
  /\ numberOfFlits \in 1 .. NumberOfFlits
  /\ flitIndex \in [Iteration -> Nat]
  /\ destinationIndex \in [Iteration -> 0 .. Len(setting.localTaskList)]
  /\ {taskBytes, totBytes, totFlits} \subseteq [Iteration -> Nat]
  /\ started \in Seq([iteration : Iteration, at : Nat])
  /\ sent \in [Iteration -> [Destinations -> Nat]]

Zero == [i \in Iteration |-> 0]
NoEvent == [i \in Iteration |-> Nothing]

Init ==
  /\ setting \in Setting
  /\ now = 0 /\ running = FALSE
  /\ appStop = IF setting.stopTime = 0 THEN Nothing ELSE setting.stopTime
  /\ arrived = [p \in Predecessor |-> 0]
  /\ currentIteration = 0 /\ receivedData = Zero
  /\ executionAvailabilityTime = 0
  /\ injectionStarted = [i \in Iteration |-> FALSE]
  /\ startEvent = NoEvent /\ sendEvent = NoEvent
  /\ numberOfFlits = NumberOfFlits
  /\ flitIndex = Zero /\ destinationIndex = Zero
  /\ taskBytes = Zero /\ totBytes = Zero /\ totFlits = Zero
  /\ started = <<>>
  /\ sent = [i \in Iteration |-> [k \in Destinations |-> 0]]

MaxTime(t, u) == IF t > u THEN t ELSE u

\* Mutant: the core starts a new execution while it is still executing.
StartTimeAtOnce(i, available) ==
  NextClock(now + setting.totalExecTime
              + (IF ContainsNotDependentTask THEN setting.period * i ELSE 0))

\* When iteration i starts to send, for a core that executes until `available': its
\* own execution takes totalExecTime, sources add the period.
StartTime(i, available) ==
  NextClock(MaxTime(now, available) + setting.totalExecTime
              + (IF ContainsNotDependentTask THEN setting.period * i ELSE 0))

\* ScheduleStartEvent for an iteration that is ready.
ScheduleStartEvent(i) ==
  \E t \in StartTime(i, executionAvailabilityTime) :
    /\ startEvent' = [startEvent EXCEPT ![i] = t]
    /\ injectionStarted' = [injectionStarted EXCEPT ![i] = TRUE]
    /\ executionAvailabilityTime' = t
    /\ started' = Append(started, [iteration |-> i, at |-> t])

\* What ScheduleStartEvent finds for all iterations, one after the other, at the start
\* of the simulation: each waits for the execution of the one before.
LatestStart ==
  setting.iterations
    * (setting.totalExecTime + setting.period * setting.iterations + 2 * Clock)

StartTimes ==
  {at \in [Iteration -> 0 .. LatestStart] :
     \A i \in Iteration :
       at[i] \in StartTime(i, IF i = 0 THEN executionAvailabilityTime ELSE at[i - 1])}

\* A node that waits for nobody schedules all its iterations.
StartApplication ==
  /\ ~running /\ now = 0
  /\ running' = TRUE
  /\ IF (ContainsNotDependentTask \/ TotalData = 0) /\ setting.localTaskList # <<>>
     THEN \E at \in StartTimes :
            /\ startEvent' = at
            /\ injectionStarted' = [i \in Iteration |-> TRUE]
            /\ executionAvailabilityTime' = at[setting.iterations - 1]
            /\ started' = [k \in 1 .. setting.iterations |->
                            [iteration |-> k - 1, at |-> at[k - 1]]]
     ELSE UNCHANGED <<startEvent, starts>>
  /\ UNCHANGED <<setting, now, appStop, received, sendEvent, sending>>

\* The events of every iteration, also when ScheduleNextTx calls it for one of them.
CancelSendOnly == sendEvent' = NoEvent /\ UNCHANGED startEvent          \* mutant
CancelEvents == startEvent' = NoEvent /\ sendEvent' = NoEvent

\* The stop was scheduled first, so it comes before the other events of its time.
StopApplication ==
  /\ appStop = now
  /\ appStop' = Nothing
  /\ CancelEvents
  /\ UNCHANGED <<setting, now, running, received, starts, sending>>

OthersAreDue == running /\ appStop # now

\* Mutant: the core executes several iterations at once.
ExecuteAtOnce ==
  /\ executionAvailabilityTime' = now + setting.totalExecTime
  /\ UNCHANGED <<startEvent, injectionStarted, started>>

\* What a core without local tasks does when it has its data: it executes.
ExecuteOnly ==
  /\ executionAvailabilityTime' = MaxTime(now, executionAvailabilityTime) + setting.totalExecTime
  /\ UNCHANGED <<startEvent, injectionStarted, started>>

\* Mutant: the node stays at its iteration.
SameIteration(i) == i
NextIteration(i) == i + 1

\* Mutant: more data is waited for than there is.
IsCompleteBeyond(data, i) == i < setting.iterations /\ data[i] > TotalData
IsComplete(data, i) == i < setting.iterations /\ data[i] >= TotalData

\* A flit of p arrives.  Only the current iteration is looked at: when it has its data
\* it is started, unless StartApplication has done so.
FlitReceivedCallback(p) ==
  LET flit     == setting.remoteTaskList[p].flits[arrived[p] + 1]
      data     == [receivedData EXCEPT ![flit.iteration] = @ + flit.bytes]
      i        == currentIteration
  IN /\ OthersAreDue /\ arrived[p] < Len(setting.remoteTaskList[p].flits)
     /\ arrived' = [arrived EXCEPT ![p] = @ + 1]
     /\ IF IsComplete(data, i)
        THEN /\ receivedData' = [data EXCEPT ![i] = TotalData]
             /\ currentIteration' = NextIteration(i)
             /\ IF setting.localTaskList = <<>> THEN ExecuteOnly
                ELSE IF /\ ~ContainsNotDependentTask
                        /\ destinationIndex[i] < Len(setting.localTaskList)
                THEN ScheduleStartEvent(i)
                ELSE UNCHANGED <<startEvent, starts>>
        ELSE receivedData' = data /\ UNCHANGED <<currentIteration, startEvent, starts>>
     /\ UNCHANGED <<setting, now, running, appStop, sendEvent, sending>>

\* Mutant: the limit is tested one flit too late.
MayContinueAtLimit(bytes, flits) ==
  /\ setting.maxBytes = 0 \/ bytes <= setting.maxBytes
  /\ setting.maxFlits = 0 \/ flits <= setting.maxFlits

MayContinue(bytes, flits) ==
  /\ setting.maxBytes = 0 \/ bytes < setting.maxBytes
  /\ setting.maxFlits = 0 \/ flits < setting.maxFlits

\* ScheduleNextTx (i), when i has sent that many bytes and flits; `starting' are the
\* start events that are left.
ScheduleNextTx(i, bytes, flits, starting) ==
  IF MayContinue(bytes, flits)
  THEN /\ startEvent' = starting
       /\ \E t \in IF bytes = 0 THEN {now} ELSE NextClock(now) :
            sendEvent' = [sendEvent EXCEPT ![i] = t]
  ELSE CancelEvents

StartSending(i) ==
  /\ startEvent[i] = now /\ OthersAreDue
  /\ ScheduleNextTx(i, totBytes[i], totFlits[i], [startEvent EXCEPT ![i] = Nothing])
  /\ UNCHANGED <<setting, now, running, appStop, received, starts, sending>>

\* Mutant: a last, partial flit is forgotten.
FlitsRoundedDown(data) == data \div FlitBytes

\* The flits that `data' bytes need, the head flit carrying less.
FlitsFor(data) ==
  LET full == (data + FlitBytes - 1) \div FlitBytes
  IN IF (full - 1) * FlitBytes + HeadBytes < data THEN full + 1 ELSE full

\* Mutant: the index stays at the destination that is skipped.
SkipSelfAgain(i) ==
  /\ ScheduleNextTx(i, totBytes[i], totFlits[i], startEvent)
  /\ UNCHANGED <<destinationIndex, flitIndex, taskBytes, totBytes, totFlits, sent>>

\* A destination on the node itself is skipped, unless it is the last one.
SkipSelf(i) ==
  /\ IF destinationIndex[i] < Len(setting.localTaskList) - 1
     THEN /\ destinationIndex' = [destinationIndex EXCEPT ![i] = @ + 1]
          /\ ScheduleNextTx(i, totBytes[i], totFlits[i], startEvent)
     ELSE /\ sendEvent' = [sendEvent EXCEPT ![i] = Nothing]
          /\ UNCHANGED <<startEvent, destinationIndex>>
  /\ UNCHANGED <<flitIndex, taskBytes, totBytes, totFlits, sent>>

\* Mutant: the bytes of the next destination are added to those of this one.
BytesKept(bytes, allSent) == bytes

\* m_totalTaskBytes after a flit: the next destination starts at zero.
BytesAfter(bytes, allSent) == IF allSent THEN 0 ELSE bytes

\* A packet ends with the number of flits there is now, or with the data.
InjectFlit(i, dtd) ==
  LET size    == IF flitIndex[i] = 0 THEN HeadBytes ELSE FlitBytes
      bytes   == taskBytes[i] + size
      allSent == bytes >= dtd.data
      k       == destinationIndex[i] + 1
      next    == IF allSent THEN k ELSE k - 1
  IN /\ flitIndex' = [flitIndex EXCEPT
                        ![i] = IF allSent \/ @ + 1 = numberOfFlits' THEN 0 ELSE @ + 1]
     /\ taskBytes' = [taskBytes EXCEPT ![i] = BytesAfter(bytes, allSent)]
     /\ totBytes' = [totBytes EXCEPT ![i] = @ + size]
     /\ totFlits' = [totFlits EXCEPT ![i] = @ + 1]
     /\ destinationIndex' = [destinationIndex EXCEPT ![i] = next]
     /\ sent' = [sent EXCEPT ![i][k] = @ + size]
     /\ IF next < Len(setting.localTaskList)
        THEN ScheduleNextTx(i, totBytes[i] + size, totFlits[i] + 1, startEvent)
        ELSE /\ sendEvent' = [sendEvent EXCEPT ![i] = Nothing]
             /\ UNCHANGED startEvent

\* The number of flits of a packet is cut to what this destination needs, for all
\* iterations and for good.
SendFlit(i) ==
  LET dtd == setting.localTaskList[destinationIndex[i] + 1]
  IN /\ sendEvent[i] = now /\ OthersAreDue
     /\ numberOfFlits' = IF numberOfFlits > FlitsFor(dtd.data) THEN FlitsFor(dtd.data)
                         ELSE numberOfFlits
     /\ IF dtd.node = Self THEN SkipSelf(i) ELSE InjectFlit(i, dtd)
     /\ UNCHANGED <<setting, now, running, appStop, received, starts>>

\* Simulator: time advances when no event is due.
Tick ==
  /\ OthersAreDue /\ now < setting.endTime
  /\ \A i \in Iteration : startEvent[i] # now /\ sendEvent[i] # now
  /\ now' = now + 1
  /\ UNCHANGED <<setting, running, appStop, received, starts, startEvent, sendEvent, sending>>

Next ==
  \/ StartApplication
  \/ StopApplication
  \/ \E p \in Predecessor : FlitReceivedCallback(p)
  \/ \E i \in Iteration : StartSending(i)
  \/ \E i \in Iteration : SendFlit(i)
  \/ Tick

Spec == Init /\ [][Next]_ctgVars

\* The events happen: the simulator runs until none is left.
FairSpec == Spec /\ WF_ctgVars(Next)

(***************************************************************************)
(* What a node expects of its predecessors: the bytes that the first n     *)
(* flits of p bring for iteration i, and that at any time an iteration has *)
(* got as much of each predecessor as a later one, because a node starts   *)
(* its iterations in turn and sends a flit of each per clock cycle, of the *)
(* same size but for packets that SendFlit cuts in the middle.             *)
(***************************************************************************)
BytesBrought(s, p, n, i) ==
  LET flits == s.remoteTaskList[p].flits
  IN UNION {{<<p, k, b>> : b \in 1 .. flits[k].bytes} :
              k \in {k \in 1 .. n : flits[k].iteration = i}}

IterationsInOrder(s) ==
  \A p \in DOMAIN s.remoteTaskList, i, j \in 0 .. s.iterations - 1 :
    i < j => \A n \in 0 .. Len(s.remoteTaskList[p].flits) :
               Cardinality(BytesBrought(s, p, n, j)) <= Cardinality(BytesBrought(s, p, n, i))

(***************************************************************************)
(* Properties.                                                             *)
(***************************************************************************)

\* A destination gets its data in every iteration, and less than a flit more, however
\* the iterations overlap and packets are cut; the next one starts from nothing.
SendsTheData ==
  \A i \in Iteration, k \in Destinations :
    LET data == setting.localTaskList[k].data
    IN setting.localTaskList[k].node # Self =>
         /\ k <= destinationIndex[i] => sent[i][k] \in data .. data + FlitBytes - 1
         /\ k > destinationIndex[i] => sent[i][k] < data

\* No iteration is started twice, and a dependent one only after as much data as all
\* predecessors send in it has arrived.
StartsOnce ==
  /\ \A j, k \in 1 .. Len(started) : started[j].iteration = started[k].iteration => j = k
  /\ ~ContainsNotDependentTask =>
       \A k \in 1 .. Len(started) : receivedData[started[k].iteration] >= TotalData

\* The core executes one iteration after the other, each for its whole time.
ExecutionsApart ==
  \A k \in 1 .. Len(started) :
    started[k].at - (IF k = 1 THEN 0 ELSE started[k - 1].at) >= setting.totalExecTime

\* Also where nothing is sent: all executions so far fit before the time the core is
\* available again.
ExecutesInTurn ==
  setting.localTaskList = <<>> =>
    executionAvailabilityTime >= currentIteration * setting.totalExecTime

\* Each limit holds for every iteration, also where two iterations send and the packets are
\* cut.  As in NocSyncApplication the first limit stops the code, not both as its help says.
RespectsLimits ==
  \A i \in Iteration :
    /\ setting.maxFlits > 0 => totFlits[i] <= setting.maxFlits
    /\ setting.maxBytes > 0 => totBytes[i] < setting.maxBytes + FlitBytes

\* No iteration is overlooked: when its data has arrived it is started, although a
\* flit is only compared with the current iteration and advances it by one at most.
NoIterationLost ==
  \A i \in Iteration : running /\ TotalData > 0 /\ receivedData[i] >= TotalData =>
    /\ currentIteration > i
    /\ setting.localTaskList # <<>> => injectionStarted[i]

\* A source injects nothing from the stop time on, although the events of several
\* iterations are pending.  (A node that receives flits is started again by them.)
StopIsFinal ==
  [][Predecessor = {} /\ setting.stopTime \in 1 .. now => totFlits' = totFlits]_ctgVars

\* A source without stop and limits sends everything in the end.
AllIsSent ==
  <>(Predecessor = {} /\ {setting.stopTime, setting.maxBytes, setting.maxFlits} = {0} =>
       \A i \in Iteration : destinationIndex[i] = Len(setting.localTaskList))

=============================================================================
