-------------------------- MODULE NsEmuDeviceProofs --------------------------
(***************************************************************************)
(* Theorems about NsEmuDevice, for every limit of pending reads, all       *)
(* delays and every bound.                                                 *)
(***************************************************************************)
EXTENDS NsEmuDevice, FiniteSetTheorems, TLAPS

Forwards == {e \in events : e.kind = "forward"}

\* The reads that the thread has counted for a frame it has not handed over yet
InThread == IF reader \in {"receive", "blocked", "schedule"} THEN 1 ELSE 0

-----------------------------------------------------------------------------
\* The inductive invariant

\* Start and Stop cancel no event of the read thread
CancelsNoForward ==
    /\ startEvent < uid
    /\ \A e \in events : e.uid < uid
    /\ \A e \in Forwards : e.uid # startEvent

\* A device without a thread object has no thread
ThreadIsKnown == ~readThread => reader = "none"

Accounted == IsFiniteSet(Forwards) /\ pendingReads = Cardinality(Forwards) + exits + InThread

IInv == TypeOK /\ CancelsNoForward /\ ThreadIsKnown /\ Accounted

-----------------------------------------------------------------------------

LEMMA InitIInv == ASSUME Init PROVE IInv
  <1>1. TypeOK
    <2>1. [ts |-> 0, uid |-> 4, kind |-> "start"] \in Event
      BY DEF Event
    <2>2. events \in SUBSET Event
      BY <2>1 DEF Init
    <2> QED
      BY <2>2 DEF Init, TypeOK
  <1>2. Forwards = {}
    BY DEF Init, Forwards
  <1>3. CancelsNoForward /\ ThreadIsKnown
    BY <1>2 DEF Init, CancelsNoForward, ThreadIsKnown
  <1>4. Accounted
    BY <1>2, FS_EmptySet DEF Init, Accounted, InThread
  <1> QED
    BY <1>1, <1>3, <1>4 DEF IInv

\* What a step that leaves the forward events and the thread alone has to show
LEMMA ForwardsUnchanged ==
    ASSUME Accounted, Forwards' = Forwards, UNCHANGED << pendingReads, reader, exits >>
    PROVE  Accounted'
  BY DEF Accounted, InThread

\* Start and Stop: an event that is not a forward event is added, and one may be cancelled
LEMMA CallIInv ==
    ASSUME IInv, NEW delay \in Delays, Start(delay) \/ Stop(delay)
    PROVE  IInv'
  <1> DEFINE start == [ts |-> currentTs + delay, uid |-> uid, kind |-> "start"]
             stop  == [ts |-> currentTs + delay, uid |-> uid, kind |-> "stop"]
  <1>1. start \in Event /\ stop \in Event
    BY EmuAssumption DEF IInv, TypeOK, Event
  <1>2. PICK ev \in {start, stop} :
          /\ events' \subseteq events \union {ev}
          /\ \A e \in events : e.uid # startEvent => e \in events'
    BY DEF Start, Stop, Scheduled
  <1>3. Forwards' = Forwards
    BY <1>2 DEF IInv, CancelsNoForward, Forwards
  <1>4. TypeOK'
    BY <1>1, <1>2 DEF IInv, TypeOK, Start, Stop, readerVars
  <1>5. CancelsNoForward'
    BY <1>2, <1>3 DEF IInv, TypeOK, Event, CancelsNoForward, Forwards, Start, Stop
  <1>6. ThreadIsKnown'
    BY DEF IInv, ThreadIsKnown, Start, Stop, readerVars
  <1>7. Accounted'
    BY <1>3, ForwardsUnchanged DEF IInv, Start, Stop, readerVars
  <1> QED
    BY <1>4, <1>5, <1>6, <1>7 DEF IInv

\* The main thread handles an event
LEMMA ProcessIInv == ASSUME IInv, ProcessOneEvent PROVE IInv'
  <1>1. PICK e \in events :
          /\ events' = events \ {e}
          /\ currentTs' = e.ts
          /\ \/ e.kind = "start" /\ StartDevice
             \/ e.kind = "stop" /\ StopDevice("joining")
             \/ e.kind = "forward" /\ ForwardUp
          /\ UNCHANGED << now, uid, startEvent, calls >>
    BY DEF ProcessOneEvent
  <1>2. e \in Event
    BY DEF IInv, TypeOK
  <1>3. events' \in SUBSET Event /\ currentTs' \in Nat
    BY <1>1, <1>2 DEF IInv, TypeOK, Event
  <1>4. CancelsNoForward'
    BY <1>1 DEF IInv, CancelsNoForward, Forwards
  <1>5. CASE e.kind = "start" /\ StartDevice
    <2>1. Forwards' = Forwards
      BY <1>1, <1>5 DEF Forwards
    <2>2. TypeOK'
      BY <1>1, <1>3, <1>5 DEF IInv, TypeOK, StartDevice, readerVars
    <2>3. ThreadIsKnown'
      BY <1>5 DEF IInv, TypeOK, ThreadIsKnown, StartDevice, readerVars
    <2>4. Accounted'
      BY <2>1, <1>5 DEF IInv, ThreadIsKnown, Accounted, InThread, StartDevice, readerVars
    <2> QED
      BY <1>4, <2>2, <2>3, <2>4 DEF IInv
  <1>6. CASE e.kind = "stop" /\ StopDevice("joining")
    <2>1. Forwards' = Forwards
      BY <1>1, <1>6 DEF Forwards
    <2>2. TypeOK'
      BY <1>1, <1>3, <1>6 DEF IInv, TypeOK, StopDevice, readerVars
    <2>3. ThreadIsKnown'
      BY <1>6 DEF IInv, ThreadIsKnown, StopDevice, readerVars
    <2>4. Accounted'
      BY <2>1, <1>6, ForwardsUnchanged DEF IInv, StopDevice, readerVars
    <2> QED
      BY <1>4, <2>2, <2>3, <2>4 DEF IInv
  <1>7. CASE e.kind = "forward" /\ ForwardUp
    <2>1. Forwards' = Forwards \ {e} /\ e \in Forwards
      BY <1>1, <1>7 DEF Forwards
    <2>2. IsFiniteSet(Forwards') /\ Cardinality(Forwards') = Cardinality(Forwards) - 1
      BY <2>1, FS_RemoveElement DEF IInv, Accounted
    <2>3. Cardinality(Forwards) \in Nat /\ Cardinality(Forwards') \in Nat
      BY <2>2, FS_CardinalityType DEF IInv, Accounted
    <2>4. InThread \in {0, 1} /\ InThread' = InThread /\ exits' = exits
      BY <1>7 DEF InThread, ForwardUp
    <2>5. Accounted'
      BY <2>2, <2>3, <2>4, <1>7 DEF IInv, TypeOK, Accounted, ForwardUp
    <2>6. pendingReads' \in Nat
      BY <2>3, <2>4, <2>5 DEF IInv, TypeOK, Accounted
    <2>7. TypeOK'
      BY <1>1, <1>3, <1>7, <2>6 DEF IInv, TypeOK, ForwardUp
    <2>8. ThreadIsKnown'
      BY <1>7 DEF IInv, ThreadIsKnown, ForwardUp
    <2> QED
      BY <1>4, <2>5, <2>7, <2>8 DEF IInv
  <1> QED
    BY <1>1, <1>5, <1>6, <1>7

\* The other steps of the main thread
LEMMA MainIInv == ASSUME IInv, Joined \/ DoDispose \/ Tick PROVE IInv'
  <1>1. Forwards' = Forwards
    BY DEF Joined, DoDispose, Tick, simVars, Forwards
  <1>2. CancelsNoForward'
    BY <1>1 DEF IInv, CancelsNoForward, Joined, DoDispose, Tick, simVars
  <1>3. TypeOK'
    <2>1. CASE Joined
      BY <2>1 DEF IInv, TypeOK, Joined, simVars
    <2>2. CASE DoDispose /\ readThread
      BY <2>2 DEF IInv, TypeOK, DoDispose, StopDevice, simVars, readerVars
    <2>3. CASE DoDispose /\ ~readThread
      BY <2>3 DEF IInv, TypeOK, DoDispose, simVars, readerVars
    <2>4. CASE Tick
      BY <2>4 DEF IInv, TypeOK, Tick, simVars, readerVars
    <2> QED
      BY <2>1, <2>2, <2>3, <2>4
  <1>4. ThreadIsKnown'
    BY DEF IInv, ThreadIsKnown, Joined, DoDispose, StopDevice, Tick, readerVars
  <1>5. Accounted'
    BY <1>1 DEF IInv, Accounted, InThread, Joined, DoDispose, StopDevice, Tick, readerVars
  <1> QED
    BY <1>2, <1>3, <1>4, <1>5 DEF IInv

\* The read thread, up to the event that it schedules
LEMMA ReaderIInv ==
    ASSUME IInv, CountRead \/ Sleep \/ CallReceive \/ FrameArrives
    PROVE  IInv'
  <1>1. Forwards' = Forwards
    BY DEF CountRead, Sleep, CallReceive, FrameArrives, ReaderGoesTo,
       ReadThreadEnds, simVars, Forwards
  <1>2. CancelsNoForward'
    BY <1>1 DEF IInv, CancelsNoForward, CountRead, Sleep, CallReceive,
       FrameArrives, ReaderGoesTo, ReadThreadEnds, simVars
  <1>3. TypeOK'
    BY DEF IInv, TypeOK, CountRead, Sleep, CallReceive, FrameArrives,
       ReaderGoesTo, ReadThreadEnds, simVars
  <1>4. ThreadIsKnown'
    BY DEF IInv, ThreadIsKnown, CountRead, Sleep, CallReceive, FrameArrives,
       ReaderGoesTo, ReadThreadEnds
  <1>5. Accounted'
    <2>1. Cardinality(Forwards) \in Nat
      BY FS_CardinalityType DEF IInv, Accounted
    <2>2. pendingReads' = Cardinality(Forwards) + exits' + InThread'
      BY <2>1 DEF IInv, TypeOK, Accounted, InThread, CountRead, Sleep, CallReceive,
         FrameArrives, ReaderGoesTo, ReadThreadEnds
    <2> QED
      BY <1>1, <2>2 DEF IInv, Accounted
  <1> QED
    BY <1>2, <1>3, <1>4, <1>5 DEF IInv

\* The read is counted for the event from now on
LEMMA ScheduleForwardUpIInv == ASSUME IInv, ScheduleForwardUp PROVE IInv'
  <1> DEFINE ev == [ts |-> now, uid |-> uid, kind |-> "forward"]
  <1>1. ev \in Event /\ ev \notin events /\ events' = events \union {ev}
    BY DEF IInv, TypeOK, Event, CancelsNoForward, ScheduleForwardUp, Scheduled
  <1>2. Forwards' = Forwards \union {ev} /\ ev \notin Forwards
    BY <1>1 DEF Forwards
  <1>3. IsFiniteSet(Forwards') /\ Cardinality(Forwards') = Cardinality(Forwards) + 1
    BY <1>2, FS_AddElement DEF IInv, Accounted
  <1>4. Cardinality(Forwards) \in Nat
    BY FS_CardinalityType DEF IInv, Accounted
  <1>5. Accounted'
    BY <1>3, <1>4 DEF IInv, TypeOK, Accounted, InThread, ScheduleForwardUp
  <1>6. TypeOK'
    BY <1>1 DEF IInv, TypeOK, ScheduleForwardUp
  <1>7. CancelsNoForward'
    BY <1>1, <1>2 DEF IInv, TypeOK, Event, CancelsNoForward, ScheduleForwardUp
  <1>8. ThreadIsKnown'
    BY DEF IInv, ThreadIsKnown, ScheduleForwardUp
  <1> QED
    BY <1>5, <1>6, <1>7, <1>8 DEF IInv

LEMMA NextIInv == ASSUME IInv, [Next]_vars PROVE IInv'
  <1>1. CASE \E delay \in Delays : Start(delay) \/ Stop(delay)
    BY <1>1, CallIInv
  <1>2. CASE ProcessOneEvent
    BY <1>2, ProcessIInv
  <1>3. CASE Joined \/ DoDispose \/ Tick
    BY <1>3, MainIInv
  <1>4. CASE CountRead \/ Sleep \/ CallReceive \/ FrameArrives
    BY <1>4, ReaderIInv
  <1>5. CASE ScheduleForwardUp
    BY <1>5, ScheduleForwardUpIInv
  <1>6. CASE UNCHANGED vars
    BY <1>6 DEF vars, IInv, TypeOK, CancelsNoForward, ThreadIsKnown, Accounted, InThread, Forwards
  <1> QED
    BY <1>1, <1>2, <1>3, <1>4, <1>5, <1>6 DEF Next, ReaderStep

LEMMA Invariant == Spec => []IInv
  <1>1. Init => IInv
    BY InitIInv
  <1>2. IInv /\ [Next]_vars => IInv'
    BY NextIInv
  <1> QED
    BY <1>1, <1>2, PTL DEF Spec

\* The members of EmuNetDevice keep their types; m_pendingReadCount, which is unsigned in
\* the code, never goes below zero.
THEOREM EmuTypeCorrect == Spec => []TypeOK
  <1>1. IInv => TypeOK
    BY DEF IInv
  <1> QED
    BY <1>1, Invariant, PTL

\* m_pendingReadCount counts the frames on their way from the read thread to ForwardUp, and
\* the threads that ended, whatever the order of starts, stops, frames and failing calls.
THEOREM ReadsAreAccounted == Spec => []PendingIsAccounted
  <1>1. IInv => PendingIsAccounted
    BY DEF IInv, Accounted, InThread, Forwards, PendingIsAccounted
  <1> QED
    BY <1>1, Invariant, PTL
=============================================================================
