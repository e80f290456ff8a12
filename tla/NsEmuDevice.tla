----------------------------- MODULE NsEmuDevice -----------------------------
(***************************************************************************)
(* The read thread of an EmuNetDevice and the main thread that starts and  *)
(* stops the device and handles the frames that were read. The simulator   *)
(* is what NsRealtime promises: the main thread takes the earliest event   *)
(* once the wall clock has reached its time.                               *)
(*                                                                         *)
(* Stop stores its event in m_startEvent, and m_stopEvent stays null.      *)
(***************************************************************************)
EXTENDS Integers, FiniteSets

CONSTANTS
    Delays,             \* the delays that Start and Stop are called with
    MaxPendingReads,    \* m_maxPendingReads
    MaxTime,            \* bound: the wall clock stands still from here on
    MaxCalls,           \* bound: how often the program calls Start or Stop
    MaxFrames           \* bound: how many frames arrive

ASSUME EmuAssumption ==
    /\ Delays \subseteq Nat
    /\ MaxPendingReads \in Nat /\ MaxTime \in Nat /\ MaxCalls \in Nat /\ MaxFrames \in Nat

VARIABLES
    now,            \* the real time of the simulator
    events,         \* the events that are not cancelled
    currentTs,      \* the time of the last event
    uid,            \* m_uid of the simulator
    startEvent,     \* m_startEvent: the UID of its event
    sock,           \* m_sock is not -1
    readThread,     \* m_readThread is not 0
    pendingReads,   \* m_pendingReadCount
    reader,         \* where the read thread is
    main,           \* where the main thread is
    calls,          \* how often Start or Stop was called
    frames,         \* history: the frames that arrived
    exits,          \* history: the read threads that ended
    failed          \* NS_FATAL_ERROR or an assertion

vars == << now, events, currentTs, uid, startEvent, sock, readThread, pendingReads, reader,
           main, calls, frames, exits, failed >>

simVars    == << events, currentTs, uid, startEvent, calls >>
readerVars == << pendingReads, reader, frames, exits >>

Event == [ts : Nat, uid : Nat, kind : {"start", "stop", "forward"}]

TypeOK ==
    /\ now \in Nat /\ events \in SUBSET Event
    /\ currentTs \in Nat /\ uid \in Nat /\ startEvent \in Nat
    /\ sock \in BOOLEAN /\ readThread \in BOOLEAN /\ failed \in BOOLEAN
    /\ pendingReads \in Nat
    /\ reader \in {"none", "count", "skip", "receive", "blocked", "schedule", "ended"}
    /\ main \in {"running", "joining", "disposing", "disposed"}
    /\ calls \in Nat /\ frames \in Nat /\ exits \in Nat

\* The constructor calls Start
Init ==
    /\ now = 0 /\ currentTs = 0
    /\ events = {[ts |-> 0, uid |-> 4, kind |-> "start"]} /\ uid = 5 /\ startEvent = 4
    /\ sock = FALSE /\ readThread = FALSE
    /\ pendingReads = 0 /\ reader = "none"
    /\ main = "running"
    /\ calls = 0 /\ frames = 0 /\ exits = 0
    /\ failed = FALSE

Tick ==
    /\ now < MaxTime
    /\ now' = now + 1
    /\ UNCHANGED << simVars, readerVars, sock, readThread, main, failed >>

-----------------------------------------------------------------------------
\* The main thread

MainRuns == main = "running" /\ ~failed

Scheduled(ts, kind) == events \union {[ts |-> ts, uid |-> uid, kind |-> kind]}

\* Start, before the simulation or in an event. What m_startEvent refers to is cancelled.
Start(delay) ==
    /\ MainRuns /\ calls < MaxCalls
    /\ events' = {e \in Scheduled(currentTs + delay, "start") : e.uid # startEvent}
    /\ startEvent' = uid /\ uid' = uid + 1
    /\ calls' = calls + 1
    /\ UNCHANGED << now, currentTs, readerVars, sock, readThread, main, failed >>

\* Stop: there is never a m_stopEvent to cancel
Stop(delay) ==
    /\ MainRuns /\ calls < MaxCalls
    /\ events' = Scheduled(currentTs + delay, "stop")
    /\ startEvent' = uid /\ uid' = uid + 1
    /\ calls' = calls + 1
    /\ UNCHANGED << now, currentTs, readerVars, sock, readThread, main, failed >>

\* StartDevice: the device must be stopped
StartDevice ==
    IF sock \/ readThread
    THEN failed' = TRUE /\ UNCHANGED << sock, readThread, readerVars, main >>
    ELSE /\ sock' = TRUE /\ readThread' = TRUE
         /\ reader' = "count"
         /\ UNCHANGED << pendingReads, frames, exits, main, failed >>

\* StopDevice up to Join
StopDevice(place) ==
    /\ sock' = FALSE
    /\ failed' = ~readThread
    /\ main' = IF readThread THEN place ELSE main
    /\ UNCHANGED << readThread, readerVars >>

\* mutant: the count is not lowered
ForwardUpUncounted ==
    UNCHANGED << pendingReads, reader, frames, exits, sock, readThread, main, failed >>

\* ForwardUp, as far as the read thread is concerned
ForwardUp ==
    /\ pendingReads' = pendingReads - 1
    /\ UNCHANGED << reader, frames, exits, sock, readThread, main, failed >>

Earliest(e) ==
    \A other \in events \ {e} : e.ts < other.ts \/ (e.ts = other.ts /\ e.uid < other.uid)

ProcessOneEvent ==
    /\ MainRuns
    /\ \E e \in events :
          /\ Earliest(e) /\ e.ts <= now
          /\ events' = events \ {e}
          /\ currentTs' = e.ts
          /\ \/ e.kind = "start" /\ StartDevice
             \/ e.kind = "stop" /\ StopDevice("joining")
             \/ e.kind = "forward" /\ ForwardUp
    /\ UNCHANGED << now, uid, startEvent, calls >>

\* Join, and the end of StopDevice
Joined ==
    /\ main \in {"joining", "disposing"} /\ reader = "ended"
    /\ readThread' = FALSE /\ reader' = "none"
    /\ main' = IF main = "joining" THEN "running" ELSE "disposed"
    /\ UNCHANGED << now, simVars, pendingReads, frames, exits, sock, failed >>

\* DoDispose, after the simulation
DoDispose ==
    /\ MainRuns
    /\ IF readThread THEN StopDevice("disposing")
       ELSE main' = "disposed" /\ UNCHANGED << sock, readThread, readerVars, failed >>
    /\ UNCHANGED << now, simVars >>

-----------------------------------------------------------------------------
\* ReadThread

ReaderGoesTo(place) ==
    /\ reader' = place
    /\ UNCHANGED << now, simVars, pendingReads, frames, exits, sock, readThread, main, failed >>

\* The critical section of m_pendingReadMutex
CountRead ==
    /\ reader = "count"
    /\ IF pendingReads >= MaxPendingReads THEN ReaderGoesTo("skip")
       ELSE /\ pendingReads' = pendingReads + 1
            /\ reader' = "receive"
            /\ UNCHANGED << now, simVars, frames, exits, sock, readThread, main, failed >>

\* nanosleep, and another attempt
Sleep == reader = "skip" /\ ReaderGoesTo("count")

\* mutant: a failed call is repeated
ReadThreadRetries == ReaderGoesTo("receive")

\* recvfrom has failed; the read that was counted stays counted
ReadThreadEnds ==
    /\ reader' = "ended"
    /\ exits' = exits + 1
    /\ UNCHANGED << now, simVars, pendingReads, frames, sock, readThread, main, failed >>

\* recvfrom, with the descriptor that m_sock is when it is called
CallReceive ==
    /\ reader = "receive"
    /\ IF sock THEN ReaderGoesTo("blocked") ELSE ReadThreadEnds

\* A frame arrives. A call that waits for one is not ended by close in another thread: it
\* keeps the socket of its descriptor, and returns with the next frame only.
FrameArrives ==
    /\ reader = "blocked" /\ frames < MaxFrames
    /\ frames' = frames + 1
    /\ reader' = "schedule"
    /\ UNCHANGED << now, simVars, pendingReads, exits, sock, readThread, main, failed >>

\* ScheduleRealtimeNowWithContext
ScheduleForwardUp ==
    /\ reader = "schedule"
    /\ events' = Scheduled(now, "forward")
    /\ uid' = uid + 1
    /\ reader' = "count"
    /\ UNCHANGED << now, currentTs, startEvent, calls, pendingReads, frames, exits, sock,
                    readThread, main, failed >>

-----------------------------------------------------------------------------

ReaderStep == CountRead \/ Sleep \/ CallReceive \/ ScheduleForwardUp

Next ==
    \/ Tick
    \/ \E delay \in Delays : Start(delay) \/ Stop(delay)
    \/ ProcessOneEvent \/ Joined \/ DoDispose
    \/ ReaderStep \/ FrameArrives

\* Both threads go on when they can, and time passes; frames need not arrive.
Spec == /\ Init /\ [][Next]_vars
        /\ WF_vars(Tick) /\ WF_vars(ProcessOneEvent) /\ WF_vars(Joined) /\ WF_vars(ReaderStep)

-----------------------------------------------------------------------------

\* m_pendingReadCount is the number of the frames that wait for ForwardUp, with the one that
\* is being read; but a thread that ends leaves its read counted, so that a device that was
\* stopped m_maxPendingReads times reads nothing any more.
PendingIsAccounted ==
    pendingReads = Cardinality({e \in events : e.kind = "forward"}) + exits
                   + IF reader \in {"receive", "blocked", "schedule"} THEN 1 ELSE 0

\* The read thread waits for a frame, or before a count that does not go down
AwaitsFrame == reader = "blocked"
AwaitsCount == reader \in {"count", "skip"} /\ pendingReads >= MaxPendingReads

\* StopDevice returns: the read thread finds the socket closed when it next reads, and ends.
\* Join hangs for two reasons only. No frame arrives any more for the call that was under way
\* when the socket was closed; or the count is at its limit, where the thread does not look
\* at the socket, and the main thread, which would lower the count, waits for it in Join.
StopReturns ==
    main \in {"joining", "disposing"} ~>
        \/ main \in {"running", "disposed"}
        \/ []AwaitsFrame
        \/ []AwaitsCount
=============================================================================
