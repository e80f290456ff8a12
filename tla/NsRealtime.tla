----------------------------- MODULE NsRealtime -----------------------------
(***************************************************************************)
(* RealtimeSimulatorImpl with its WallClockSynchronizer and the            *)
(* SystemCondition on which it waits. The main thread takes the events     *)
(* when the wall clock has reached their time; other threads, like the     *)
(* read threads of the emulated devices, schedule events in between.       *)
(*                                                                         *)
(* The critical sections of m_mutex of the main thread are single steps.   *)
(* Those of the other threads are three, because the condition that they   *)
(* set at their end is read without that mutex. The event list is the set  *)
(* of pending events, see NsSimulator.                                     *)
(***************************************************************************)
EXTENDS Integers, FiniteSets

CONSTANTS
    Threads,    \* the threads other than the main one
    Delays,     \* the delays that events are scheduled with
    Epoch,      \* the wall clock when the program starts
    Jiffy,      \* m_jiffy: the resolution of the wall clock
    Second,     \* NS_PER_SEC
    MaxClock,   \* bound: the wall clock stands still from here on
    MaxUid,     \* bound: no event is scheduled once m_uid has this value
    MaxRuns     \* bound: how often the program calls Run

ASSUME RealtimeAssumption ==
    /\ Delays \subseteq Nat
    /\ Epoch \in Nat /\ MaxClock \in Nat /\ MaxUid \in Nat /\ MaxRuns \in Nat
    /\ Jiffy \in Nat \ {0} /\ Second \in Nat \ {0}

ASSUME ThreadAssumption == "none" \notin Threads

VARIABLES
    clock,          \* what gettimeofday tells
    origin,         \* m_realtimeOriginNano
    simOrigin,      \* m_simOriginNano
    events,         \* m_events
    currentTs,      \* m_currentTs
    currentUid,     \* m_currentUid
    uid,            \* m_uid
    unscheduled,    \* m_unscheduledEvents
    running,        \* m_running
    stop,           \* m_stop
    runs,           \* how often Run was called
    mutex,          \* m_mutex: the thread other than the main one that holds it
    condition,      \* m_condition of the SystemCondition
    thread,         \* how far each thread is in a schedule operation
    pc,             \* where the main thread is
    waited,         \* tsNext of ProcessOneEvent: the time of the event that is waited for
    target,         \* tsNow + tsDelay
    wait,           \* the nanoseconds that TimedWait is called with
    deadline,       \* ts of TimedWait
    aborted         \* an assertion has failed

clockVars  == << clock, origin, simOrigin >>
listVars   == << events, currentTs, currentUid, uid, unscheduled >>
runVars    == << running, stop, runs >>
waitVars   == << waited, target, wait, deadline >>
threadVars == << mutex, thread >>
vars == << clockVars, listVars, runVars, waitVars, threadVars, condition, pc, aborted >>

Event == [ts : Nat, uid : Nat]

\* operator < of EventKey
Before(a, b) == a.ts < b.ts \/ (a.ts = b.ts /\ a.uid < b.uid)

Earliest(event) ==
    event \in events /\ \A other \in events \ {event} : Before(event, other)

\* Where the main thread is between Synchronize and the removal of the event
Waiting == {"drift correct", "arm", "check", "asleep", "drift", "spin", "spin condition"}

NoTime == [sec |-> 0, nsec |-> 0]

TypeOK ==
    /\ clock \in Nat /\ origin \in Nat /\ simOrigin \in Nat
    /\ events \in SUBSET Event
    /\ currentTs \in Nat /\ currentUid \in Nat /\ uid \in Nat /\ unscheduled \in Int
    /\ running \in BOOLEAN /\ stop \in BOOLEAN /\ runs \in Nat
    /\ mutex \in Threads \union {"none"}
    /\ condition \in BOOLEAN
    /\ thread \in [Threads -> {"elsewhere", "inserted", "condition set"}]
    /\ pc \in Waiting \union {"outside", "origin", "loop", "plan", "take", "event", "done",
                              "leave"}
    /\ waited \in Nat /\ target \in Nat /\ wait \in Nat
    /\ deadline \in [sec : Nat, nsec : Nat]
    /\ aborted \in BOOLEAN

Init ==
    /\ clock = Epoch /\ origin = 0 /\ simOrigin = 0
    /\ events = {}
    /\ currentTs = 0 /\ currentUid = 0 /\ uid = 4 /\ unscheduled = 0
    /\ running = FALSE /\ stop = FALSE /\ runs = 0
    /\ mutex = "none" /\ condition = FALSE
    /\ thread = [t \in Threads |-> "elsewhere"]
    /\ pc = "outside"
    /\ waited = 0 /\ target = 0 /\ wait = 0 /\ deadline = NoTime
    /\ aborted = FALSE

Tick ==
    /\ clock < MaxClock
    /\ clock' = clock + 1
    /\ UNCHANGED << origin, simOrigin, listVars, runVars, waitVars, threadVars, condition,
                    pc, aborted >>

\* GetNormalizedRealtime
RealNow == clock - origin

Abort ==
    /\ aborted' = TRUE
    /\ UNCHANGED << clockVars, listVars, runVars, waitVars, threadVars, condition, pc >>

\* The program goes on only while no assertion has failed
MainAt(place) == pc = place /\ ~aborted

MainEnters(place) == MainAt(place) /\ mutex = "none"

-----------------------------------------------------------------------------
\* The schedule operations

\* ScheduleRealtimeNowWithContext
NowTs == IF running THEN RealNow ELSE currentTs

\* The time of a new event: that of Schedule, ScheduleNow and ScheduleWithContext, that of
\* ScheduleRealtimeWithContext, that of ScheduleRealtimeNowWithContext
NewTimes == {currentTs + d : d \in Delays} \union {RealNow + d : d \in Delays} \union {NowTs}

Insert(ts) ==
    /\ events' = events \union {[ts |-> ts, uid |-> uid]}
    /\ uid' = uid + 1
    /\ unscheduled' = unscheduled + 1
    /\ UNCHANGED << currentTs, currentUid >>

\* A thread schedules an event, up to its call of Signal
ThreadInserts(t) ==
    /\ ~aborted /\ mutex = "none" /\ uid < MaxUid
    /\ \E ts \in NewTimes :
          IF ts < currentTs THEN Abort
          ELSE /\ Insert(ts)
               /\ mutex' = t
               /\ thread' = [thread EXCEPT ![t] = "inserted"]
               /\ UNCHANGED << clockVars, runVars, waitVars, condition, pc, aborted >>

\* DoSignal: SetCondition (true), without a mutex
ThreadSetsCondition(t) ==
    /\ thread[t] = "inserted"
    /\ condition' = TRUE
    /\ thread' = [thread EXCEPT ![t] = "condition set"]
    /\ UNCHANGED << clockVars, listVars, runVars, waitVars, mutex, pc, aborted >>

\* DoSignal: Signal, with the mutex of the SystemCondition, and the end of the operation
ThreadSignals(t) ==
    /\ thread[t] = "condition set"
    /\ pc' = IF pc = "asleep" THEN "check" ELSE pc
    /\ mutex' = "none"
    /\ thread' = [thread EXCEPT ![t] = "elsewhere"]
    /\ UNCHANGED << clockVars, listVars, runVars, waitVars, condition, aborted >>

\* What the main program does before and after Run, and an event while it is handled
MainCalls == mutex = "none" /\ (MainAt("outside") \/ MainAt("event"))

MainSchedules ==
    /\ MainCalls /\ uid < MaxUid
    /\ \E ts \in NewTimes :
          IF ts < currentTs THEN Abort
          ELSE /\ Insert(ts)
               /\ condition' = TRUE
               /\ UNCHANGED << clockVars, runVars, waitVars, threadVars, pc, aborted >>

\* Remove of an event that is not expired
MainRemoves(id) ==
    /\ MainCalls
    /\ events' = events \ {id}
    /\ unscheduled' = unscheduled - 1
    /\ UNCHANGED << clockVars, currentTs, currentUid, uid, runVars, waitVars, threadVars,
                    condition, pc, aborted >>

\* Stop: nobody is signalled
MainStops ==
    /\ MainAt("event")
    /\ stop' = TRUE
    /\ UNCHANGED << clockVars, listVars, running, runs, waitVars, threadVars, condition, pc,
                    aborted >>

-----------------------------------------------------------------------------
\* Run

Run ==
    /\ MainAt("outside") /\ runs < MaxRuns
    /\ runs' = runs + 1
    /\ stop' = FALSE /\ running' = TRUE
    /\ pc' = "origin"
    /\ UNCHANGED << clockVars, listVars, waitVars, threadVars, condition, aborted >>

\* SetOrigin (m_currentTs): the wall clock starts at zero, whatever m_currentTs is
SetOrigin ==
    /\ MainAt("origin")
    /\ origin' = clock /\ simOrigin' = currentTs
    /\ pc' = "loop"
    /\ UNCHANGED << clock, listVars, runVars, waitVars, threadVars, condition, aborted >>

Loop ==
    /\ MainEnters("loop")
    /\ pc' = IF stop \/ events = {} THEN "done" ELSE "plan"
    /\ UNCHANGED << clockVars, listVars, runVars, waitVars, threadVars, condition, aborted >>

\* The end of Run: a check, and m_running is reset
Done ==
    /\ MainEnters("done")
    /\ IF events = {} /\ unscheduled # 0 THEN Abort
       ELSE /\ pc' = "leave"
            /\ UNCHANGED << clockVars, listVars, runVars, waitVars, threadVars, condition,
                            aborted >>

Leave ==
    /\ MainAt("leave")
    /\ running' = FALSE
    /\ pc' = "outside"
    /\ UNCHANGED << clockVars, listVars, stop, runs, waitVars, threadVars, condition, aborted >>

-----------------------------------------------------------------------------
\* ProcessOneEvent

\* The first critical section: how long to wait for the event at the head of the list
Plan ==
    /\ MainEnters("plan")
    /\ \E next \in events :
          /\ Earliest(next)
          /\ waited' = next.ts
          /\ target' = IF next.ts <= RealNow THEN RealNow ELSE next.ts
    /\ condition' = FALSE
    /\ pc' = "drift correct"
    /\ UNCHANGED << clockVars, listVars, runVars, wait, deadline, threadVars, aborted >>

\* DoSynchronize up to SleepWait; DriftCorrect leaves what remains of the delay
Remaining == IF RealNow < target THEN target - RealNow ELSE 0

\* mutant: SetCondition (false) is called after the critical section
DriftCorrectAndReset ==
    /\ MainAt("drift correct")
    /\ LET jiffies == Remaining \div Jiffy IN
       IF jiffies > 3
       THEN wait' = (jiffies - 3) * Jiffy /\ pc' = "arm"
       ELSE wait' = wait /\ pc' = "drift"
    /\ condition' = FALSE
    /\ UNCHANGED << clockVars, listVars, runVars, waited, target, deadline, threadVars, aborted >>

DriftCorrect ==
    /\ MainAt("drift correct")
    /\ LET jiffies == Remaining \div Jiffy IN
       IF jiffies > 3
       THEN wait' = (jiffies - 3) * Jiffy /\ pc' = "arm"
       ELSE wait' = wait /\ pc' = "drift"
    /\ UNCHANGED << clockVars, listVars, runVars, waited, target, deadline, threadVars,
                    condition, aborted >>

MainGoesTo(place) ==
    /\ pc' = place
    /\ UNCHANGED << clockVars, listVars, runVars, waitVars, threadVars, condition, aborted >>

\* TimedWait returns, and its locals are gone
TimedWaitReturns(place) ==
    /\ pc' = place
    /\ deadline' = NoTime
    /\ UNCHANGED << clockVars, listVars, runVars, waited, target, wait, threadVars, condition,
                    aborted >>

\* TimedWait: the absolute time until which it waits, and its normalization
\* mutant: no second is carried
AbsoluteTimeNotNormalized ==
    [sec  |-> (wait \div Second) + (clock \div Second),
     nsec |-> (wait % Second) + (clock % Second)]

AbsoluteTime ==
    LET sec  == (wait \div Second) + (clock \div Second)
        nsec == (wait % Second) + (clock % Second)
    IN IF nsec > Second THEN [sec |-> sec + 1, nsec |-> nsec % Second]
                        ELSE [sec |-> sec, nsec |-> nsec]

ArmTimer ==
    /\ MainAt("arm")
    /\ deadline' = AbsoluteTime /\ wait' = 0
    /\ pc' = "check"
    /\ UNCHANGED << clockVars, listVars, runVars, waited, target, threadVars, condition,
                    aborted >>

\* TimedWait: the test of the condition and pthread_cond_timedwait, with the mutex held
CheckCondition ==
    /\ MainAt("check")
    /\ IF condition THEN TimedWaitReturns("plan") ELSE MainGoesTo("asleep")

\* pthread_cond_timedwait refuses a time whose nanoseconds are a whole second
TimerIsValid == deadline.nsec < Second

Passed == clock >= deadline.sec * Second + deadline.nsec \/ clock = MaxClock

Timeout == MainAt("asleep") /\ TimerIsValid /\ Passed /\ TimedWaitReturns("drift")

\* EINVAL, or a wake-up without a reason: the condition is tested again
WakesUp == MainAt("asleep") /\ ~(TimerIsValid /\ Passed) /\ MainGoesTo("check")

\* DoSynchronize after SleepWait
DriftTest ==
    MainAt("drift") /\ MainGoesTo(IF RealNow >= target THEN "take" ELSE "spin")

\* SpinWait looks at the time and then at the condition
SpinTime ==
    MainAt("spin") /\ MainGoesTo(IF RealNow >= target THEN "take" ELSE "spin condition")

\* mutant: the interrupted wait counts as completed
SpinConditionTakes ==
    MainAt("spin condition") /\ MainGoesTo(IF condition THEN "take" ELSE "spin")

SpinCondition ==
    MainAt("spin condition") /\ MainGoesTo(IF condition THEN "plan" ELSE "spin")

\* mutant: the event is not counted off
TakeUncounted(next) ==
    IF next.ts < currentTs THEN Abort
    ELSE /\ events' = events \ {next}
         /\ unscheduled' = unscheduled
         /\ currentTs' = next.ts /\ currentUid' = next.uid
         /\ waited' = 0 /\ target' = 0
         /\ pc' = "event"
         /\ UNCHANGED << clockVars, uid, runVars, wait, deadline, threadVars, condition,
                         aborted >>

\* RemoveNext and the members that follow the event; the locals of the wait are gone
Take(next) ==
    IF next.ts < currentTs THEN Abort
    ELSE /\ events' = events \ {next}
         /\ unscheduled' = unscheduled - 1
         /\ currentTs' = next.ts /\ currentUid' = next.uid
         /\ waited' = 0 /\ target' = 0
         /\ pc' = "event"
         /\ UNCHANGED << clockVars, uid, runVars, wait, deadline, threadVars, condition,
                         aborted >>

\* The second critical section. The event list must not have become empty.
TakeNext ==
    /\ MainEnters("take")
    /\ IF events = {} THEN Abort ELSE \E next \in events : Earliest(next) /\ Take(next)

\* RunOneEvent, for programs with a loop of their own: the clock is not looked at
RunOneEvent ==
    /\ MainEnters("outside")
    /\ \E next \in events : Earliest(next) /\ Take(next)

EventReturns == MainAt("event") /\ MainGoesTo(IF running THEN "loop" ELSE "outside")

-----------------------------------------------------------------------------

MainStep ==
    \/ SetOrigin \/ Loop \/ Done \/ Leave
    \/ Plan \/ DriftCorrect \/ ArmTimer \/ CheckCondition \/ Timeout \/ WakesUp
    \/ DriftTest \/ SpinTime \/ SpinCondition \/ TakeNext \/ EventReturns

ThreadReleases(t) == ThreadSetsCondition(t) \/ ThreadSignals(t)

Next ==
    \/ Tick
    \/ Run \/ RunOneEvent \/ MainSchedules \/ MainStops
    \/ \E id \in events : MainRemoves(id)
    \/ MainStep
    \/ \E t \in Threads : ThreadInserts(t) \/ ThreadReleases(t)

Spec == Init /\ [][Next]_vars

\* The operating system lets every thread that can go on do so, and time passes
FairSpec == Spec /\ WF_vars(Tick) /\ WF_vars(MainStep)
                 /\ \A t \in Threads : WF_vars(ThreadReleases(t))

-----------------------------------------------------------------------------

\* No assertion fails in a Run that begins at simulation time zero: no event is scheduled or
\* taken before m_currentTs (realtime-simulator-impl.cc:325, 560, 584, 636, 667), the event
\* that was waited for is still there (:315), and all are counted (:463). A Run that begins
\* later is another matter, because the wall clock then starts at zero again; and so is
\* RunOneEvent, which does not look at the clock.
NoAssertionFails == aborted => simOrigin > 0 \/ ~running \/ pc = "origin"

\* The comment at realtime-simulator-impl.cc:251: an event that another thread schedules
\* before the one that is waited for interrupts the wait, wherever the wait is, also when
\* the thread comes between the critical section and the wait, or between the test of the
\* condition and the sleep.
NoWakeupIsLost ==
    /\ pc \in Waiting /\ (\E id \in events : id.ts < waited) =>
          condition \/ \E t \in Threads : thread[t] = "inserted"
    /\ pc = "asleep" /\ condition => \E t \in Threads : thread[t] = "condition set"

\* The comment at realtime-simulator-impl.cc:302: the event that Run takes may not be the
\* one that was waited for, but its time has come.
DueWhenTaken == pc = "event" /\ running => currentTs <= RealNow

\* An event whose time comes before the bound of the clock
Pending(u) == \E id \in events : id.uid = u /\ id.ts + origin < MaxClock

\* Run gets to every event: no wait lasts for ever. The exception is a time for TimedWait
\* whose nanoseconds add up to exactly one second, which is not normalized.
EventsRun ==
    \A u \in 4 .. MaxUid - 1 :
        running /\ Pending(u) ~>
            ~Pending(u) \/ ~running \/ aborted \/ deadline.nsec = Second
=============================================================================
