--------------------------- MODULE NsSimulatorImpl ---------------------------
(***************************************************************************)
(* The members of DefaultSimulatorImpl other than its event list, and what *)
(* its methods do to them. The event list is added by NsSimulator, as a    *)
(* set, and by NsEventQueue, as one of the schedulers of the repository.   *)
(*                                                                         *)
(* Program code calls the simulator between its steps: the main program    *)
(* while the phase is "idle", the event that is being handled while it is  *)
(* "run", the destroy events while it is "destroy".                        *)
(***************************************************************************)
EXTENDS Integers, Sequences, FiniteSets

CONSTANTS
    Delays,         \* the delays that the program schedules events with
    MaxUid,         \* bound: no event is scheduled once m_uid has this value
    MaxDestroyUid,  \* bound: the same for destroy events
    MaxWithdrawn    \* bound: how many events are removed or cancelled

ASSUME DelayAssumption == Delays \subseteq Nat
ASSUME BoundAssumption == MaxUid \in Nat /\ MaxDestroyUid \in Nat /\ MaxWithdrawn \in Nat

VARIABLES
    currentTs,      \* m_currentTs
    currentUid,     \* m_currentUid
    uid,            \* m_uid
    unscheduled,    \* m_unscheduledEvents
    stop,           \* m_stop
    destroyEvents,  \* m_destroyEvents; a destroy event is known by its EventImpl
    cancelled,      \* the EventImpl whose m_cancel is set
    phase,          \* the loop of the simulator from which the program's code is called
    issued,         \* history: the events that were scheduled
    invoked,        \* history: the EventImpl that were notified
    withdrawn,      \* history: the EventImpl that were removed or cancelled in time
    aborted         \* an assertion has failed

implVars == << currentTs, currentUid, uid, unscheduled, stop, destroyEvents,
               cancelled, phase, issued, invoked, withdrawn, aborted >>

\* An EventKey. An event has its own EventImpl, which gets the number of its UID.
Event == [ts : Nat, uid : Nat]

\* operator < of EventKey
Before(a, b) == a.ts < b.ts \/ (a.ts = b.ts /\ a.uid < b.uid)

ImplTypeOK ==
    /\ currentTs \in Nat /\ currentUid \in Nat /\ uid \in Nat
    /\ unscheduled \in Int
    /\ stop \in BOOLEAN /\ aborted \in BOOLEAN
    /\ destroyEvents \in Seq(Nat)
    /\ cancelled \subseteq Nat /\ invoked \subseteq Nat /\ withdrawn \subseteq Nat
    /\ phase \in {"idle", "run", "destroy"}
    /\ issued \subseteq Event

\* The first four UIDs have a meaning of their own
ImplInit ==
    /\ currentTs = 0 /\ currentUid = 0 /\ uid = 4
    /\ unscheduled = 0
    /\ stop = FALSE /\ aborted = FALSE
    /\ destroyEvents = << >>
    /\ cancelled = {} /\ invoked = {} /\ withdrawn = {}
    /\ phase = "idle"
    /\ issued = {}

Abort == aborted' = TRUE /\ UNCHANGED << currentTs, currentUid, uid, unscheduled, stop,
              destroyEvents, cancelled, phase, issued, invoked, withdrawn >>

-----------------------------------------------------------------------------

MayCall == ~aborted

MayWithdraw == MayCall /\ Cardinality(withdrawn) < MaxWithdrawn

\* Schedule, ScheduleNow (no delay) and ScheduleWithContext
NewEvent(delay) == [ts |-> currentTs + delay, uid |-> uid]

ScheduleEvent(event) ==
    /\ uid' = uid + 1
    /\ unscheduled' = unscheduled + 1
    /\ issued' = issued \union {event}
    /\ UNCHANGED << currentTs, currentUid, stop, destroyEvents, cancelled, phase,
                    invoked, withdrawn, aborted >>

\* mutant: the time alone decides
IsExpiredByTime(id) == id.ts < currentTs \/ id.uid \in cancelled

IsExpired(id) ==
    \/ id.ts < currentTs
    \/ id.ts = currentTs /\ id.uid <= currentUid
    \/ id.uid \in cancelled

IsExpiredDestroy(impl) ==
    impl \in cancelled \/ \A i \in DOMAIN destroyEvents : destroyEvents[i] # impl

\* mutant: the count of events is left alone
RemoveEventUncounted(id) ==
    /\ cancelled' = cancelled \union {id.uid}
    /\ withdrawn' = withdrawn \union {id.uid}
    /\ UNCHANGED << currentTs, currentUid, uid, unscheduled, stop, destroyEvents, phase,
                    issued, invoked, aborted >>

\* Remove, after the event list has given the event up
RemoveEvent(id) ==
    /\ cancelled' = cancelled \union {id.uid}
    /\ withdrawn' = withdrawn \union {id.uid}
    /\ unscheduled' = unscheduled - 1
    /\ UNCHANGED << currentTs, currentUid, uid, stop, destroyEvents, phase, issued,
                    invoked, aborted >>

CancelImpl(impl) ==
    /\ cancelled' = cancelled \union {impl}
    /\ withdrawn' = withdrawn \union {impl}
    /\ UNCHANGED << currentTs, currentUid, uid, unscheduled, stop, destroyEvents, phase,
                    issued, invoked, aborted >>

\* Cancel of an event that is not expired; the event stays in the list
Cancel(id) == MayWithdraw /\ ~IsExpired(id) /\ CancelImpl(id.uid)

Stop ==
    /\ MayCall
    /\ stop' = TRUE
    /\ UNCHANGED << currentTs, currentUid, uid, unscheduled, destroyEvents, cancelled,
                    phase, issued, invoked, withdrawn, aborted >>

-----------------------------------------------------------------------------

\* mutant: m_cancel is not looked at
NotifiedAnyway(impl) == invoked \union {impl}

\* EventImpl::Invoke
Notified(impl) == IF impl \in cancelled THEN invoked ELSE invoked \union {impl}

\* ProcessOneEvent, after the event list has given next
ProcessEvent(next, newPhase, newStop) ==
    IF next.ts < currentTs THEN Abort
    ELSE /\ unscheduled' = unscheduled - 1
         /\ currentTs' = next.ts
         /\ currentUid' = next.uid
         /\ invoked' = Notified(next.uid)
         /\ phase' = newPhase /\ stop' = newStop
         /\ UNCHANGED << uid, destroyEvents, cancelled, issued, withdrawn, aborted >>

\* Run, when there is an event to begin with (otherwise it only resets m_stop)
RunFrom(next) == phase = "idle" /\ ProcessEvent(next, "run", FALSE)

\* The next turn of the loop of Run
ContinueWith(next) == phase = "run" /\ ~stop /\ ProcessEvent(next, "run", stop)

\* RunOneEvent; what the event calls comes before the next call of the main program
RunOneEvent(next) == phase = "idle" /\ ProcessEvent(next, "idle", stop)

HandleEvent(next) == MayCall /\ (RunFrom(next) \/ ContinueWith(next) \/ RunOneEvent(next))

\* The event list is empty, or the program has called Stop
RunReturns(isEmpty) ==
    /\ MayCall
    /\ phase = "run" /\ (isEmpty \/ stop)
    /\ IF isEmpty /\ unscheduled # 0 THEN Abort
       ELSE /\ phase' = "idle"
            /\ UNCHANGED << currentTs, currentUid, uid, unscheduled, stop, destroyEvents,
                            cancelled, issued, invoked, withdrawn, aborted >>

-----------------------------------------------------------------------------

WithoutAt(seq, i) == [j \in 1 .. Len(seq) - 1 |-> IF j < i THEN seq[j] ELSE seq[j + 1]]

ScheduleDestroy ==
    /\ MayCall /\ uid < MaxDestroyUid
    /\ destroyEvents' = Append(destroyEvents, uid)
    /\ uid' = uid + 1
    /\ UNCHANGED << currentTs, currentUid, unscheduled, stop, cancelled, phase, issued,
                    invoked, withdrawn, aborted >>

RemoveDestroy(impl) ==
    /\ MayWithdraw
    /\ \E i \in DOMAIN destroyEvents :
          /\ destroyEvents[i] = impl
          /\ destroyEvents' = WithoutAt(destroyEvents, i)
    /\ withdrawn' = withdrawn \union {impl}
    /\ UNCHANGED << currentTs, currentUid, uid, unscheduled, stop, cancelled, phase,
                    issued, invoked, aborted >>

CancelDestroy(impl) == MayWithdraw /\ ~IsExpiredDestroy(impl) /\ CancelImpl(impl)

\* One turn of the loop of Destroy; the main program does not return to Run from it
Destroy ==
    /\ MayCall /\ phase \in {"idle", "destroy"}
    /\ destroyEvents # << >>
    /\ destroyEvents' = Tail(destroyEvents)
    /\ invoked' = Notified(Head(destroyEvents))
    /\ phase' = "destroy"
    /\ UNCHANGED << currentTs, currentUid, uid, unscheduled, stop, cancelled, issued,
                    withdrawn, aborted >>

-----------------------------------------------------------------------------

\* No assertion of the simulator fails: an event that the list gives is not in the past
\* (default-simulator-impl.cc:121), the list knows every event that has not expired
\* (Remove of the schedulers), and none is left uncounted when it runs empty (line 163).
NoAssertionFails == ~aborted

\* IsExpired decides from the time and UID of the last event and m_cancel alone whether an
\* event is still to come; it is wrong about no event, whether that ran, was removed, or
\* stays cancelled in the list.
ExpiredIsExact ==
    \A id \in issued : IsExpired(id) <=> id.uid \in invoked \union withdrawn

\* An event that was withdrawn in time never runs, not even when it stays in the list; and
\* none gets lost: Run does not end for lack of events before those that neither ran nor
\* were withdrawn.
EventsAccounted ==
    /\ invoked \intersect withdrawn = {}
    /\ Cardinality({id \in issued : id.uid \notin invoked \union withdrawn}) <= unscheduled
=============================================================================
