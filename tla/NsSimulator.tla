----------------------------- MODULE NsSimulator -----------------------------
(***************************************************************************)
(* What DefaultSimulatorImpl promises, with an event list that is the set  *)
(* of the pending events and always gives the earliest one, as             *)
(* scheduler.h documents it. NsEventQueue implements it.                   *)
(***************************************************************************)
EXTENDS NsSimulatorImpl

VARIABLE events     \* m_events: the pending events

vars == << events, implVars >>

Earliest(event) ==
    event \in events /\ \A other \in events \ {event} : Before(event, other)

Init == ImplInit /\ events = {}

Schedule(delay) ==
    /\ MayCall /\ uid < MaxUid
    /\ ScheduleEvent(NewEvent(delay))
    /\ events' = events \union {NewEvent(delay)}

\* Remove of an event that has not expired: the list has to find it
Remove(id) ==
    /\ MayWithdraw /\ ~IsExpired(id)
    /\ IF id \in events THEN RemoveEvent(id) ELSE Abort
    /\ events' = events \ {id}

ProcessOneEvent ==
    \E next \in events :
        /\ Earliest(next)
        /\ HandleEvent(next)
        /\ events' = IF aborted' THEN events ELSE events \ {next}

\* SetScheduler moves the events from one list to the other, which is a stuttering step

Next ==
    \/ \E delay \in Delays : Schedule(delay)
    \/ \E id \in issued : Remove(id) \/ (Cancel(id) /\ UNCHANGED events)
    \/ ProcessOneEvent
    \/ Stop /\ UNCHANGED events
    \/ RunReturns(events = {}) /\ UNCHANGED events
    \/ ScheduleDestroy /\ UNCHANGED events
    \/ \E impl \in 0 .. uid :
          (RemoveDestroy(impl) \/ CancelDestroy(impl)) /\ UNCHANGED events
    \/ Destroy /\ UNCHANGED events

Spec == Init /\ [][Next]_vars

-----------------------------------------------------------------------------

TypeOK == ImplTypeOK /\ events \in SUBSET Event
=============================================================================
