---------------------------- MODULE NsEventQueue ----------------------------
(***************************************************************************)
(* DefaultSimulatorImpl with the schedulers of the repository: the         *)
(* operations of NsSimulatorImpl together with what they do to the event   *)
(* list, which the program may exchange at any time.                       *)
(***************************************************************************)
EXTENDS NsSimulatorImpl, NsScheduler

CONSTANTS
    SchedulerKinds, \* the kinds of event lists that the program chooses
    RemovingKinds   \* the kinds with which it calls Remove

ASSUME KindAssumption  == RemovingKinds \subseteq SchedulerKinds /\ SchedulerKinds \subseteq Kinds

VARIABLE queue      \* m_events

vars == << queue, implVars >>

Init == ImplInit /\ queue \in {EmptyList(kind) : kind \in SchedulerKinds}

Schedule(delay) ==
    /\ MayCall /\ uid < MaxUid
    /\ ScheduleEvent(NewEvent(delay))
    /\ queue' = Insert(queue, NewEvent(delay))

Remove(id) ==
    /\ MayWithdraw /\ ~IsExpired(id) /\ queue.kind \in RemovingKinds
    /\ IF id \in Contents(queue)
       THEN RemoveEvent(id) /\ queue' = RemoveFrom(queue, id)
       ELSE Abort /\ UNCHANGED queue

ProcessOneEvent ==
    /\ ~IsEmpty(queue)
    /\ HandleEvent(PeekNext(queue))
    /\ queue' = IF aborted' THEN queue ELSE RemoveNext(queue)

SetScheduler(kind) ==
    /\ MayCall /\ kind # queue.kind
    /\ queue' = Moved(queue, EmptyList(kind))
    /\ UNCHANGED implVars

Next ==
    \/ \E delay \in Delays : Schedule(delay)
    \/ \E id \in issued : Remove(id) \/ (Cancel(id) /\ UNCHANGED queue)
    \/ ProcessOneEvent
    \/ Stop /\ UNCHANGED queue
    \/ RunReturns(IsEmpty(queue)) /\ UNCHANGED queue
    \/ ScheduleDestroy /\ UNCHANGED queue
    \/ \E impl \in 0 .. uid :
          (RemoveDestroy(impl) \/ CancelDestroy(impl)) /\ UNCHANGED queue
    \/ Destroy /\ UNCHANGED queue
    \/ \E kind \in SchedulerKinds : SetScheduler(kind)

Spec == Init /\ [][Next]_vars

-----------------------------------------------------------------------------

Abstract == INSTANCE NsSimulator WITH events <- Contents(queue)

\* The schedulers keep the promise of scheduler.h, "the next earliest event": with any of
\* them the simulator behaves as with a set from which the earliest event is taken, also
\* when the buckets of the calendar are resized or the list is exchanged.
ImplementsSimulator == Abstract!Spec
=============================================================================
