-------------------------- MODULE NsSimulatorProofs --------------------------
(***************************************************************************)
(* Theorems about NsSimulator, for every set of delays and every bound.    *)
(***************************************************************************)
EXTENDS NsSimulator, FiniteSetTheorems, TLAPS

-----------------------------------------------------------------------------
\* The inductive invariant

\* UIDs are given out once, and only those that were given out are known
UidsAreOld ==
    /\ uid >= 4 /\ currentUid < uid
    /\ \A id \in issued : id.uid >= 4 /\ id.uid < uid
    /\ \A i \in DOMAIN destroyEvents : destroyEvents[i] >= 4 /\ destroyEvents[i] < uid
    /\ \A impl \in cancelled \union invoked \union withdrawn : impl < uid

UidsAreUnique ==
    /\ \A a, b \in issued : a.uid = b.uid => a = b
    /\ \A i, j \in DOMAIN destroyEvents : destroyEvents[i] = destroyEvents[j] => i = j
    /\ \A id \in issued, i \in DOMAIN destroyEvents : id.uid # destroyEvents[i]

\* The events after the last one that ran
Ahead(id) == id.ts > currentTs \/ (id.ts = currentTs /\ id.uid > currentUid)

PendingIsAhead ==
    /\ events \subseteq issued
    /\ \A id \in events : Ahead(id) /\ id.uid \notin invoked
    /\ \A id \in issued \ events : IsExpired(id)
    /\ \A i \in DOMAIN destroyEvents : destroyEvents[i] \notin invoked

\* An EventImpl that was withdrawn has its m_cancel set, or is in no list any more
WithdrawnIsMarked ==
    /\ invoked \intersect withdrawn = {}
    /\ cancelled \subseteq withdrawn
    /\ \A id \in issued : id.uid \in withdrawn => id.uid \in cancelled
    /\ \A i \in DOMAIN destroyEvents :
          destroyEvents[i] \in withdrawn => destroyEvents[i] \in cancelled

EitherRanOrWithdrawn ==
    \A id \in issued \ events : id.uid \in invoked \/ id.uid \in withdrawn

Counted == IsFiniteSet(events) /\ unscheduled = Cardinality(events)

IInv ==
    /\ TypeOK /\ ~aborted
    /\ UidsAreOld /\ UidsAreUnique
    /\ PendingIsAhead /\ WithdrawnIsMarked /\ EitherRanOrWithdrawn
    /\ Counted

-----------------------------------------------------------------------------

LEMMA InitIInv == ASSUME Init PROVE IInv
  <1>1. TypeOK
    <2>1. destroyEvents \in Seq(Nat)
      BY DEF Init, ImplInit
    <2>2. issued \subseteq Event /\ events \in SUBSET Event
      BY DEF Init, ImplInit
    <2>3. cancelled \subseteq Nat /\ invoked \subseteq Nat /\ withdrawn \subseteq Nat
      BY DEF Init, ImplInit
    <2>4. phase \in {"idle", "run", "destroy"} /\ stop \in BOOLEAN /\ aborted \in BOOLEAN
      BY DEF Init, ImplInit
    <2>5. currentTs \in Nat /\ currentUid \in Nat /\ uid \in Nat /\ unscheduled \in Int
      BY DEF Init, ImplInit
    <2> QED
      BY <2>1, <2>2, <2>3, <2>4, <2>5 DEF TypeOK, ImplTypeOK
  <1>2. UidsAreOld /\ UidsAreUnique
    BY DEF Init, ImplInit, UidsAreOld, UidsAreUnique
  <1>3. PendingIsAhead /\ WithdrawnIsMarked /\ EitherRanOrWithdrawn
    BY DEF Init, ImplInit, PendingIsAhead, WithdrawnIsMarked, EitherRanOrWithdrawn
  <1>4. Counted
    BY FS_EmptySet DEF Init, ImplInit, Counted
  <1> QED
    BY <1>1, <1>2, <1>3, <1>4 DEF IInv, Init, ImplInit

LEMMA ScheduleIInv == ASSUME IInv, NEW delay \in Delays, Schedule(delay) PROVE IInv'
  <1> DEFINE ev == NewEvent(delay)
  <1>1. ev \in Event /\ ev.uid = uid /\ ev.ts >= currentTs /\ ev \notin issued
    BY DelayAssumption DEF IInv, NewEvent, Event, TypeOK, ImplTypeOK, UidsAreOld
  <1>2. TypeOK'
    BY <1>1 DEF IInv, Schedule, ScheduleEvent, TypeOK, ImplTypeOK
  <1>3. UidsAreOld' /\ UidsAreUnique'
    BY <1>1 DEF IInv, Schedule, ScheduleEvent, TypeOK, ImplTypeOK, UidsAreOld, UidsAreUnique, Event
  <1>4. PendingIsAhead'
    BY <1>1 DEF IInv, Schedule, ScheduleEvent, TypeOK, ImplTypeOK, UidsAreOld, PendingIsAhead,
       Ahead, IsExpired, Event
  <1>5. WithdrawnIsMarked' /\ EitherRanOrWithdrawn'
    BY <1>1 DEF IInv, Schedule, ScheduleEvent, TypeOK, ImplTypeOK, UidsAreOld, PendingIsAhead,
       WithdrawnIsMarked, EitherRanOrWithdrawn, Event
  <1>6. Counted'
    <2>1. ev \notin events
      BY <1>1 DEF IInv, PendingIsAhead
    <2>2. IsFiniteSet(events') /\ Cardinality(events') = Cardinality(events) + 1
      BY <2>1, FS_AddElement DEF IInv, Counted, Schedule
    <2> QED BY <2>2 DEF IInv, Counted, Schedule, ScheduleEvent
  <1> QED
    BY <1>2, <1>3, <1>4, <1>5, <1>6 DEF IInv, Schedule, ScheduleEvent, MayCall

\* An event that is not expired is still in the list
LEMMA NotExpiredIsPending ==
    ASSUME IInv, NEW id \in issued, ~IsExpired(id)
    PROVE  id \in events /\ id.uid \notin invoked /\ id.uid \in Nat
  BY DEF IInv, PendingIsAhead, TypeOK, ImplTypeOK, Event

LEMMA CancelImplIInv ==
    ASSUME IInv, NEW impl \in Nat, impl < uid, impl \notin invoked, UNCHANGED events,
           CancelImpl(impl)
    PROVE  IInv'
  <1>1. TypeOK'
    <2>1. cancelled' \subseteq Nat /\ withdrawn' \subseteq Nat
      BY DEF IInv, CancelImpl, TypeOK, ImplTypeOK
    <2> QED
      BY <2>1 DEF IInv, CancelImpl, TypeOK, ImplTypeOK
  <1>2. UidsAreOld' /\ UidsAreUnique'
    BY DEF IInv, CancelImpl, UidsAreOld, UidsAreUnique, TypeOK, ImplTypeOK
  <1>3. PendingIsAhead'
    BY DEF IInv, CancelImpl, PendingIsAhead, Ahead, IsExpired
  <1>4. WithdrawnIsMarked' /\ EitherRanOrWithdrawn'
    BY DEF IInv, CancelImpl, WithdrawnIsMarked, EitherRanOrWithdrawn
  <1>5. Counted'
    BY DEF IInv, CancelImpl, Counted
  <1> QED
    BY <1>1, <1>2, <1>3, <1>4, <1>5 DEF IInv, CancelImpl

LEMMA CancelIInv ==
    ASSUME IInv, NEW id \in issued, Cancel(id), UNCHANGED events PROVE IInv'
  BY NotExpiredIsPending, CancelImplIInv DEF Cancel, IInv, UidsAreOld

LEMMA RemoveIInv == ASSUME IInv, NEW id \in issued, Remove(id) PROVE IInv'
  <1>1. id \in events /\ id.uid \notin invoked /\ id.uid \in Nat
    BY NotExpiredIsPending DEF Remove
  <1>2. RemoveEvent(id) /\ events' = events \ {id}
    BY <1>1 DEF Remove
  <1>3. TypeOK'
    <2>1. cancelled' \subseteq Nat /\ withdrawn' \subseteq Nat
      BY <1>1, <1>2 DEF IInv, RemoveEvent, TypeOK, ImplTypeOK
    <2>2. unscheduled' \in Int /\ events' \in SUBSET Event
      BY <1>2 DEF IInv, RemoveEvent, TypeOK, ImplTypeOK
    <2> QED
      BY <1>2, <2>1, <2>2 DEF IInv, RemoveEvent, TypeOK, ImplTypeOK
  <1>4. UidsAreOld' /\ UidsAreUnique'
    BY <1>1, <1>2 DEF IInv, RemoveEvent, UidsAreOld, UidsAreUnique, TypeOK, ImplTypeOK
  <1>5. PendingIsAhead'
    BY <1>2 DEF IInv, RemoveEvent, PendingIsAhead, Ahead, IsExpired
  <1>6. WithdrawnIsMarked' /\ EitherRanOrWithdrawn'
    BY <1>1, <1>2 DEF IInv, RemoveEvent, WithdrawnIsMarked, EitherRanOrWithdrawn
  <1>7. Counted'
    BY <1>1, <1>2, FS_RemoveElement DEF IInv, RemoveEvent, Counted
  <1> QED
    BY <1>2, <1>3, <1>4, <1>5, <1>6, <1>7 DEF IInv, RemoveEvent

LEMMA ProcessOneEventIInv == ASSUME IInv, ProcessOneEvent PROVE IInv'
  <1>1. PICK next \in events : Earliest(next) /\ HandleEvent(next)
                             /\ events' = IF aborted' THEN events ELSE events \ {next}
    BY DEF ProcessOneEvent
  <1>2. next \in issued /\ next \in Event /\ Ahead(next) /\ next.uid \notin invoked
    BY DEF IInv, PendingIsAhead, TypeOK, ImplTypeOK
  <1>3. ~(next.ts < currentTs)
    BY <1>2 DEF Ahead, Event, IInv, TypeOK, ImplTypeOK
  <1>4. /\ unscheduled' = unscheduled - 1
        /\ currentTs' = next.ts /\ currentUid' = next.uid
        /\ invoked' = Notified(next.uid)
        /\ phase' \in {"idle", "run"} /\ stop' \in BOOLEAN
        /\ UNCHANGED << uid, destroyEvents, cancelled, issued, withdrawn, aborted >>
    BY <1>1, <1>3 DEF HandleEvent, RunFrom, ContinueWith, RunOneEvent, ProcessEvent, IInv,
       TypeOK, ImplTypeOK
  <1>5. events' = events \ {next}
    BY <1>1, <1>4 DEF IInv
  <1>6. TypeOK'
    <2>1. currentTs' \in Nat /\ currentUid' \in Nat /\ unscheduled' \in Int
      BY <1>2, <1>4 DEF IInv, TypeOK, ImplTypeOK, Event
    <2>2. invoked' \subseteq Nat
      BY <1>2, <1>4 DEF IInv, TypeOK, ImplTypeOK, Notified, Event
    <2>3. phase' \in {"idle", "run", "destroy"} /\ stop' \in BOOLEAN
      BY <1>4
    <2>4. events' \in SUBSET Event
      BY <1>5 DEF IInv, TypeOK
    <2> QED
      BY <1>4, <2>1, <2>2, <2>3, <2>4 DEF IInv, TypeOK, ImplTypeOK
  <1>7. UidsAreOld' /\ UidsAreUnique'
    BY <1>2, <1>4 DEF IInv, UidsAreOld, UidsAreUnique, Notified, TypeOK, ImplTypeOK
  <1>8. PendingIsAhead'
    <2>1. \A id \in events' : Ahead(id)' /\ id.uid \notin invoked'
      <3> SUFFICES ASSUME NEW id \in events' PROVE Ahead(id)' /\ id.uid \notin invoked'
        OBVIOUS
      <3>1. id \in events /\ id # next /\ id \in issued /\ id \in Event /\ id.uid # next.uid
        BY <1>2, <1>5 DEF IInv, PendingIsAhead, UidsAreUnique, TypeOK, ImplTypeOK
      <3>2. Before(next, id)
        BY <1>1, <3>1 DEF Earliest
      <3> QED
        BY <1>2, <1>4, <3>1, <3>2 DEF Before, Ahead, Event, Notified, IInv, PendingIsAhead
    <2>2. \A id \in issued' \ events' : IsExpired(id)'
      BY <1>2, <1>4, <1>5 DEF IInv, PendingIsAhead, IsExpired, Ahead, Event, TypeOK, ImplTypeOK
    <2>3. events' \subseteq issued'
      BY <1>4, <1>5 DEF IInv, PendingIsAhead
    <2>4. \A i \in DOMAIN destroyEvents' : destroyEvents'[i] \notin invoked'
      BY <1>2, <1>4 DEF IInv, PendingIsAhead, UidsAreUnique, Notified
    <2> QED
      BY <2>1, <2>2, <2>3, <2>4 DEF PendingIsAhead
  <1>9. WithdrawnIsMarked'
    BY <1>2, <1>4 DEF IInv, WithdrawnIsMarked, Notified
  <1>10. EitherRanOrWithdrawn'
    BY <1>2, <1>4, <1>5 DEF IInv, EitherRanOrWithdrawn, WithdrawnIsMarked, Notified
  <1>11. Counted'
    BY <1>4, <1>5, FS_RemoveElement DEF IInv, Counted
  <1> QED
    BY <1>4, <1>6, <1>7, <1>8, <1>9, <1>10, <1>11 DEF IInv

\* The assertion of RunReturns: an empty list leaves nothing uncounted
LEMMA RunReturnsIInv ==
    ASSUME IInv, RunReturns(events = {}), UNCHANGED events PROVE IInv'
  <1>1. events = {} => unscheduled = 0
    BY FS_EmptySet DEF IInv, Counted
  <1>2. /\ phase' = "idle"
        /\ UNCHANGED << currentTs, currentUid, uid, unscheduled, stop, destroyEvents, events,
                        cancelled, issued, invoked, withdrawn, aborted >>
    BY <1>1 DEF RunReturns
  <1>3. TypeOK'
    BY <1>2 DEF IInv, TypeOK, ImplTypeOK
  <1>4. UidsAreOld' /\ UidsAreUnique' /\ Counted'
    BY <1>2 DEF IInv, UidsAreOld, UidsAreUnique, Counted
  <1>5. PendingIsAhead' /\ WithdrawnIsMarked' /\ EitherRanOrWithdrawn'
    BY <1>2 DEF IInv, PendingIsAhead, Ahead, IsExpired, WithdrawnIsMarked,
       EitherRanOrWithdrawn
  <1> QED
    BY <1>2, <1>3, <1>4, <1>5 DEF IInv

LEMMA StopIInv == ASSUME IInv, Stop, UNCHANGED events PROVE IInv'
  <1>1. TypeOK'
    BY DEF IInv, Stop, TypeOK, ImplTypeOK
  <1>2. UidsAreOld' /\ UidsAreUnique' /\ Counted'
    BY DEF IInv, Stop, UidsAreOld, UidsAreUnique, Counted
  <1>3. PendingIsAhead' /\ WithdrawnIsMarked' /\ EitherRanOrWithdrawn'
    BY DEF IInv, Stop, PendingIsAhead, Ahead, IsExpired, WithdrawnIsMarked,
       EitherRanOrWithdrawn
  <1> QED
    BY <1>1, <1>2, <1>3 DEF IInv, Stop

-----------------------------------------------------------------------------
\* The destroy events

LEMMA ScheduleDestroyIInv == ASSUME IInv, ScheduleDestroy, UNCHANGED events PROVE IInv'
  <1>1. /\ destroyEvents' \in Seq(Nat)
        /\ DOMAIN destroyEvents' = 1 .. Len(destroyEvents) + 1
        /\ destroyEvents'[Len(destroyEvents) + 1] = uid
        /\ \A i \in DOMAIN destroyEvents : destroyEvents'[i] = destroyEvents[i]
        /\ DOMAIN destroyEvents = 1 .. Len(destroyEvents) /\ Len(destroyEvents) \in Nat
    BY DEF IInv, ScheduleDestroy, TypeOK, ImplTypeOK
  <1>2. \A i \in DOMAIN destroyEvents' :
           (i \in DOMAIN destroyEvents /\ destroyEvents'[i] = destroyEvents[i])
           \/ (i = Len(destroyEvents) + 1 /\ destroyEvents'[i] = uid)
    BY <1>1
  <1>3. TypeOK'
    <2>1. uid' \in Nat
      BY DEF IInv, ScheduleDestroy, TypeOK, ImplTypeOK
    <2> QED
      BY <1>1, <2>1 DEF IInv, ScheduleDestroy, TypeOK, ImplTypeOK
  <1>4. UidsAreOld'
    BY <1>2 DEF IInv, ScheduleDestroy, UidsAreOld, TypeOK, ImplTypeOK, Event
  <1>5. UidsAreUnique'
    <2>1. \A i, j \in DOMAIN destroyEvents' :
             destroyEvents'[i] = destroyEvents'[j] => i = j
      BY <1>2 DEF IInv, UidsAreOld, UidsAreUnique, TypeOK, ImplTypeOK
    <2>2. \A id \in issued, i \in DOMAIN destroyEvents' : id.uid # destroyEvents'[i]
      BY <1>2 DEF IInv, UidsAreOld, UidsAreUnique, TypeOK, ImplTypeOK, Event
    <2> QED
      BY <2>1, <2>2 DEF IInv, ScheduleDestroy, UidsAreUnique
  <1>6. uid \notin invoked \union withdrawn
    BY DEF IInv, UidsAreOld, TypeOK, ImplTypeOK
  <1>7. PendingIsAhead' /\ WithdrawnIsMarked' /\ EitherRanOrWithdrawn'
    BY <1>2, <1>6 DEF IInv, ScheduleDestroy, PendingIsAhead, Ahead, IsExpired,
       WithdrawnIsMarked, EitherRanOrWithdrawn
  <1>8. Counted'
    BY DEF IInv, ScheduleDestroy, Counted
  <1> QED
    BY <1>3, <1>4, <1>5, <1>7, <1>8 DEF IInv, ScheduleDestroy

\* The elements that are left keep their order, and the one at i is gone
LEMMA WithoutAtLeaves ==
    ASSUME NEW S, NEW seq \in Seq(S), NEW i \in DOMAIN seq
    PROVE  /\ WithoutAt(seq, i) \in Seq(S)
           /\ \A j \in DOMAIN WithoutAt(seq, i) :
                 \E k \in DOMAIN seq \ {i} :
                    /\ k = (IF j < i THEN j ELSE j + 1)
                    /\ WithoutAt(seq, i)[j] = seq[k]
           /\ DOMAIN WithoutAt(seq, i) \subseteq Int
  <1>1. i \in 1 .. Len(seq) /\ Len(seq) - 1 \in Nat /\ DOMAIN seq = 1 .. Len(seq)
    OBVIOUS
  <1>2. \A j \in 1 .. Len(seq) - 1 : seq[j] \in S /\ seq[j + 1] \in S
    BY <1>1
  <1>3. WithoutAt(seq, i) \in [1 .. Len(seq) - 1 -> S]
    BY <1>2 DEF WithoutAt
  <1>4. WithoutAt(seq, i) \in Seq(S)
    BY <1>1, <1>3
  <1>5. DOMAIN WithoutAt(seq, i) = 1 .. Len(seq) - 1
    BY DEF WithoutAt
  <1>6. ASSUME NEW j \in 1 .. Len(seq) - 1
        PROVE  \E k \in DOMAIN seq \ {i} :
                    /\ k = (IF j < i THEN j ELSE j + 1)
                    /\ WithoutAt(seq, i)[j] = seq[k]
    BY <1>1 DEF WithoutAt
  <1> QED
    BY <1>4, <1>5, <1>6

LEMMA RemoveDestroyIInv ==
    ASSUME IInv, NEW impl \in 0 .. uid, RemoveDestroy(impl), UNCHANGED events PROVE IInv'
  <1>1. PICK i \in DOMAIN destroyEvents :
              destroyEvents[i] = impl /\ destroyEvents' = WithoutAt(destroyEvents, i)
    BY DEF RemoveDestroy
  <1>2. /\ destroyEvents' \in Seq(Nat)
        /\ \A j \in DOMAIN destroyEvents' :
              \E k \in DOMAIN destroyEvents \ {i} :
                 /\ k = (IF j < i THEN j ELSE j + 1)
                 /\ destroyEvents'[j] = destroyEvents[k]
        /\ DOMAIN destroyEvents' \subseteq Int
    BY <1>1, WithoutAtLeaves DEF IInv, TypeOK, ImplTypeOK
  <1>3. /\ withdrawn' = withdrawn \union {impl}
        /\ UNCHANGED << currentTs, currentUid, uid, unscheduled, stop, events, cancelled,
                        phase, issued, invoked, aborted >>
    BY DEF RemoveDestroy
  <1>4. impl \in Nat /\ impl < uid /\ impl \notin invoked
    BY <1>1 DEF IInv, TypeOK, ImplTypeOK, UidsAreOld, PendingIsAhead
  <1>5. TypeOK'
    <2>1. withdrawn' \subseteq Nat
      BY <1>3, <1>4 DEF IInv, TypeOK, ImplTypeOK
    <2> QED
      BY <1>2, <1>3, <2>1 DEF IInv, TypeOK, ImplTypeOK
  <1>6. UidsAreOld'
    BY <1>2, <1>3, <1>4 DEF IInv, UidsAreOld
  <1>7. UidsAreUnique'
    <2>1. ASSUME NEW j \in DOMAIN destroyEvents', NEW k \in DOMAIN destroyEvents',
                 destroyEvents'[j] = destroyEvents'[k]
          PROVE  j = k
      <3>1. (IF j < i THEN j ELSE j + 1) = (IF k < i THEN k ELSE k + 1)
        BY <1>2, <2>1 DEF IInv, UidsAreUnique
      <3>2. j \in Int /\ k \in Int /\ i \in Int
        BY <1>2 DEF IInv, TypeOK, ImplTypeOK
      <3> QED
        BY <3>1, <3>2
    <2>2. \A id \in issued, j \in DOMAIN destroyEvents' : id.uid # destroyEvents'[j]
      BY <1>2 DEF IInv, UidsAreUnique
    <2> QED
      BY <1>3, <2>1, <2>2 DEF IInv, UidsAreUnique
  <1>8. PendingIsAhead' /\ EitherRanOrWithdrawn'
    BY <1>2, <1>3 DEF IInv, PendingIsAhead, Ahead, IsExpired, EitherRanOrWithdrawn
  <1>9. WithdrawnIsMarked'
    <2>1. \A id \in issued : id.uid # impl
      BY <1>1 DEF IInv, UidsAreUnique
    <2>2. \A j \in DOMAIN destroyEvents' :
             destroyEvents'[j] # impl
             /\ \E k \in DOMAIN destroyEvents : destroyEvents'[j] = destroyEvents[k]
      BY <1>1, <1>2 DEF IInv, UidsAreUnique
    <2> QED
      BY <1>3, <1>4, <2>1, <2>2 DEF IInv, WithdrawnIsMarked
  <1>10. Counted'
    BY <1>3 DEF IInv, Counted
  <1> QED
    BY <1>3, <1>5, <1>6, <1>7, <1>8, <1>9, <1>10 DEF IInv

LEMMA CancelDestroyIInv ==
    ASSUME IInv, NEW impl \in 0 .. uid, CancelDestroy(impl), UNCHANGED events PROVE IInv'
  <1>1. PICK i \in DOMAIN destroyEvents : destroyEvents[i] = impl
    BY DEF CancelDestroy, IsExpiredDestroy
  <1>2. impl \in Nat /\ impl < uid /\ impl \notin invoked
    BY <1>1 DEF IInv, TypeOK, ImplTypeOK, UidsAreOld, PendingIsAhead
  <1> QED
    BY <1>2, CancelImplIInv DEF CancelDestroy

LEMMA DestroyIInv == ASSUME IInv, Destroy, UNCHANGED events PROVE IInv'
  <1> DEFINE impl == Head(destroyEvents)
  <1>1. /\ 1 \in DOMAIN destroyEvents /\ impl = destroyEvents[1]
        /\ destroyEvents' \in Seq(Nat)
        /\ \A j \in DOMAIN destroyEvents' :
              /\ j \in Nat \ {0} /\ j + 1 \in DOMAIN destroyEvents
              /\ destroyEvents'[j] = destroyEvents[j + 1]
    BY DEF IInv, Destroy, TypeOK, ImplTypeOK
  <1>2. /\ invoked' = Notified(impl) /\ phase' = "destroy"
        /\ UNCHANGED << currentTs, currentUid, uid, unscheduled, stop, events, cancelled,
                        issued, withdrawn, aborted >>
    BY DEF Destroy
  <1>3. impl \in Nat /\ impl < uid /\ \A id \in issued : id.uid # impl
    BY <1>1 DEF IInv, TypeOK, ImplTypeOK, UidsAreOld, UidsAreUnique
  <1>4. invoked' \subseteq invoked \union {impl} /\ (impl \in cancelled => invoked' = invoked)
    BY <1>2 DEF Notified
  <1>5. TypeOK'
    <2>1. invoked' \subseteq Nat
      BY <1>3, <1>4 DEF IInv, TypeOK, ImplTypeOK
    <2> QED
      BY <1>1, <1>2, <2>1 DEF IInv, TypeOK, ImplTypeOK
  <1>6. UidsAreOld'
    BY <1>1, <1>2, <1>3, <1>4 DEF IInv, UidsAreOld
  <1>7. \A j \in DOMAIN destroyEvents' : destroyEvents'[j] # impl
    BY <1>1 DEF IInv, UidsAreUnique
  <1>8. UidsAreUnique'
    <2>1. ASSUME NEW j \in DOMAIN destroyEvents', NEW k \in DOMAIN destroyEvents',
                 destroyEvents'[j] = destroyEvents'[k]
          PROVE  j = k
      <3>1. j + 1 = k + 1
        BY <1>1, <2>1 DEF IInv, UidsAreUnique
      <3> QED
        BY <1>1, <3>1
    <2>2. \A id \in issued, j \in DOMAIN destroyEvents' : id.uid # destroyEvents'[j]
      BY <1>1 DEF IInv, UidsAreUnique
    <2> QED
      BY <1>2, <2>1, <2>2 DEF IInv, UidsAreUnique
  <1>9. PendingIsAhead'
    <2>1. \A id \in events : id.uid \notin invoked'
      BY <1>3, <1>4 DEF IInv, PendingIsAhead
    <2>2. \A j \in DOMAIN destroyEvents' : destroyEvents'[j] \notin invoked'
      BY <1>1, <1>4, <1>7 DEF IInv, PendingIsAhead
    <2> QED
      BY <1>2, <2>1, <2>2 DEF IInv, PendingIsAhead, Ahead, IsExpired
  <1>10. WithdrawnIsMarked'
    <2>1. invoked' \intersect withdrawn = {}
      BY <1>1, <1>4 DEF IInv, WithdrawnIsMarked
    <2>2. \A j \in DOMAIN destroyEvents' :
             destroyEvents'[j] \in withdrawn => destroyEvents'[j] \in cancelled
      BY <1>1 DEF IInv, WithdrawnIsMarked
    <2> QED
      BY <1>2, <2>1, <2>2 DEF IInv, WithdrawnIsMarked
  <1>11. EitherRanOrWithdrawn' /\ Counted'
    BY <1>2 DEF IInv, EitherRanOrWithdrawn, Counted, Notified
  <1> QED
    BY <1>2, <1>5, <1>6, <1>8, <1>9, <1>10, <1>11 DEF IInv

-----------------------------------------------------------------------------

LEMMA StutterIInv == ASSUME IInv, UNCHANGED vars PROVE IInv'
  <1>1. TypeOK'
    BY DEF IInv, vars, implVars, TypeOK, ImplTypeOK
  <1>2. UidsAreOld' /\ UidsAreUnique' /\ Counted'
    BY DEF IInv, vars, implVars, UidsAreOld, UidsAreUnique, Counted
  <1>3. PendingIsAhead' /\ WithdrawnIsMarked' /\ EitherRanOrWithdrawn'
    BY DEF IInv, vars, implVars, PendingIsAhead, Ahead, IsExpired, WithdrawnIsMarked,
       EitherRanOrWithdrawn
  <1> QED
    BY <1>1, <1>2, <1>3 DEF IInv, vars, implVars

LEMMA NextIInv == ASSUME IInv, [Next]_vars PROVE IInv'
  <1>1. CASE \E delay \in Delays : Schedule(delay)
    BY <1>1, ScheduleIInv
  <1>2. CASE \E id \in issued : Remove(id)
    BY <1>2, RemoveIInv
  <1>3. CASE \E id \in issued : Cancel(id) /\ UNCHANGED events
    BY <1>3, CancelIInv
  <1>4. CASE ProcessOneEvent
    BY <1>4, ProcessOneEventIInv
  <1>5. CASE Stop /\ UNCHANGED events
    BY <1>5, StopIInv
  <1>6. CASE RunReturns(events = {}) /\ UNCHANGED events
    BY <1>6, RunReturnsIInv
  <1>7. CASE ScheduleDestroy /\ UNCHANGED events
    BY <1>7, ScheduleDestroyIInv
  <1>8. CASE \E impl \in 0 .. uid : RemoveDestroy(impl) /\ UNCHANGED events
    BY <1>8, RemoveDestroyIInv
  <1>9. CASE \E impl \in 0 .. uid : CancelDestroy(impl) /\ UNCHANGED events
    BY <1>9, CancelDestroyIInv
  <1>10. CASE Destroy /\ UNCHANGED events
    BY <1>10, DestroyIInv
  <1>11. CASE UNCHANGED vars
    BY <1>11, StutterIInv
  <1> QED
    BY <1>1, <1>2, <1>3, <1>4, <1>5, <1>6, <1>7, <1>8, <1>9, <1>10, <1>11 DEF Next

LEMMA Invariant == Spec => []IInv
  <1>1. Init => IInv
    BY InitIInv
  <1>2. IInv /\ [Next]_vars => IInv'
    BY NextIInv
  <1> QED
    BY <1>1, <1>2, PTL DEF Spec

\* The members of DefaultSimulatorImpl and its event list keep their types.
THEOREM SimulatorTypeCorrect == Spec => []TypeOK
  <1>1. IInv => TypeOK
    BY DEF IInv
  <1> QED
    BY <1>1, Invariant, PTL

\* No program makes an assertion of DefaultSimulatorImpl fail, whatever it schedules,
\* removes, cancels or stops, as long as the event list is a set that gives its earliest
\* event.
THEOREM SimulatorNeverAborts == Spec => []NoAssertionFails
  <1>1. IInv => NoAssertionFails
    BY DEF IInv, NoAssertionFails
  <1> QED
    BY <1>1, Invariant, PTL

\* IsExpired, which compares an event with the last one that ran, knows exactly those that
\* are still to come.
THEOREM ExpiryIsExact == Spec => []ExpiredIsExact
  <1>1. ASSUME IInv, NEW id \in issued
        PROVE  IsExpired(id) <=> id.uid \in invoked \union withdrawn
    <2>1. CASE id \in events
      <3>1. Ahead(id) /\ id \in Event /\ id.uid \notin invoked
        BY <2>1, <1>1 DEF IInv, PendingIsAhead, TypeOK, ImplTypeOK
      <3>2. IsExpired(id) <=> id.uid \in cancelled
        BY <3>1, <1>1 DEF Ahead, IsExpired, Event, IInv, TypeOK, ImplTypeOK
      <3> QED
        BY <3>1, <3>2, <1>1 DEF IInv, WithdrawnIsMarked
    <2>2. CASE id \notin events
      BY <2>2, <1>1 DEF IInv, PendingIsAhead, EitherRanOrWithdrawn
    <2> QED
      BY <2>1, <2>2
  <1>2. IInv => ExpiredIsExact
    BY <1>1 DEF ExpiredIsExact
  <1> QED
    BY <1>2, Invariant, PTL

\* Every event is still counted, ran once, or was withdrawn and never runs.
THEOREM AllEventsAccounted == Spec => []EventsAccounted
  <1>1. ASSUME IInv PROVE EventsAccounted
    <2> DEFINE left == {id \in issued : id.uid \notin invoked \union withdrawn}
    <2>1. left \subseteq events
      BY <1>1 DEF IInv, EitherRanOrWithdrawn
    <2>2. Cardinality(left) <= Cardinality(events)
      BY <1>1, <2>1, FS_Subset DEF IInv, Counted
    <2> QED
      BY <1>1, <2>2 DEF IInv, WithdrawnIsMarked, Counted, EventsAccounted
  <1> QED
    BY <1>1, Invariant, PTL
=============================================================================
