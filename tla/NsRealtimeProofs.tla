--------------------------- MODULE NsRealtimeProofs ---------------------------
(***************************************************************************)
(* Theorems about NsRealtime, for every set of threads, delays and bounds. *)
(***************************************************************************)
EXTENDS NsRealtime, FiniteSetTheorems, TLAPS

-----------------------------------------------------------------------------
\* The inductive invariant

ClockIsAhead == origin <= clock

\* The thread in a schedule operation holds m_mutex, and m_condition is not reset meanwhile
HolderSignals ==
    \A t \in Threads :
        /\ thread[t] # "elsewhere" => mutex = t
        /\ thread[t] = "condition set" => condition

ListIsAhead == \A id \in events : id.ts >= currentTs /\ id.uid < uid

Counted == IsFiniteSet(events) /\ unscheduled = Cardinality(events)

\* Nobody takes the event that is waited for away
WaitedForIsThere ==
    pc \in Waiting \union {"take"} =>
        /\ \E id \in events : id.ts = waited
        /\ waited <= target

TimeIsReached == pc = "take" => target <= RealNow

RunningIsKnown ==
    /\ pc = "outside" => ~running
    /\ pc \notin {"outside", "event"} => running

\* Real time is not behind simulation time in a Run that began at zero
Paced == running /\ pc # "origin" /\ simOrigin = 0 => currentTs <= RealNow

IInv ==
    /\ TypeOK /\ ClockIsAhead
    /\ HolderSignals /\ NoWakeupIsLost
    /\ ListIsAhead /\ Counted
    /\ WaitedForIsThere /\ TimeIsReached
    /\ RunningIsKnown /\ Paced /\ DueWhenTaken /\ NoAssertionFails

-----------------------------------------------------------------------------

\* The parts of the type invariant that arithmetic needs
LEMMA Numbers ==
    ASSUME TypeOK
    PROVE  /\ clock \in Nat /\ origin \in Nat /\ simOrigin \in Nat
           /\ currentTs \in Nat /\ currentUid \in Nat /\ uid \in Nat /\ unscheduled \in Int
           /\ runs \in Nat /\ waited \in Nat /\ target \in Nat /\ wait \in Nat
           /\ RealNow \in Int
           /\ \A id \in events : id \in Event /\ id.ts \in Nat /\ id.uid \in Nat
           /\ events \in SUBSET Event
  <1>1. /\ clock \in Nat /\ origin \in Nat /\ simOrigin \in Nat
        /\ currentTs \in Nat /\ currentUid \in Nat /\ uid \in Nat /\ unscheduled \in Int
        /\ runs \in Nat /\ waited \in Nat /\ target \in Nat /\ wait \in Nat
        /\ events \in SUBSET Event
    BY DEF TypeOK
  <1>2. RealNow \in Int
    BY <1>1 DEF RealNow
  <1>3. \A id \in events : id \in Event /\ id.ts \in Nat /\ id.uid \in Nat
    BY <1>1 DEF Event
  <1> QED
    BY <1>1, <1>2, <1>3

LEMMA RealNowIsNat == ASSUME IInv PROVE RealNow \in Nat
  <1>1. clock \in Nat /\ origin \in Nat /\ origin <= clock
    BY Numbers DEF IInv, ClockIsAhead
  <1> QED
    BY <1>1 DEF RealNow

LEMMA InitIInv == ASSUME Init PROVE IInv
  <1>1. TypeOK
    <2>1. clock \in Nat /\ origin \in Nat /\ simOrigin \in Nat /\ events \in SUBSET Event
      BY RealtimeAssumption DEF Init
    <2>2. deadline \in [sec : Nat, nsec : Nat]
      BY DEF Init, NoTime
    <2>3. thread \in [Threads -> {"elsewhere", "inserted", "condition set"}]
      BY DEF Init
    <2>4. /\ currentTs \in Nat /\ currentUid \in Nat /\ uid \in Nat /\ unscheduled \in Int
          /\ waited \in Nat /\ target \in Nat /\ wait \in Nat /\ runs \in Nat
      BY DEF Init
    <2>5. /\ running \in BOOLEAN /\ stop \in BOOLEAN /\ condition \in BOOLEAN
          /\ aborted \in BOOLEAN /\ mutex \in Threads \union {"none"}
      BY DEF Init
    <2> QED
      BY <2>1, <2>2, <2>3, <2>4, <2>5 DEF Init, TypeOK
  <1>2. ClockIsAhead /\ HolderSignals /\ NoWakeupIsLost /\ ListIsAhead
    BY RealtimeAssumption DEF Init, ClockIsAhead, HolderSignals, NoWakeupIsLost, ListIsAhead,
       Waiting
  <1>3. Counted
    BY FS_EmptySet DEF Init, Counted
  <1>4. WaitedForIsThere /\ TimeIsReached /\ RunningIsKnown /\ Paced /\ DueWhenTaken
        /\ NoAssertionFails
    BY DEF Init, WaitedForIsThere, TimeIsReached, RunningIsKnown, Paced, DueWhenTaken,
       NoAssertionFails, Waiting
  <1> QED
    BY <1>1, <1>2, <1>3, <1>4 DEF IInv

\* A step that moves the main thread and its locals only
LEMMA MoveIInv ==
    ASSUME IInv,
           UNCHANGED << clockVars, listVars, running, runs, threadVars, condition, aborted >>,
           UNCHANGED << waited, target >>,
           stop' \in BOOLEAN, wait' \in Nat, deadline' \in [sec : Nat, nsec : Nat],
           pc' \in Waiting \union {"outside", "origin", "loop", "plan", "take", "event", "done",
                                   "leave"},
           pc' \in Waiting => pc \in Waiting,
           pc' = "asleep" => pc = "asleep" \/ ~condition,
           pc' = "take" => pc = "take" \/ (pc \in Waiting /\ target <= RealNow),
           pc' = "origin" <=> pc = "origin",
           pc' = "event" => pc = "event",
           pc' = "outside" => ~running,
           pc' \notin {"outside", "event"} => running
    PROVE  IInv'
  <1>1. TypeOK'
    BY DEF IInv, TypeOK, clockVars, listVars, threadVars
  <1>2. ClockIsAhead' /\ HolderSignals' /\ ListIsAhead' /\ Counted'
    BY DEF IInv, ClockIsAhead, HolderSignals, ListIsAhead, Counted, clockVars, listVars,
       threadVars
  <1>3. NoWakeupIsLost'
    BY DEF IInv, NoWakeupIsLost, listVars, threadVars
  <1>4. WaitedForIsThere' /\ TimeIsReached' /\ RunningIsKnown'
    BY DEF IInv, WaitedForIsThere, TimeIsReached, RunningIsKnown, RealNow, clockVars, listVars
  <1>5. Paced' /\ DueWhenTaken' /\ NoAssertionFails'
    BY DEF IInv, Paced, DueWhenTaken, NoAssertionFails, RealNow, clockVars, listVars
  <1> QED
    BY <1>1, <1>2, <1>3, <1>4, <1>5 DEF IInv

LEMMA AbortIInv ==
    ASSUME IInv, Abort, simOrigin > 0 \/ ~running \/ pc = "origin"
    PROVE  IInv'
  <1>1. TypeOK'
    BY DEF IInv, Abort, TypeOK, clockVars, listVars, runVars, waitVars, threadVars
  <1>2. ClockIsAhead' /\ HolderSignals' /\ ListIsAhead' /\ Counted' /\ NoWakeupIsLost'
    BY DEF IInv, Abort, ClockIsAhead, HolderSignals, ListIsAhead, Counted, NoWakeupIsLost,
       clockVars, listVars, threadVars, waitVars
  <1>3. WaitedForIsThere' /\ TimeIsReached' /\ RunningIsKnown'
    BY DEF IInv, Abort, WaitedForIsThere, TimeIsReached, RunningIsKnown, RealNow, clockVars,
       listVars, waitVars, runVars
  <1>4. Paced' /\ DueWhenTaken' /\ NoAssertionFails'
    BY DEF IInv, Abort, Paced, DueWhenTaken, NoAssertionFails, RealNow, clockVars, listVars,
       runVars
  <1> QED
    BY <1>1, <1>2, <1>3, <1>4 DEF IInv

-----------------------------------------------------------------------------
\* The steps of the waiting main thread

LEMMA DriftCorrectIInv == ASSUME IInv, DriftCorrect PROVE IInv'
  <1> DEFINE jiffies == Remaining \div Jiffy
  <1>1. jiffies > 3 => (jiffies - 3) * Jiffy \in Nat
    <2>1. Remaining \in Nat
      <3>1. target \in Nat /\ RealNow \in Int
        BY Numbers DEF IInv
      <3> QED
        BY <3>1 DEF Remaining
    <2>2. jiffies \in Int
      BY <2>1, RealtimeAssumption
    <2> HIDE DEF jiffies
    <2>3. ASSUME jiffies > 3 PROVE jiffies - 3 \in Nat
      BY <2>2, <2>3
    <2>4. \A m, n \in Nat : m * n \in Nat
      OBVIOUS
    <2> QED
      BY <2>3, <2>4, RealtimeAssumption
  <1> HIDE DEF jiffies
  <1>2. wait' \in Nat /\ pc' \in {"arm", "drift"}
    BY <1>1 DEF DriftCorrect, IInv, TypeOK, jiffies
  <1>3. pc \in Waiting /\ pc' \in Waiting /\ pc = "drift correct"
    BY <1>2 DEF DriftCorrect, MainAt, Waiting
  <1> QED
    BY <1>2, <1>3, MoveIInv DEF DriftCorrect, runVars, IInv, TypeOK, RunningIsKnown

LEMMA ArmTimerIInv == ASSUME IInv, ArmTimer PROVE IInv'
  <1>1. AbsoluteTime \in [sec : Nat, nsec : Nat]
    <2> DEFINE sec  == (wait \div Second) + (clock \div Second)
               nsec == (wait % Second) + (clock % Second)
    <2>1. sec \in Nat /\ nsec \in Nat
      <3>1. wait \in Nat /\ clock \in Nat
        BY DEF IInv, TypeOK
      <3>2. wait \div Second \in Nat /\ clock \div Second \in Nat
        BY <3>1, RealtimeAssumption
      <3>3. wait % Second \in Nat /\ clock % Second \in Nat
        BY <3>1, RealtimeAssumption
      <3> QED
        BY <3>2, <3>3
    <2> HIDE DEF sec, nsec
    <2>2. sec + 1 \in Nat /\ nsec % Second \in Nat
      BY <2>1, RealtimeAssumption
    <2> QED
      BY <2>1, <2>2 DEF AbsoluteTime, sec, nsec
  <1>2. pc = "arm" /\ pc' = "check" /\ pc \in Waiting /\ pc' \in Waiting
    BY DEF ArmTimer, MainAt, Waiting
  <1> QED
    BY <1>1, <1>2, MoveIInv DEF ArmTimer, runVars, IInv, TypeOK, RunningIsKnown

\* A step to another place of the wait, or back to the plan
LEMMA MoveInWaitIInv ==
    ASSUME IInv, pc \in Waiting, NEW place \in Waiting \union {"plan", "take"},
           MainGoesTo(place) \/ TimedWaitReturns(place),
           place = "asleep" => ~condition,
           place = "take" => target <= RealNow
    PROVE  IInv'
  <1>1. deadline' \in [sec : Nat, nsec : Nat]
    <2>1. CASE MainGoesTo(place)
      BY <2>1 DEF MainGoesTo, IInv, TypeOK, waitVars
    <2>2. CASE TimedWaitReturns(place)
      BY <2>2 DEF TimedWaitReturns, NoTime
    <2> QED
      BY <2>1, <2>2
  <1>2. /\ pc' = place /\ running
        /\ UNCHANGED << clockVars, listVars, running, runs, stop, threadVars, condition,
                        aborted, waited, target, wait >>
    BY DEF MainGoesTo, TimedWaitReturns, waitVars, runVars, IInv, RunningIsKnown, Waiting
  <1> QED
    BY <1>1, <1>2, MoveIInv DEF IInv, TypeOK, Waiting

LEMMA WaitStepIInv ==
    ASSUME IInv,
           CheckCondition \/ Timeout \/ WakesUp \/ DriftTest \/ SpinTime \/ SpinCondition
    PROVE  IInv'
  <1>1. CASE CheckCondition
    BY <1>1, MoveInWaitIInv DEF CheckCondition, MainAt, Waiting
  <1>2. CASE Timeout
    BY <1>2, MoveInWaitIInv DEF Timeout, MainAt, Waiting
  <1>3. CASE WakesUp
    BY <1>3, MoveInWaitIInv DEF WakesUp, MainAt, Waiting
  <1>4. CASE DriftTest
    <2>1. CASE RealNow >= target
      BY <1>4, <2>1, MoveInWaitIInv DEF DriftTest, MainAt, Waiting, RealNow, IInv, TypeOK
    <2>2. CASE ~(RealNow >= target)
      BY <1>4, <2>2, MoveInWaitIInv DEF DriftTest, MainAt, Waiting
    <2> QED
      BY <2>1, <2>2
  <1>5. CASE SpinTime
    <2>1. CASE RealNow >= target
      BY <1>5, <2>1, MoveInWaitIInv DEF SpinTime, MainAt, Waiting, RealNow, IInv, TypeOK
    <2>2. CASE ~(RealNow >= target)
      BY <1>5, <2>2, MoveInWaitIInv DEF SpinTime, MainAt, Waiting
    <2> QED
      BY <2>1, <2>2
  <1>6. CASE SpinCondition
    BY <1>6, MoveInWaitIInv DEF SpinCondition, MainAt, Waiting
  <1> QED
    BY <1>1, <1>2, <1>3, <1>4, <1>5, <1>6

LEMMA PlanIInv == ASSUME IInv, Plan PROVE IInv'
  <1>1. PICK next \in events :
              /\ Earliest(next)
              /\ waited' = next.ts
              /\ target' = IF next.ts <= RealNow THEN RealNow ELSE next.ts
    BY DEF Plan
  <1>2. /\ pc' = "drift correct" /\ pc = "plan" /\ mutex = "none" /\ condition' = FALSE
        /\ UNCHANGED << clockVars, listVars, runVars, wait, deadline, threadVars, aborted >>
    BY DEF Plan, MainEnters, MainAt
  <1>3. next \in Event /\ RealNow \in Nat
    BY Numbers, RealNowIsNat DEF IInv
  <1>4. waited' \in Nat /\ target' \in Nat /\ waited' <= target'
    BY <1>1, <1>3 DEF Event
  <1>5. TypeOK'
    BY <1>2, <1>4 DEF IInv, TypeOK, clockVars, listVars, runVars, threadVars, Waiting
  <1>6. \A t \in Threads : thread[t] = "elsewhere"
    BY <1>2, ThreadAssumption DEF IInv, HolderSignals
  <1>7. ClockIsAhead' /\ HolderSignals' /\ ListIsAhead' /\ Counted'
    BY <1>2, <1>6 DEF IInv, ClockIsAhead, HolderSignals, ListIsAhead, Counted, clockVars,
       listVars, threadVars
  <1>8. NoWakeupIsLost'
    <2>1. \A id \in events : ~(id.ts < next.ts)
      BY <1>1, Numbers DEF Earliest, Before, IInv
    <2> QED
      BY <1>1, <1>2, <2>1 DEF NoWakeupIsLost, listVars
  <1>9. WaitedForIsThere' /\ TimeIsReached' /\ RunningIsKnown'
    BY <1>1, <1>2, <1>4 DEF IInv, WaitedForIsThere, TimeIsReached, RunningIsKnown, listVars,
       runVars
  <1>10. Paced' /\ DueWhenTaken' /\ NoAssertionFails'
    BY <1>2 DEF IInv, Paced, DueWhenTaken, NoAssertionFails, RealNow, clockVars, listVars,
       runVars
  <1> QED
    BY <1>5, <1>7, <1>8, <1>9, <1>10 DEF IInv

\* The first event of the list is in time, and it is due when the main thread has waited
LEMMA TakeIInv ==
    ASSUME IInv, NEW next \in events, Earliest(next), Take(next),
           \/ pc = "take" \/ pc = "outside"
    PROVE  IInv'
  <1>1. next \in Event /\ ~(next.ts < currentTs) /\ next.uid < uid
    BY Numbers DEF IInv, ListIsAhead
  <1>2. /\ events' = events \ {next} /\ unscheduled' = unscheduled - 1
        /\ currentTs' = next.ts /\ currentUid' = next.uid
        /\ waited' = 0 /\ target' = 0 /\ pc' = "event"
        /\ UNCHANGED << clockVars, uid, runVars, wait, deadline, threadVars, condition,
                        aborted >>
    BY <1>1 DEF Take
  <1>3. TypeOK'
    <2>1. currentTs' \in Nat /\ currentUid' \in Nat /\ unscheduled' \in Int
      BY <1>2, Numbers DEF IInv
    <2>2. events' \in SUBSET Event
      BY <1>2 DEF IInv, TypeOK
    <2> QED
      BY <1>2, <2>1, <2>2 DEF IInv, TypeOK, clockVars, runVars, threadVars
  <1>4. ClockIsAhead' /\ HolderSignals' /\ NoWakeupIsLost'
    BY <1>2 DEF IInv, ClockIsAhead, HolderSignals, NoWakeupIsLost, Waiting, clockVars, threadVars
  <1>5. ListIsAhead'
    BY <1>2, Numbers DEF IInv, ListIsAhead, Earliest, Before
  <1>6. Counted'
    BY <1>2, FS_RemoveElement DEF IInv, Counted
  <1>7. WaitedForIsThere' /\ TimeIsReached' /\ RunningIsKnown'
    BY <1>2 DEF WaitedForIsThere, TimeIsReached, RunningIsKnown, Waiting
  <1>8. running => pc = "take"
    BY DEF IInv, RunningIsKnown
  <1>9. pc = "take" => next.ts <= RealNow
    <2> SUFFICES ASSUME pc = "take" PROVE next.ts <= RealNow
      OBVIOUS
    <2>1. PICK id \in events : id.ts = waited /\ waited <= target
      BY DEF IInv, WaitedForIsThere
    <2>2. next.ts <= id.ts
      BY Numbers DEF Earliest, Before, IInv
    <2>3. target <= RealNow /\ target \in Nat /\ waited \in Nat /\ RealNow \in Int
      BY Numbers DEF IInv, TimeIsReached
    <2> QED
      BY <1>1, <2>1, <2>2, <2>3 DEF Event
  <1>10. Paced' /\ DueWhenTaken'
    BY <1>2, <1>8, <1>9 DEF Paced, DueWhenTaken, RealNow, clockVars, runVars
  <1>11. NoAssertionFails'
    BY <1>2 DEF IInv, NoAssertionFails, clockVars, runVars
  <1> QED
    BY <1>3, <1>4, <1>5, <1>6, <1>7, <1>10, <1>11 DEF IInv

LEMMA TakeNextIInv == ASSUME IInv, TakeNext PROVE IInv'
  <1>1. pc = "take" /\ events # {}
    BY DEF TakeNext, MainEnters, MainAt, IInv, WaitedForIsThere
  <1> QED
    BY <1>1, TakeIInv DEF TakeNext

LEMMA RunOneEventIInv == ASSUME IInv, RunOneEvent PROVE IInv'
  BY TakeIInv DEF RunOneEvent, MainEnters, MainAt

-----------------------------------------------------------------------------
\* The other steps of the main thread

LEMMA EventReturnsIInv == ASSUME IInv, EventReturns PROVE IInv'
  <1> USE DEF EventReturns, MainGoesTo, MainAt, runVars, waitVars, Waiting
  <1>1. CASE running
    BY <1>1, MoveIInv DEF IInv, TypeOK
  <1>2. CASE ~running
    BY <1>2, MoveIInv DEF IInv, TypeOK
  <1> QED
    BY <1>1, <1>2

LEMMA LoopIInv == ASSUME IInv, Loop PROVE IInv'
  <1>1. pc = "loop" /\ running
    BY DEF Loop, MainEnters, MainAt, IInv, RunningIsKnown
  <1>2. pc' \in {"done", "plan"}
        /\ UNCHANGED << clockVars, listVars, runVars, waitVars, threadVars, condition, aborted >>
    BY DEF Loop
  <1> QED
    BY <1>1, <1>2, MoveIInv DEF runVars, waitVars, Waiting, IInv, TypeOK

LEMMA DoneIInv == ASSUME IInv, Done PROVE IInv'
  <1>1. ~(events = {} /\ unscheduled # 0)
    BY FS_EmptySet DEF IInv, Counted
  <1>2. pc = "done" /\ running
    BY DEF Done, MainEnters, MainAt, IInv, RunningIsKnown
  <1>3. pc' = "leave"
        /\ UNCHANGED << clockVars, listVars, runVars, waitVars, threadVars, condition, aborted >>
    BY <1>1 DEF Done
  <1> QED
    BY <1>2, <1>3, MoveIInv DEF runVars, waitVars, Waiting, IInv, TypeOK

LEMMA StopIInv == ASSUME IInv, MainStops PROVE IInv'
  <1>1. pc = "event" /\ stop' = TRUE
        /\ UNCHANGED << clockVars, listVars, running, runs, waitVars, threadVars, condition, pc,
                        aborted >>
    BY DEF MainStops, MainAt
  <1> QED
    BY <1>1, MoveIInv DEF waitVars, Waiting, IInv, TypeOK

LEMMA LeaveIInv == ASSUME IInv, Leave PROVE IInv'
  <1>1. /\ pc = "leave" /\ ~aborted /\ running' = FALSE /\ pc' = "outside"
        /\ UNCHANGED << clockVars, listVars, stop, runs, waitVars, threadVars, condition,
                        aborted >>
    BY DEF Leave, MainAt
  <1>2. TypeOK'
    BY <1>1 DEF IInv, TypeOK, clockVars, listVars, waitVars, threadVars
  <1>3. ClockIsAhead' /\ HolderSignals' /\ ListIsAhead' /\ Counted' /\ NoWakeupIsLost'
    BY <1>1 DEF IInv, ClockIsAhead, HolderSignals, ListIsAhead, Counted, NoWakeupIsLost,
       Waiting, clockVars, listVars, threadVars
  <1>4. WaitedForIsThere' /\ TimeIsReached' /\ RunningIsKnown' /\ Paced' /\ DueWhenTaken'
        /\ NoAssertionFails'
    BY <1>1 DEF WaitedForIsThere, TimeIsReached, RunningIsKnown, Paced, DueWhenTaken,
       NoAssertionFails, Waiting
  <1> QED
    BY <1>2, <1>3, <1>4 DEF IInv

LEMMA RunIInv == ASSUME IInv, Run PROVE IInv'
  <1>1. /\ pc = "outside" /\ ~aborted /\ runs' = runs + 1 /\ stop' = FALSE
        /\ running' = TRUE /\ pc' = "origin"
        /\ UNCHANGED << clockVars, listVars, waitVars, threadVars, condition, aborted >>
    BY DEF Run, MainAt
  <1>2. TypeOK'
    <2>1. runs' \in Nat
      BY <1>1, Numbers DEF IInv
    <2> QED
      BY <1>1, <2>1 DEF IInv, TypeOK, clockVars, listVars, waitVars, threadVars
  <1>3. ClockIsAhead' /\ HolderSignals' /\ ListIsAhead' /\ Counted' /\ NoWakeupIsLost'
    BY <1>1 DEF IInv, ClockIsAhead, HolderSignals, ListIsAhead, Counted, NoWakeupIsLost,
       Waiting, clockVars, listVars, threadVars
  <1>4. WaitedForIsThere' /\ TimeIsReached' /\ RunningIsKnown' /\ Paced' /\ DueWhenTaken'
        /\ NoAssertionFails'
    BY <1>1 DEF WaitedForIsThere, TimeIsReached, RunningIsKnown, Paced, DueWhenTaken,
       NoAssertionFails, Waiting
  <1> QED
    BY <1>2, <1>3, <1>4 DEF IInv

\* Only a Run that begins at zero is paced
LEMMA SetOriginIInv == ASSUME IInv, SetOrigin PROVE IInv'
  <1>1. /\ pc = "origin" /\ ~aborted /\ origin' = clock /\ simOrigin' = currentTs
        /\ pc' = "loop"
        /\ UNCHANGED << clock, listVars, runVars, waitVars, threadVars, condition, aborted >>
    BY DEF SetOrigin, MainAt
  <1>2. TypeOK'
    BY <1>1 DEF IInv, TypeOK, listVars, runVars, waitVars, threadVars
  <1>3. ClockIsAhead' /\ HolderSignals' /\ ListIsAhead' /\ Counted' /\ NoWakeupIsLost'
    <2>1. ClockIsAhead'
      BY <1>1, Numbers DEF IInv, ClockIsAhead
    <2>2. HolderSignals' /\ ListIsAhead' /\ Counted' /\ NoWakeupIsLost'
      BY <1>1 DEF IInv, HolderSignals, ListIsAhead, Counted, NoWakeupIsLost, Waiting, listVars,
         threadVars
    <2> QED
      BY <2>1, <2>2
  <1>4. WaitedForIsThere' /\ TimeIsReached' /\ RunningIsKnown' /\ DueWhenTaken'
        /\ NoAssertionFails'
    BY <1>1 DEF IInv, WaitedForIsThere, TimeIsReached, RunningIsKnown, DueWhenTaken,
       NoAssertionFails, Waiting, runVars
  <1>5. Paced'
    <2>1. RealNow' = 0 /\ currentTs' = currentTs
      BY <1>1, Numbers DEF RealNow, listVars, IInv
    <2> QED
      BY <1>1, <2>1 DEF Paced
  <1> QED
    BY <1>2, <1>3, <1>4, <1>5 DEF IInv

LEMMA RemoveIInv == ASSUME IInv, NEW id \in events, MainRemoves(id) PROVE IInv'
  <1>1. /\ pc \in {"outside", "event"} /\ events' = events \ {id}
        /\ unscheduled' = unscheduled - 1
        /\ UNCHANGED << clockVars, currentTs, currentUid, uid, runVars, waitVars, threadVars,
                        condition, pc, aborted >>
    BY DEF MainRemoves, MainCalls, MainAt
  <1>2. TypeOK'
    <2>1. events' \in SUBSET Event /\ unscheduled' \in Int
      BY <1>1, Numbers DEF IInv
    <2> QED
      BY <1>1, <2>1 DEF IInv, TypeOK, clockVars, runVars, waitVars, threadVars
  <1>3. ClockIsAhead' /\ HolderSignals' /\ ListIsAhead' /\ NoWakeupIsLost'
    BY <1>1 DEF IInv, ClockIsAhead, HolderSignals, ListIsAhead, NoWakeupIsLost, Waiting,
       clockVars, threadVars
  <1>4. Counted'
    BY <1>1, FS_RemoveElement DEF IInv, Counted
  <1>5. WaitedForIsThere' /\ TimeIsReached' /\ RunningIsKnown'
    BY <1>1 DEF IInv, WaitedForIsThere, TimeIsReached, RunningIsKnown, Waiting, runVars
  <1>6. Paced' /\ DueWhenTaken' /\ NoAssertionFails'
    BY <1>1 DEF IInv, Paced, DueWhenTaken, NoAssertionFails, RealNow, clockVars, runVars
  <1> QED
    BY <1>2, <1>3, <1>4, <1>5, <1>6 DEF IInv

-----------------------------------------------------------------------------
\* The schedule operations

\* A new event is in time, or the Run did not begin at zero
LEMMA NewTimesAreInTime ==
    ASSUME IInv, NEW ts \in NewTimes
    PROVE  /\ ts \in Nat
           /\ ts < currentTs => simOrigin > 0 \/ ~running \/ pc = "origin"
  <1>1. RealNow \in Nat /\ currentTs \in Nat /\ simOrigin \in Nat
    BY Numbers, RealNowIsNat DEF IInv
  <1>2. NowTs \in Nat /\ (running => NowTs = RealNow) /\ (~running => NowTs = currentTs)
    BY <1>1 DEF NowTs, IInv, TypeOK
  <1>3. running /\ pc # "origin" /\ simOrigin = 0 => currentTs <= RealNow
    BY DEF IInv, Paced
  <1>4. CASE \E d \in Delays : ts = currentTs + d
    BY <1>1, <1>4, RealtimeAssumption
  <1>5. CASE \E d \in Delays : ts = RealNow + d
    BY <1>1, <1>3, <1>5, RealtimeAssumption
  <1>6. CASE ts = NowTs
    BY <1>1, <1>2, <1>3, <1>6
  <1> QED
    BY <1>4, <1>5, <1>6 DEF NewTimes

\* What Insert does to the parts of the invariant that are about the list
LEMMA InsertKeepsList ==
    ASSUME IInv, NEW ts \in Nat, ts >= currentTs, Insert(ts)
    PROVE  /\ events' \in SUBSET Event /\ uid' \in Nat /\ unscheduled' \in Int
           /\ UNCHANGED << currentTs, currentUid >>
           /\ events \subseteq events'
           /\ ListIsAhead' /\ Counted'
  <1> DEFINE ev == [ts |-> ts, uid |-> uid]
  <1>1. /\ events' = events \union {ev} /\ uid' = uid + 1 /\ unscheduled' = unscheduled + 1
        /\ UNCHANGED << currentTs, currentUid >>
    BY DEF Insert
  <1>2. ev \in Event /\ ev.ts = ts /\ ev.uid = uid /\ uid \in Nat
    BY DEF Event, IInv, TypeOK
  <1>3. ev \notin events
    BY <1>2 DEF IInv, ListIsAhead
  <1>4. events' \in SUBSET Event /\ uid' \in Nat /\ unscheduled' \in Int
    BY <1>1, <1>2, Numbers DEF IInv
  <1>5. ListIsAhead'
    BY <1>1, <1>2, Numbers DEF IInv, ListIsAhead
  <1>6. Counted'
    <2>1. IsFiniteSet(events') /\ Cardinality(events') = Cardinality(events) + 1
      BY <1>1, <1>3, FS_AddElement DEF IInv, Counted
    <2> QED
      BY <1>1, <2>1 DEF IInv, Counted
  <1> QED
    BY <1>1, <1>4, <1>5, <1>6

LEMMA ThreadInsertsIInv == ASSUME IInv, NEW t \in Threads, ThreadInserts(t) PROVE IInv'
  <1>1. PICK ts \in NewTimes :
          IF ts < currentTs THEN Abort
          ELSE /\ Insert(ts)
               /\ mutex' = t
               /\ thread' = [thread EXCEPT ![t] = "inserted"]
               /\ UNCHANGED << clockVars, runVars, waitVars, condition, pc, aborted >>
    BY DEF ThreadInserts
  <1>2. ts \in Nat /\ (ts < currentTs => simOrigin > 0 \/ ~running \/ pc = "origin")
    BY NewTimesAreInTime
  <1>3. CASE ts < currentTs
    BY <1>1, <1>2, <1>3, AbortIInv
  <1>4. CASE ~(ts < currentTs)
    <2>1. /\ Insert(ts) /\ mutex' = t
          /\ thread' = [thread EXCEPT ![t] = "inserted"]
          /\ UNCHANGED << clockVars, runVars, waitVars, condition, pc, aborted >>
      BY <1>1, <1>4
    <2>2. ts >= currentTs
      BY <1>2, <1>4, Numbers DEF IInv
    <2>3. /\ events' \in SUBSET Event /\ uid' \in Nat /\ unscheduled' \in Int
          /\ UNCHANGED << currentTs, currentUid >> /\ events \subseteq events'
          /\ ListIsAhead' /\ Counted'
      BY <1>2, <2>1, <2>2, InsertKeepsList
    <2>4. thread' \in [Threads -> {"elsewhere", "inserted", "condition set"}]
          /\ thread'[t] = "inserted"
      BY <2>1 DEF IInv, TypeOK
    <2>5. TypeOK'
      BY <2>1, <2>3, <2>4 DEF IInv, TypeOK, clockVars, runVars, waitVars
    <2>6. \A s \in Threads : thread[s] = "elsewhere"
      BY ThreadAssumption DEF ThreadInserts, IInv, HolderSignals
    <2>7. HolderSignals'
      BY <2>1, <2>4, <2>6 DEF HolderSignals, IInv, TypeOK
    <2>8. NoWakeupIsLost'
      <3>1. ~(pc = "asleep" /\ condition)
        BY <2>6 DEF IInv, NoWakeupIsLost
      <3> QED
        BY <2>1, <2>4, <3>1 DEF NoWakeupIsLost, waitVars
    <2>9. ClockIsAhead' /\ WaitedForIsThere' /\ TimeIsReached' /\ RunningIsKnown'
      BY <2>1, <2>3 DEF IInv, ClockIsAhead, WaitedForIsThere, TimeIsReached, RunningIsKnown,
         RealNow, clockVars, runVars, waitVars
    <2>10. Paced' /\ DueWhenTaken' /\ NoAssertionFails'
      BY <2>1, <2>3 DEF IInv, Paced, DueWhenTaken, NoAssertionFails, RealNow, clockVars, runVars
    <2> QED
      BY <2>3, <2>5, <2>7, <2>8, <2>9, <2>10 DEF IInv
  <1> QED
    BY <1>3, <1>4

LEMMA MainSchedulesIInv == ASSUME IInv, MainSchedules PROVE IInv'
  <1>1. PICK ts \in NewTimes :
          IF ts < currentTs THEN Abort
          ELSE /\ Insert(ts)
               /\ condition' = TRUE
               /\ UNCHANGED << clockVars, runVars, waitVars, threadVars, pc, aborted >>
    BY DEF MainSchedules
  <1>2. ts \in Nat /\ (ts < currentTs => simOrigin > 0 \/ ~running \/ pc = "origin")
    BY NewTimesAreInTime
  <1>3. CASE ts < currentTs
    BY <1>1, <1>2, <1>3, AbortIInv
  <1>4. CASE ~(ts < currentTs)
    <2>1. /\ Insert(ts) /\ condition' = TRUE
          /\ UNCHANGED << clockVars, runVars, waitVars, threadVars, pc, aborted >>
      BY <1>1, <1>4
    <2>2. ts >= currentTs
      BY <1>2, <1>4, Numbers DEF IInv
    <2>3. /\ events' \in SUBSET Event /\ uid' \in Nat /\ unscheduled' \in Int
          /\ UNCHANGED << currentTs, currentUid >> /\ events \subseteq events'
          /\ ListIsAhead' /\ Counted'
      BY <1>2, <2>1, <2>2, InsertKeepsList
    <2>4. pc \in {"outside", "event"}
      BY DEF MainSchedules, MainCalls, MainAt
    <2>5. TypeOK'
      BY <2>1, <2>3 DEF IInv, TypeOK, clockVars, runVars, waitVars, threadVars
    <2>6. HolderSignals' /\ NoWakeupIsLost'
      BY <2>1, <2>4 DEF IInv, HolderSignals, NoWakeupIsLost, Waiting, threadVars
    <2>7. ClockIsAhead' /\ WaitedForIsThere' /\ TimeIsReached' /\ RunningIsKnown'
      BY <2>1, <2>3 DEF IInv, ClockIsAhead, WaitedForIsThere, TimeIsReached, RunningIsKnown,
         RealNow, clockVars, runVars, waitVars
    <2>8. Paced' /\ DueWhenTaken' /\ NoAssertionFails'
      BY <2>1, <2>3 DEF IInv, Paced, DueWhenTaken, NoAssertionFails, RealNow, clockVars, runVars
    <2> QED
      BY <2>3, <2>5, <2>6, <2>7, <2>8 DEF IInv
  <1> QED
    BY <1>3, <1>4

LEMMA ThreadReleasesIInv == ASSUME IInv, NEW t \in Threads, ThreadReleases(t) PROVE IInv'
  <1>1. CASE ThreadSetsCondition(t)
    <2>1. /\ thread[t] = "inserted" /\ condition' = TRUE
          /\ thread' = [thread EXCEPT ![t] = "condition set"]
          /\ UNCHANGED << clockVars, listVars, runVars, waitVars, mutex, pc, aborted >>
      BY <1>1 DEF ThreadSetsCondition
    <2>2. thread' \in [Threads -> {"elsewhere", "inserted", "condition set"}]
          /\ thread'[t] = "condition set"
      BY <2>1 DEF IInv, TypeOK
    <2>3. TypeOK'
      BY <2>1, <2>2 DEF IInv, TypeOK, clockVars, listVars, runVars, waitVars
    <2>4. HolderSignals'
      BY <2>1, <2>2 DEF IInv, TypeOK, HolderSignals
    <2>5. NoWakeupIsLost'
      BY <2>1, <2>2 DEF NoWakeupIsLost
    <2>6. ClockIsAhead' /\ ListIsAhead' /\ Counted' /\ WaitedForIsThere' /\ TimeIsReached'
          /\ RunningIsKnown'
      BY <2>1 DEF IInv, ClockIsAhead, ListIsAhead, Counted, WaitedForIsThere, TimeIsReached,
         RunningIsKnown, RealNow, clockVars, listVars, runVars, waitVars
    <2>7. Paced' /\ DueWhenTaken' /\ NoAssertionFails'
      BY <2>1 DEF IInv, Paced, DueWhenTaken, NoAssertionFails, RealNow, clockVars, listVars,
         runVars
    <2> QED
      BY <2>3, <2>4, <2>5, <2>6, <2>7 DEF IInv
  <1>2. CASE ThreadSignals(t)
    <2>1. /\ thread[t] = "condition set" /\ mutex' = "none"
          /\ pc' = IF pc = "asleep" THEN "check" ELSE pc
          /\ thread' = [thread EXCEPT ![t] = "elsewhere"]
          /\ UNCHANGED << clockVars, listVars, runVars, waitVars, condition, aborted >>
      BY <1>2 DEF ThreadSignals
    <2>2. thread' \in [Threads -> {"elsewhere", "inserted", "condition set"}]
      BY <2>1 DEF IInv, TypeOK
    <2>3. TypeOK'
      BY <2>1, <2>2 DEF IInv, TypeOK, clockVars, listVars, runVars, waitVars, Waiting
    <2>4. \A s \in Threads : thread'[s] = "elsewhere"
      BY <2>1, <2>2 DEF IInv, TypeOK, HolderSignals
    <2>5. HolderSignals' /\ condition
      BY <2>1, <2>4 DEF IInv, HolderSignals
    <2>6. NoWakeupIsLost'
      BY <2>1, <2>5 DEF NoWakeupIsLost
    <2>7. ClockIsAhead' /\ ListIsAhead' /\ Counted' /\ WaitedForIsThere' /\ TimeIsReached'
          /\ RunningIsKnown'
      BY <2>1 DEF IInv, ClockIsAhead, ListIsAhead, Counted, WaitedForIsThere, TimeIsReached,
         RunningIsKnown, RealNow, clockVars, listVars, runVars, waitVars, Waiting
    <2>8. Paced' /\ DueWhenTaken' /\ NoAssertionFails'
      BY <2>1 DEF IInv, Paced, DueWhenTaken, NoAssertionFails, RealNow, clockVars, listVars,
         runVars
    <2> QED
      BY <2>3, <2>5, <2>6, <2>7, <2>8 DEF IInv
  <1> QED
    BY <1>1, <1>2 DEF ThreadReleases

LEMMA TickIInv == ASSUME IInv, Tick PROVE IInv'
  <1>1. clock' = clock + 1
        /\ UNCHANGED << origin, simOrigin, listVars, runVars, waitVars, threadVars, condition,
                        pc, aborted >>
    BY DEF Tick
  <1>2. clock \in Nat /\ RealNow \in Int /\ RealNow' = RealNow + 1
    BY <1>1, Numbers DEF IInv, RealNow
  <1>3. TypeOK'
    <2>1. clock' \in Nat
      BY <1>1, <1>2
    <2> QED
      BY <1>1, <2>1 DEF IInv, TypeOK, listVars, runVars, waitVars, threadVars
  <1>4. ClockIsAhead'
    BY <1>1, Numbers DEF IInv, ClockIsAhead
  <1>5. HolderSignals' /\ ListIsAhead' /\ Counted' /\ NoWakeupIsLost'
    BY <1>1 DEF IInv, HolderSignals, ListIsAhead, Counted, NoWakeupIsLost, listVars, threadVars,
       waitVars
  <1>6. WaitedForIsThere' /\ RunningIsKnown' /\ NoAssertionFails'
    BY <1>1 DEF IInv, WaitedForIsThere, RunningIsKnown, NoAssertionFails, listVars, waitVars,
       runVars
  <1>7. currentTs \in Nat /\ target \in Nat
    BY Numbers DEF IInv
  <1>8. TimeIsReached'
    BY <1>1, <1>2, <1>7 DEF IInv, TimeIsReached, waitVars
  <1>9. Paced' /\ DueWhenTaken'
    BY <1>1, <1>2, <1>7 DEF IInv, Paced, DueWhenTaken, listVars, runVars
  <1> QED
    BY <1>3, <1>4, <1>5, <1>6, <1>8, <1>9 DEF IInv

-----------------------------------------------------------------------------

LEMMA MainStepIInv == ASSUME IInv, MainStep PROVE IInv'
  <1>1. CASE SetOrigin
    BY <1>1, SetOriginIInv
  <1>2. CASE Loop
    BY <1>2, LoopIInv
  <1>3. CASE Done
    BY <1>3, DoneIInv
  <1>4. CASE Leave
    BY <1>4, LeaveIInv
  <1>5. CASE Plan
    BY <1>5, PlanIInv
  <1>6. CASE DriftCorrect
    BY <1>6, DriftCorrectIInv
  <1>7. CASE ArmTimer
    BY <1>7, ArmTimerIInv
  <1>8. CASE CheckCondition \/ Timeout \/ WakesUp \/ DriftTest \/ SpinTime \/ SpinCondition
    BY <1>8, WaitStepIInv
  <1>9. CASE TakeNext
    BY <1>9, TakeNextIInv
  <1>10. CASE EventReturns
    BY <1>10, EventReturnsIInv
  <1> QED
    BY <1>1, <1>2, <1>3, <1>4, <1>5, <1>6, <1>7, <1>8, <1>9, <1>10 DEF MainStep

LEMMA StutterIInv == ASSUME IInv, UNCHANGED vars PROVE IInv'
  BY MoveIInv DEF vars, runVars, waitVars, IInv, TypeOK, RunningIsKnown

LEMMA NextIInv == ASSUME IInv, [Next]_vars PROVE IInv'
  <1>1. CASE Tick
    BY <1>1, TickIInv
  <1>2. CASE Run
    BY <1>2, RunIInv
  <1>3. CASE RunOneEvent
    BY <1>3, RunOneEventIInv
  <1>4. CASE MainSchedules
    BY <1>4, MainSchedulesIInv
  <1>5. CASE MainStops
    BY <1>5, StopIInv
  <1>6. CASE \E id \in events : MainRemoves(id)
    BY <1>6, RemoveIInv
  <1>7. CASE MainStep
    BY <1>7, MainStepIInv
  <1>8. CASE \E t \in Threads : ThreadInserts(t)
    BY <1>8, ThreadInsertsIInv
  <1>9. CASE \E t \in Threads : ThreadReleases(t)
    BY <1>9, ThreadReleasesIInv
  <1>10. CASE UNCHANGED vars
    BY <1>10, StutterIInv
  <1> QED
    BY <1>1, <1>2, <1>3, <1>4, <1>5, <1>6, <1>7, <1>8, <1>9, <1>10 DEF Next

LEMMA Invariant == Spec => []IInv
  <1>1. Init => IInv
    BY InitIInv
  <1>2. IInv /\ [Next]_vars => IInv'
    BY NextIInv
  <1> QED
    BY <1>1, <1>2, PTL DEF Spec

\* The members of RealtimeSimulatorImpl and of its synchronizer keep their types.
THEOREM RealtimeTypeCorrect == Spec => []TypeOK
  <1>1. IInv => TypeOK
    BY DEF IInv
  <1> QED
    BY <1>1, Invariant, PTL

\* Whatever number of threads schedule whatever events, an event that has to come before the
\* one that Run waits for interrupts the wait.
THEOREM WakeupsAreNotLost == Spec => []NoWakeupIsLost
  <1>1. IInv => NoWakeupIsLost
    BY DEF IInv
  <1> QED
    BY <1>1, Invariant, PTL

\* Run takes no event before the wall clock has reached its time, even though the event may
\* not be the one that it waited for.
THEOREM EventsAreDue == Spec => []DueWhenTaken
  <1>1. IInv => DueWhenTaken
    BY DEF IInv
  <1> QED
    BY <1>1, Invariant, PTL

\* The assertions about the order of time, the missing event and the count of the events hold
\* in a Run that begins at simulation time zero.
THEOREM RealtimeAssertionsHold == Spec => []NoAssertionFails
  <1>1. IInv => NoAssertionFails
    BY DEF IInv
  <1> QED
    BY <1>1, Invariant, PTL
=============================================================================
