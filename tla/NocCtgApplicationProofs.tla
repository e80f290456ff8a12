---------------------- MODULE NocCtgApplicationProofs ----------------------
(***************************************************************************)
(* Theorems about NocCtgApplication, for every task graph, clock, limit    *)
(* and stop time.                                                          *)
(***************************************************************************)
EXTENDS NocCtgApplication, FiniteSetTheorems, SequenceTheorems, TLAPS

NumberOfDestinations == Len(setting.localTaskList)

(***************************************************************************)
(* The inductive invariant.                                                *)
(***************************************************************************)

\* Nothing happens before StartApplication.
NotRunning ==
  ~running => /\ executionAvailabilityTime = 0
              /\ currentIteration = 0
              /\ started = <<>>
              /\ \A i \in Iteration : ~injectionStarted[i]

\* An iteration has one event at most, and one only while it has data to send.
EventsOfIteration ==
  \A i \in Iteration :
    /\ ~injectionStarted[i] =>
         startEvent[i] = Nothing /\ sendEvent[i] = Nothing /\ destinationIndex[i] = 0
    /\ startEvent[i] # Nothing => sendEvent[i] = Nothing
    /\ startEvent[i] # Nothing \/ sendEvent[i] # Nothing =>
         destinationIndex[i] < NumberOfDestinations
    /\ sendEvent[i] # Nothing => MayContinue(totBytes[i], totFlits[i])

\* A node that waits for its predecessors starts the iterations before the current one.
StartedBeforeCurrent ==
  ~ContainsNotDependentTask /\ Predecessor # {} =>
    \A i \in Iteration : injectionStarted[i] => i < currentIteration

\* What was started was injected, and the core is available when the last one starts.
StartedIsInjected ==
  /\ \A k \in 1 .. Len(started) : injectionStarted[started[k].iteration]
  /\ setting.localTaskList = <<>> => started = <<>>
  /\ started # <<>> => executionAvailabilityTime = started[Len(started)].at

\* The flits of the destination that is being sent to; nothing was sent to later ones.
SentSoFar ==
  \A i \in Iteration, k \in Destinations :
    /\ k = destinationIndex[i] + 1 =>
         /\ sent[i][k] = taskBytes[i]
         /\ taskBytes[i] < setting.localTaskList[k].data
         /\ setting.localTaskList[k].node = Self => taskBytes[i] = 0
    /\ k > destinationIndex[i] + 1 => sent[i][k] = 0

\* StopApplication comes at its time, and leaves no event behind.
StopInTime ==
  /\ appStop # Nothing => now <= appStop /\ 0 < appStop
  /\ appStop = Nothing /\ setting.stopTime > 0 =>
       /\ setting.stopTime <= now
       /\ Predecessor = {} => startEvent = NoEvent /\ sendEvent = NoEvent

Control == NotRunning /\ EventsOfIteration /\ StartedBeforeCurrent /\ StartedIsInjected

IInv ==
  /\ TypeOK
  /\ Control
  /\ SentSoFar
  /\ StopInTime
  /\ SendsTheData
  /\ StartsOnce
  /\ ExecutionsApart
  /\ ExecutesInTurn
  /\ RespectsLimits

(***************************************************************************)
(* Sums: m_totalData is a natural number, not smaller than what any one    *)
(* predecessor sends.  Sums over the subsets of a finite set exist, by     *)
(* induction on their size.                                                *)
(***************************************************************************)
LessNat == {p \in Nat \X Nat : p[1] < p[2]}

LEMMA LeastOf ==
  ASSUME NEW T \in SUBSET Nat, T # {}
  PROVE  \E x \in T : \A y \in T : x <= y
  <1>1. IsWellFoundedOn(LessNat, Nat)
    BY NatLessThanWellFounded DEF OpToRel, LessNat
  <1>2. PICK x \in T : \A y \in T : <<y, x>> \notin LessNat
    BY <1>1, WFMin
  <1>3. \A y \in T : ~(y < x)
    BY <1>2 DEF LessNat
  <1> QED BY <1>3

LEMMA Induction ==
  ASSUME NEW n \in Nat, NEW P \in SUBSET (0 .. n), 0 \in P,
         \A k \in 1 .. n : k - 1 \in P => k \in P
  PROVE  P = 0 .. n
  <1> DEFINE T == (0 .. n) \ P
  <1>1. SUFFICES ASSUME T # {} PROVE FALSE
    OBVIOUS
  <1>2. T \in SUBSET Nat
    OBVIOUS
  <1>3. PICK x \in T : \A y \in T : x <= y
    <2> HIDE DEF T
    <2> QED BY <1>1, <1>2, LeastOf
  <1>4. x \in 1 .. n /\ x - 1 \in 0 .. n /\ x - 1 \notin T
    BY <1>3
  <1> QED BY <1>3, <1>4

Some(s) == CHOOSE x \in s : TRUE
\* The subsets with k elements at most, and a family of sums over the sets in T.
Small(D, k) == {s \in SUBSET D : Cardinality(s) <= k}
Sums(it, r, T) ==
  it \in [T -> Nat] /\ \A s \in T : it[s] = IF s = {} THEN 0 ELSE r[Some(s)].data + it[s \ {Some(s)}]

Data(r, D) == \A p \in D : r[p].data \in Nat

LEMMA WithoutOne ==
  ASSUME NEW D, IsFiniteSet(D), NEW s \in SUBSET D
  PROVE  /\ IsFiniteSet(s) /\ Cardinality(s) \in 0 .. Cardinality(D)
         /\ Cardinality(s) = 0 <=> s = {}
         /\ s # {} => /\ Some(s) \in s
                      /\ s \ {Some(s)} \in SUBSET D
                      /\ Cardinality(s \ {Some(s)}) = Cardinality(s) - 1
  <1>1. IsFiniteSet(s) /\ Cardinality(s) <= Cardinality(D)
    BY FS_Subset
  <1>2. Cardinality(s) \in Nat /\ Cardinality(D) \in Nat
    BY <1>1, FS_CardinalityType
  <1>3. Cardinality(s) = 0 <=> s = {}
    BY <1>1, FS_EmptySet
  <1>4. s # {} => Some(s) \in s
    BY DEF Some
  <1>5. s # {} => Cardinality(s \ {Some(s)}) = Cardinality(s) - 1
    BY <1>1, <1>4, FS_RemoveElement
  <1> QED BY <1>1, <1>2, <1>3, <1>4, <1>5

LEMMA SmallSubset ==
  ASSUME NEW D, IsFiniteSet(D), NEW k \in Nat, NEW s
  PROVE  s \in Small(D, k) <=> s \in SUBSET D /\ Cardinality(s) \in 0 .. k
  <1>1. s \in SUBSET D => Cardinality(s) \in Nat
    BY FS_Subset, FS_CardinalityType
  <1> QED BY <1>1 DEF Small

LEMMA SumsExist ==
  ASSUME NEW D, IsFiniteSet(D), NEW r, Data(r, D)
  PROVE  \E it : Sums(it, r, SUBSET D)
  <1> DEFINE n == Cardinality(D)
             P == {k \in 0 .. n : \E it : Sums(it, r, Small(D, k))}
  <1>0. n \in Nat
    BY FS_CardinalityType
  <1>1. 0 \in P
    <2> DEFINE it == [s \in Small(D, 0) |-> 0]
    <2>1. \A s \in Small(D, 0) : s = {}
      <3>1. \A s \in SUBSET D : Cardinality(s) = 0 <=> s = {}
        BY WithoutOne
      <3> QED BY <3>1, SmallSubset
    <2>2. Sums(it, r, Small(D, 0))
      BY <2>1 DEF Sums
    <2> HIDE DEF it
    <2> QED BY <2>2, <1>0
  <1>2. ASSUME NEW k \in 1 .. n, k - 1 \in P PROVE k \in P
    <2>1. PICK a : Sums(a, r, Small(D, k - 1))
      BY <1>2
    <2> DEFINE it == [s \in Small(D, k) |->
                        IF s = {} THEN 0 ELSE r[Some(s)].data + a[s \ {Some(s)}]]
    <2>2. ASSUME NEW s \in Small(D, k), s # {}
          PROVE  s \ {Some(s)} \in Small(D, k - 1) /\ s \in SUBSET D /\ s \ {Some(s)} \in Small(D, k)
      <3>1. Cardinality(s) \in Nat /\ Cardinality(s) <= k /\ s \in SUBSET D
        BY SmallSubset
      <3>2. s \ {Some(s)} \in SUBSET D /\ Cardinality(s \ {Some(s)}) = Cardinality(s) - 1 /\ Some(s) \in s
        BY <3>1, <2>2, WithoutOne
      <3>3. Cardinality(s) # 0
        BY <3>1, <2>2, WithoutOne
      <3>4. Cardinality(s) - 1 \in 0 .. k - 1 /\ Cardinality(s) - 1 \in 0 .. k
        BY <3>1, <3>3
      <3> QED BY <3>1, <3>2, <3>4, SmallSubset
    <2>3. it \in [Small(D, k) -> Nat]
      <3>1. ASSUME NEW s \in Small(D, k), s # {} PROVE r[Some(s)].data + a[s \ {Some(s)}] \in Nat
        <4>1. a[s \ {Some(s)}] \in Nat /\ s \in SUBSET D
          BY <2>1, <2>2, <3>1 DEF Sums
        <4>2. r[Some(s)].data \in Nat
          BY <3>1, <4>1 DEF Some, Data
        <4> QED BY <4>1, <4>2
      <3> QED BY <3>1
    <2>4. ASSUME NEW s \in Small(D, k - 1) PROVE it[s] = a[s]
      <3>1. s \in Small(D, k)
        <4>1. Cardinality(s) \in Nat /\ Cardinality(s) <= k - 1 /\ s \in SUBSET D
          BY SmallSubset
        <4>2. Cardinality(s) \in 0 .. k
          BY <4>1, SmallSubset
        <4> QED BY <4>1, <4>2, SmallSubset
      <3> QED BY <3>1, <2>1 DEF Sums
    <2>5. ASSUME NEW s \in Small(D, k)
          PROVE  it[s] = IF s = {} THEN 0 ELSE r[Some(s)].data + it[s \ {Some(s)}]
      <3>1. CASE s = {}
        BY <3>1
      <3>2. CASE s # {}
        <4>1. it[s] = r[Some(s)].data + a[s \ {Some(s)}]
          BY <3>2
        <4>2. it[s \ {Some(s)}] = a[s \ {Some(s)}]
          BY <3>2, <2>2, <2>4
        <4> HIDE DEF it
        <4> QED BY <4>1, <4>2, <3>2
      <3> QED BY <3>1, <3>2
    <2> HIDE DEF it
    <2>6. Sums(it, r, Small(D, k))
      BY <2>3, <2>5 DEF Sums
    <2> QED BY <2>6
  <1>3. n \in P
    <2> HIDE DEF P
    <2>1. P \in SUBSET (0 .. n)
      BY DEF P
    <2>2. P = 0 .. n
      BY <2>1, <1>0, <1>1, <1>2, Induction
    <2> QED BY <2>2, <1>0
  <1>4. Small(D, n) = SUBSET D
    <2>1. \A s \in SUBSET D : Cardinality(s) \in 0 .. n
      BY WithoutOne
    <2> QED BY <2>1, <1>0, SmallSubset
  <1> QED BY <1>3, <1>4

\* Every subset is made from the empty one.
LEMMA SubsetInduction ==
  ASSUME NEW D, IsFiniteSet(D), NEW Q \in SUBSET (SUBSET D), {} \in Q,
         \A s \in SUBSET D : s # {} /\ s \ {Some(s)} \in Q => s \in Q
  PROVE  Q = SUBSET D
  <1> DEFINE n == Cardinality(D)
             P == {k \in 0 .. n : Small(D, k) \subseteq Q}
  <1>0. n \in Nat
    BY FS_CardinalityType
  <1>1. 0 \in P
    <2>1. \A s \in SUBSET D : Cardinality(s) = 0 <=> s = {}
      BY WithoutOne
    <2>2. \A s \in Small(D, 0) : s = {}
      BY <2>1, SmallSubset
    <2>3. Small(D, 0) \subseteq Q
      BY <2>2
    <2> QED BY <2>3, <1>0
  <1>2. ASSUME NEW k \in 1 .. n, k - 1 \in P PROVE k \in P
    <2>1. ASSUME NEW s \in Small(D, k), s # {} PROVE s \in Q
      <3>1. s \in SUBSET D /\ Cardinality(s) \in 0 .. k
        BY SmallSubset
      <3>2. s \ {Some(s)} \in SUBSET D /\ Cardinality(s \ {Some(s)}) \in 0 .. k - 1
        <4>1. s \ {Some(s)} \in SUBSET D /\ Cardinality(s \ {Some(s)}) = Cardinality(s) - 1
              /\ Cardinality(s) # 0
          BY <3>1, <2>1, WithoutOne
        <4> QED BY <4>1, <3>1
      <3>3. s \ {Some(s)} \in Small(D, k - 1)
        BY <3>2, SmallSubset
      <3> QED BY <3>1, <3>3, <2>1, <1>2
    <2> QED BY <2>1
  <1>3. n \in P
    <2> HIDE DEF P
    <2>1. P \in SUBSET (0 .. n)
      BY DEF P
    <2>2. P = 0 .. n
      BY <2>1, <1>0, <1>1, <1>2, Induction
    <2> QED BY <2>2, <1>0
  <1>4. \A s \in SUBSET D : Cardinality(s) \in 0 .. n
    BY WithoutOne
  <1>5. SUBSET D \subseteq Q
    BY <1>0, <1>3, <1>4, SmallSubset
  <1> QED BY <1>5

LEMMA SumIs ==
  ASSUME NEW D, IsFiniteSet(D), NEW r, Data(r, D), D = DOMAIN r
  PROVE  \E it : Sums(it, r, SUBSET D)
                  /\ SumOfData(r) = it[D]
  <1> DEFINE it == CHOOSE it : it = [s \in SUBSET D |-> IF s = {} THEN 0 ELSE r[Some(s)].data + it[s \ {Some(s)}]]
  <1>1. PICK a : Sums(a, r, SUBSET D)
    BY SumsExist
  <1>2. a = [s \in SUBSET D |-> IF s = {} THEN 0 ELSE r[Some(s)].data + a[s \ {Some(s)}]]
    <2>1. a = [s \in SUBSET D |-> a[s]]
      BY <1>1 DEF Sums
    <2> QED BY <1>1, <2>1 DEF Sums
  <1>3. it = [s \in SUBSET D |-> IF s = {} THEN 0 ELSE r[Some(s)].data + it[s \ {Some(s)}]]
    BY <1>2
  <1>4. SumOfData(r) = it[D]
    BY DEF SumOfData, MapThenSumSet, MapThenFoldSet, Some
  <1> HIDE DEF it
  <1>5. it[D] = a[D]
    <2> DEFINE Q == {s \in SUBSET D : it[s] = a[s]}
    <2>1. {} \in Q
      BY <1>1, <1>3 DEF Sums
    <2>2. ASSUME NEW s \in SUBSET D, s # {}, s \ {Some(s)} \in Q PROVE s \in Q
      BY <2>2, <1>1, <1>3 DEF Sums
    <2> HIDE DEF Q
    <2>3. Q \in SUBSET (SUBSET D)
      BY DEF Q
    <2>4. Q = SUBSET D
      BY <2>1, <2>2, <2>3, SubsetInduction
    <2> QED BY <2>4 DEF Q
  <1> HIDE DEF Sums
  <1> QED BY <1>1, <1>4, <1>5

\* No element is greater than the sum.
LEMMA SumsBound ==
  ASSUME NEW D, IsFiniteSet(D), NEW r, Data(r, D), NEW it, Sums(it, r, SUBSET D), NEW d \in D
  PROVE  r[d].data <= it[D]
  <1> DEFINE Q == {s \in SUBSET D : d \in s => r[d].data <= it[s]}
  <1>1. {} \in Q
    OBVIOUS
  <1>2. ASSUME NEW s \in SUBSET D, s # {}, s \ {Some(s)} \in Q PROVE s \in Q
    <2>1. it[s] = r[Some(s)].data + it[s \ {Some(s)}]
      BY <1>2 DEF Sums
    <2>2. r[Some(s)].data \in Nat /\ it[s \ {Some(s)}] \in Nat /\ r[d].data \in Nat
      BY <1>2 DEF Sums, Some, Data
    <2>3. CASE d = Some(s)
      BY <2>1, <2>2, <2>3
    <2>4. CASE d # Some(s)
      <3>1. d \in s => r[d].data <= it[s \ {Some(s)}]
        BY <1>2, <2>4
      <3> QED BY <3>1, <2>1, <2>2
    <2> QED BY <2>3, <2>4
  <1> HIDE DEF Q
  <1>3. Q \in SUBSET (SUBSET D)
    BY DEF Q
  <1>4. Q = SUBSET D
    BY <1>1, <1>2, <1>3, SubsetInduction
  <1> QED BY <1>4 DEF Q

\* Where nobody sends, no data is waited for; otherwise some is.
LEMMA TotalDataTypes ==
  ASSUME TypeOK
  PROVE  TotalData \in Nat /\ (Predecessor # {} => TotalData > 0)
  <1> DEFINE r == setting.remoteTaskList
  <1>1. setting \in Setting
    BY DEF TypeOK
  <1>2. IsFiniteSet(Predecessor) /\ \A p \in Predecessor : r[p].data \in Nat \ {0}
    BY <1>1, CtgAssumption DEF Predecessor
  <1>3. TotalData = SumOfData(r) /\ Predecessor = DOMAIN r
    BY DEF TotalData, Predecessor
  <1> HIDE DEF r
  <1>4. Data(r, Predecessor)
    BY <1>2 DEF Data
  <1>5. PICK it : Sums(it, r, SUBSET Predecessor)
                  /\ SumOfData(r) = it[Predecessor]
    BY <1>2, <1>3, <1>4, SumIs
  <1>6. TotalData \in Nat
    BY <1>3, <1>5 DEF Sums
  <1>7. \A p \in Predecessor : r[p].data <= TotalData
    BY <1>2, <1>3, <1>4, <1>5, SumsBound
  <1> QED
    BY <1>2, <1>6, <1>7

(***************************************************************************)
(* Settings, clock edges and the flits of a destination.                   *)
(***************************************************************************)

Event == Nat \cup {Nothing}

LEMMA SettingTypes ==
  ASSUME TypeOK
  PROVE  /\ setting.iterations \in Nat \ {0}
         /\ setting.period \in Nat /\ setting.totalExecTime \in Nat
         /\ setting.maxBytes \in Nat /\ setting.maxFlits \in Nat
         /\ setting.stopTime \in Nat /\ setting.endTime \in Nat
         /\ NumberOfDestinations \in Nat
         /\ setting.localTaskList = <<>> <=> NumberOfDestinations = 0
         /\ \A k \in Destinations : setting.localTaskList[k].data \in Nat \ {0}
  <1> DEFINE s == setting
  <1>1. s \in Setting
    BY DEF TypeOK
  <1>2. /\ s.iterations \in Nat \ {0}
        /\ {s.period, s.totalExecTime, s.maxBytes, s.maxFlits, s.stopTime, s.endTime} \subseteq Nat
        /\ s.localTaskList \in Seq(Range(s.localTaskList))
        /\ \A k \in 1 .. Len(s.localTaskList) : s.localTaskList[k].data \in Nat \ {0}
    BY <1>1, CtgAssumption
  <1> HIDE DEF s
  <1>3. Len(s.localTaskList) \in Nat /\ (s.localTaskList = <<>> <=> Len(s.localTaskList) = 0)
    BY <1>2
  <1> QED
    BY <1>2, <1>3 DEF s, NumberOfDestinations, Destinations

\* A node with data to send that waits for somebody has a predecessor.
LEMMA WaitsForSomebody ==
  ASSUME TypeOK, ~ContainsNotDependentTask, setting.localTaskList # <<>>
  PROVE  Predecessor # {}
  <1>1. 1 \in Destinations
    BY SettingTypes DEF NumberOfDestinations, Destinations
  <1> QED
    BY <1>1 DEF ContainsNotDependentTask

LEMMA FunctionIsSeq ==
  ASSUME NEW S, NEW n \in Nat, NEW f \in [1 .. n -> S]
  PROVE  f \in Seq(S) /\ Len(f) = n
  <1>1. f \in UNION {[1 .. m -> S] : m \in Nat}
    OBVIOUS
  <1>2. f \in Seq(S)
    BY <1>1, SeqDef, Zenon
  <1>3. Len(f) \in Nat /\ DOMAIN f = 1 .. Len(f)
    BY <1>2, LenProperties
  <1> QED
    BY <1>2, <1>3

LEMMA StartedTypes ==
  ASSUME TypeOK
  PROVE  \A k \in 1 .. Len(started) :
           started[k].iteration \in Iteration /\ started[k].at \in Nat
  <1>1. started \in Seq([iteration : Iteration, at : Nat])
    BY DEF TypeOK
  <1>2. \A k \in 1 .. Len(started) : started[k] \in [iteration : Iteration, at : Nat]
    BY <1>1, ElementOfSeq
  <1> QED
    BY <1>2

LEMMA OneMoreTime ==
  ASSUME NEW n \in Nat, NEW time \in Nat
  PROVE  (n + 1) * time = n * time + time /\ n * time \in Nat
  OBVIOUS

LEMMA NextClockType ==
  ASSUME NEW time \in Nat, NEW t \in NextClock(time)
  PROVE  t \in Nat /\ t >= time + Clock /\ t > time
  BY GlobalClockAssumption DEF NextClock

\* The start of an iteration leaves the core the time to execute it.
LEMMA StartTimeType ==
  ASSUME TypeOK, NEW i \in Iteration, NEW available \in Nat, NEW t \in StartTime(i, available)
  PROVE  t \in Nat /\ t > now /\ t >= available + setting.totalExecTime
  <1> DEFINE wait == IF ContainsNotDependentTask THEN setting.period * i ELSE 0
             time == MaxTime(now, available) + setting.totalExecTime + wait
  <1>1. i \in Nat /\ setting.period \in Nat /\ setting.totalExecTime \in Nat /\ now \in Nat
    BY SettingTypes DEF Iteration, TypeOK
  <1>2. setting.period * i \in Nat
    BY <1>1
  <1>3. wait \in Nat
    BY <1>2
  <1>4. MaxTime(now, available) \in Nat /\ MaxTime(now, available) >= now
          /\ MaxTime(now, available) >= available
    BY <1>1 DEF MaxTime
  <1>5. t \in NextClock(time)
    BY DEF StartTime
  <1> HIDE DEF wait
  <1>6. time \in Nat /\ time >= now /\ time >= available + setting.totalExecTime
    BY <1>1, <1>3, <1>4
  <1> HIDE DEF time
  <1>7. t \in Nat /\ t > time
    BY <1>5, <1>6, NextClockType
  <1> QED
    BY <1>1, <1>6, <1>7

\* A destination needs a flit at least.
LEMMA FlitsForType ==
  ASSUME NEW data \in Nat \ {0}
  PROVE  FlitsFor(data) \in Nat \ {0}
  <1> DEFINE full == (data + FlitBytes - 1) \div FlitBytes
  <1>1. FlitBytes \in Nat \ {0}
    BY CtgAssumption
  <1>2. full \in Nat /\ full >= 1
    BY <1>1
  <1> HIDE DEF full
  <1> QED
    BY <1>2 DEF FlitsFor, full

LEMMA InitIInv == Init => IInv
  <1> SUFFICES ASSUME Init PROVE IInv
    OBVIOUS
  <1>1. TypeOK
    <2>1. setting \in Setting
      BY DEF Init
    <2>2. setting.iterations \in Nat \ {0} /\ setting.stopTime \in Nat /\ setting.endTime \in Nat
          /\ setting.localTaskList \in Seq(Range(setting.localTaskList))
      BY <2>1, CtgAssumption
    <2>3. Len(setting.localTaskList) \in Nat
      BY <2>2
    <2>4. NumberOfFlits \in 1 .. NumberOfFlits
      BY CtgAssumption
    <2>5. 0 \in 0 .. setting.endTime /\ 0 \in 0 .. setting.iterations
          /\ 0 \in 0 .. Len(setting.localTaskList)
      BY <2>2, <2>3
    <2>6. appStop \in {Nothing, setting.stopTime}
      BY DEF Init
    <2>7. started \in Seq([iteration : Iteration, at : Nat])
      BY DEF Init
    <2>8. sent \in [Iteration -> [Destinations -> Nat]]
      BY DEF Init
    <2>9. /\ {startEvent, sendEvent} \subseteq [Iteration -> Nat \cup {Nothing}]
          /\ receivedData \in [Iteration -> Nat] /\ flitIndex \in [Iteration -> Nat]
          /\ {taskBytes, totBytes, totFlits} \subseteq [Iteration -> Nat]
          /\ injectionStarted \in [Iteration -> BOOLEAN]
          /\ arrived \in [Predecessor -> Nat]
      BY DEF Init, Zero, NoEvent
    <2>10. destinationIndex \in [Iteration -> 0 .. Len(setting.localTaskList)]
      BY <2>5 DEF Init, Zero
    <2>11. /\ now \in 0 .. setting.endTime /\ running \in BOOLEAN
           /\ currentIteration \in 0 .. setting.iterations
           /\ executionAvailabilityTime \in Nat
           /\ numberOfFlits \in 1 .. NumberOfFlits
      BY <2>4, <2>5 DEF Init
    <2> QED
      BY <2>1, <2>6, <2>7, <2>8, <2>9, <2>10, <2>11 DEF TypeOK
  <1>2. Control
    BY <1>1, SettingTypes DEF Init, Control, NotRunning, EventsOfIteration, StartedBeforeCurrent,
       StartedIsInjected, NoEvent, Zero
  <1>3. SentSoFar /\ SendsTheData
    <2>1. \A i \in Iteration, k \in Destinations :
            /\ sent[i][k] = 0 /\ taskBytes[i] = 0 /\ destinationIndex[i] = 0
            /\ k \in Nat \ {0} /\ setting.localTaskList[k].data \in Nat \ {0}
      BY <1>1, SettingTypes DEF Init, Zero, Destinations
    <2> QED
      BY <2>1 DEF SentSoFar, SendsTheData
  <1>4. StopInTime
    BY <1>1, SettingTypes DEF Init, StopInTime, Nothing
  <1>5. StartsOnce /\ ExecutionsApart /\ ExecutesInTurn
    BY <1>1, SettingTypes DEF Init, StartsOnce, ExecutionsApart, ExecutesInTurn
  <1>6. RespectsLimits
    BY <1>1, SettingTypes, CtgAssumption DEF Init, RespectsLimits, Zero, TypeOK
  <1> QED
    BY <1>1, <1>2, <1>3, <1>4, <1>5, <1>6 DEF IInv

(***************************************************************************)
(* The parts of the invariant depend on different variables.               *)
(***************************************************************************)

\* The setting is the same in all states of a behaviour.
LEMMA SettingUnchanged ==
  ASSUME UNCHANGED setting
  PROVE  /\ Iteration' = Iteration /\ Destinations' = Destinations
         /\ Predecessor' = Predecessor /\ TotalData' = TotalData
         /\ NumberOfDestinations' = NumberOfDestinations
         /\ ContainsNotDependentTask' = ContainsNotDependentTask
         /\ NoEvent' = NoEvent
  BY DEF Iteration, Destinations, Predecessor, TotalData, NumberOfDestinations,
     ContainsNotDependentTask, NoEvent

LEMMA SendingUnchanged ==
  ASSUME IInv, UNCHANGED <<setting, sending>>
  PROVE  SentSoFar' /\ SendsTheData' /\ RespectsLimits'
  BY SettingUnchanged DEF IInv, SentSoFar, SendsTheData, RespectsLimits, sending

LEMMA StartsUnchanged ==
  ASSUME IInv, UNCHANGED <<setting, received, starts>>
  PROVE  StartsOnce' /\ ExecutionsApart' /\ ExecutesInTurn'
  BY SettingUnchanged
     DEF IInv, StartsOnce, ExecutionsApart, ExecutesInTurn, received, starts

\* What is left of Control for a step that starts nothing.
LEMMA ControlUnchanged ==
  ASSUME IInv, running' \in {running, TRUE}, UNCHANGED <<setting, received, starts>>
  PROVE  NotRunning' /\ StartedBeforeCurrent' /\ StartedIsInjected'
  BY SettingUnchanged
     DEF IInv, TypeOK, Control, NotRunning, StartedBeforeCurrent, StartedIsInjected, received, starts

(***************************************************************************)
(* Every step keeps the invariant.                                         *)
(***************************************************************************)

LEMMA StopIInv == ASSUME IInv, StopApplication PROVE IInv'
  <1>1. UNCHANGED <<setting, now, running, received, starts, sending>>
        /\ appStop' = Nothing /\ startEvent' = NoEvent /\ sendEvent' = NoEvent
    BY DEF StopApplication, CancelEvents
  <1>2. TypeOK'
    BY <1>1, SettingUnchanged DEF IInv, TypeOK, received, starts, sending, NoEvent
  <1>3. EventsOfIteration'
    BY <1>1, SettingUnchanged
       DEF IInv, Control, EventsOfIteration, received, starts, sending, NoEvent
  <1>4. Control'
    BY <1>1, <1>3, ControlUnchanged DEF Control
  <1>5. StopInTime'
    <2>1. now \in Nat /\ appStop = now /\ appStop \in {Nothing, setting.stopTime}
      BY SettingTypes DEF StopApplication, IInv, TypeOK
    <2>2. setting.stopTime = now
      BY <2>1 DEF Nothing
    <2> QED
      BY <1>1, <2>1, <2>2, SettingUnchanged DEF StopInTime
  <1> QED
    BY <1>1, <1>2, <1>4, <1>5, SendingUnchanged, StartsUnchanged DEF IInv

LEMMA TickIInv == ASSUME IInv, Tick PROVE IInv'
  <1>1. UNCHANGED <<setting, running, appStop, received, starts, startEvent, sendEvent, sending>>
        /\ now' = now + 1 /\ now < setting.endTime /\ appStop # now
    BY DEF Tick, OthersAreDue
  <1>2. now \in Nat /\ now' \in 0 .. setting.endTime
    <2>1. now \in 0 .. setting.endTime /\ setting.endTime \in Nat
      BY SettingTypes DEF IInv, TypeOK
    <2> QED
      BY <1>1, <2>1
  <1>3. TypeOK'
    BY <1>1, <1>2, SettingUnchanged DEF IInv, TypeOK, received, starts, sending
  <1>4. EventsOfIteration'
    BY <1>1, SettingUnchanged
       DEF IInv, Control, EventsOfIteration, MayContinue, received, starts, sending
  <1>5. Control'
    BY <1>1, <1>4, ControlUnchanged DEF Control
  <1>6. StopInTime'
    <2>1. setting.stopTime \in Nat /\ appStop \in {Nothing, setting.stopTime}
      BY SettingTypes DEF IInv, TypeOK
    <2> QED
      BY <1>1, <1>2, <2>1, SettingUnchanged DEF IInv, StopInTime, Nothing
  <1> QED
    BY <1>1, <1>3, <1>5, <1>6, SendingUnchanged, StartsUnchanged DEF IInv

LEMMA StartApplicationIInv == ASSUME IInv, StartApplication PROVE IInv'
  <1>1. /\ ~running /\ now = 0 /\ running' = TRUE
        /\ UNCHANGED <<setting, now, appStop, received, sendEvent, sending>>
    BY DEF StartApplication
  <1>2. CASE UNCHANGED <<startEvent, starts>>
    <2>1. TypeOK'
      BY <1>1, <1>2, SettingUnchanged DEF IInv, TypeOK, received, starts, sending
    <2>2. EventsOfIteration'
      BY <1>1, <1>2, SettingUnchanged
         DEF IInv, Control, EventsOfIteration, MayContinue, starts, sending
    <2>3. Control'
      BY <1>1, <1>2, <2>2, ControlUnchanged DEF Control
    <2>4. StopInTime'
      BY <1>1, <1>2, SettingUnchanged DEF IInv, StopInTime
    <2> QED
      BY <1>1, <1>2, <2>1, <2>3, <2>4, SendingUnchanged, StartsUnchanged DEF IInv
  <1>3. CASE ~UNCHANGED <<startEvent, starts>>
    <2>1. PICK at \in StartTimes :
            /\ startEvent' = at
            /\ injectionStarted' = [i \in Iteration |-> TRUE]
            /\ executionAvailabilityTime' = at[setting.iterations - 1]
            /\ started' = [k \in 1 .. setting.iterations |->
                            [iteration |-> k - 1, at |-> at[k - 1]]]
      BY <1>3 DEF StartApplication
    <2>2. (ContainsNotDependentTask \/ TotalData = 0) /\ setting.localTaskList # <<>>
      BY <1>3 DEF StartApplication
    <2>3. /\ setting.iterations \in Nat \ {0} /\ setting.totalExecTime \in Nat
          /\ NumberOfDestinations \in Nat \ {0}
      BY <2>2, SettingTypes DEF IInv
    <2>4. executionAvailabilityTime = 0 /\ \A i \in Iteration : ~injectionStarted[i]
      BY <1>1 DEF IInv, Control, NotRunning
    <2>5. at \in [Iteration -> Nat]
      BY DEF StartTimes
    <2>6. \A i \in Iteration :
            at[i] >= (IF i = 0 THEN 0 ELSE at[i - 1]) + setting.totalExecTime
      <3> SUFFICES ASSUME NEW i \in Iteration
                   PROVE  at[i] >= (IF i = 0 THEN 0 ELSE at[i - 1]) + setting.totalExecTime
        OBVIOUS
      <3> DEFINE available == IF i = 0 THEN 0 ELSE at[i - 1]
      <3>1. available \in Nat
        BY <2>3, <2>5 DEF Iteration
      <3>2. at[i] \in StartTime(i, available)
        BY <2>4 DEF StartTimes
      <3> QED
        BY <3>1, <3>2, StartTimeType DEF IInv
    <2>7. started' \in Seq([iteration : Iteration, at : Nat]) /\ Len(started') = setting.iterations
      <3>1. \A k \in 1 .. setting.iterations :
              [iteration |-> k - 1, at |-> at[k - 1]] \in [iteration : Iteration, at : Nat]
        BY <2>3, <2>5 DEF Iteration
      <3>2. started' \in [1 .. setting.iterations -> [iteration : Iteration, at : Nat]]
        BY <2>1, <3>1
      <3> QED
        BY <2>3, <3>2, FunctionIsSeq
    <2>8. TypeOK'
      <3>1. executionAvailabilityTime' \in Nat
        BY <2>1, <2>3, <2>5 DEF Iteration
      <3> QED
        BY <1>1, <2>1, <2>5, <2>7, <3>1, SettingUnchanged DEF IInv, TypeOK, received, sending
    <2>9. EventsOfIteration'
      BY <1>1, <2>1, <2>3, <2>4, <2>5, SettingUnchanged
         DEF IInv, Control, EventsOfIteration, sending, Nothing
    <2>10. NotRunning' /\ StartedBeforeCurrent'
      BY <1>1, <2>2, TotalDataTypes, SettingUnchanged DEF IInv, NotRunning, StartedBeforeCurrent
    <2>11. StartedIsInjected'
      BY <1>1, <2>1, <2>2, <2>3, <2>7, SettingUnchanged DEF StartedIsInjected, Iteration
    <2>12. StopInTime'
      BY <1>1, SettingTypes, SettingUnchanged DEF IInv, StopInTime
    <2>13. StartsOnce'
      <3>1. \A i \in Iteration : receivedData[i] \in Nat
        BY DEF IInv, TypeOK
      <3>2. ~ContainsNotDependentTask =>
              \A i \in Iteration : receivedData'[i] >= TotalData
        BY <1>1, <2>2, <3>1 DEF received
      <3> QED
        BY <1>1, <2>1, <2>3, <2>7, <3>2, SettingUnchanged DEF StartsOnce, Iteration
    <2>14. ExecutionsApart'
      <3> SUFFICES ASSUME NEW k \in 1 .. setting.iterations
                   PROVE  started'[k].at - (IF k = 1 THEN 0 ELSE started'[k - 1].at)
                            >= setting.totalExecTime
        BY <1>1, <2>7 DEF ExecutionsApart
      <3>1. k - 1 \in Iteration /\ (k # 1 => k - 2 \in Iteration /\ k - 1 \in 1 .. setting.iterations)
        BY <2>3 DEF Iteration
      <3>2. started'[k].at = at[k - 1] /\ (k # 1 => started'[k - 1].at = at[k - 2])
        BY <2>1, <2>3, <3>1
      <3>3. at[k - 1] >= (IF k - 1 = 0 THEN 0 ELSE at[k - 2]) + setting.totalExecTime
        BY <2>6, <3>1
      <3>4. at[k - 1] \in Nat /\ (k # 1 => at[k - 2] \in Nat)
        BY <2>5, <3>1
      <3> QED
        BY <2>3, <3>2, <3>3, <3>4
    <2>15. ExecutesInTurn'
      BY <1>1, <2>2 DEF ExecutesInTurn
    <2> QED
      BY <1>1, <2>8, <2>9, <2>10, <2>11, <2>12, <2>13, <2>14, <2>15, SendingUnchanged
         DEF IInv, Control
  <1> QED
    BY <1>2, <1>3

\* What the arrival of a flit does to the counters; data that is complete stays complete.
LEMMA ArrivalEffect ==
  ASSUME IInv, NEW p \in Predecessor, FlitReceivedCallback(p)
  PROVE  /\ running /\ UNCHANGED <<setting, now, running, appStop, sendEvent, sending>>
         /\ arrived' \in [Predecessor -> Nat]
         /\ receivedData' \in [Iteration -> Nat]
         /\ \A j \in Iteration : receivedData[j] >= TotalData => receivedData'[j] >= TotalData
         /\ \/ UNCHANGED <<currentIteration, startEvent, starts>>
            \/ /\ currentIteration \in Iteration
               /\ currentIteration' = currentIteration + 1
               /\ receivedData'[currentIteration] = TotalData
               /\ \/ setting.localTaskList = <<>> /\ ExecuteOnly
                  \/ /\ setting.localTaskList # <<>> /\ ~ContainsNotDependentTask
                     /\ ScheduleStartEvent(currentIteration)
                  \/ setting.localTaskList # <<>> /\ UNCHANGED <<startEvent, starts>>
  <1> DEFINE flits == setting.remoteTaskList[p].flits
             flit  == flits[arrived[p] + 1]
             data  == [receivedData EXCEPT ![flit.iteration] = @ + flit.bytes]
             i     == currentIteration
  <1>1. /\ running /\ UNCHANGED <<setting, now, running, appStop, sendEvent, sending>>
        /\ arrived[p] < Len(flits)
        /\ arrived' = [arrived EXCEPT ![p] = @ + 1]
    BY DEF FlitReceivedCallback, OthersAreDue
  <1>2. /\ arrived \in [Predecessor -> Nat] /\ receivedData \in [Iteration -> Nat]
        /\ setting \in Setting /\ i \in Nat
    BY DEF IInv, TypeOK
  <1>3. /\ Len(flits) \in Nat
        /\ \A k \in 1 .. Len(flits) : flits[k].iteration \in Iteration /\ flits[k].bytes \in Nat
    BY <1>2, CtgAssumption DEF Iteration, Predecessor
  <1>4. flit.iteration \in Iteration /\ flit.bytes \in Nat
    <2>1. arrived[p] + 1 \in 1 .. Len(flits)
      BY <1>1, <1>2, <1>3
    <2> QED
      BY <1>3, <2>1
  <1>5. TotalData \in Nat /\ setting.iterations \in Nat
    BY SettingTypes, TotalDataTypes DEF IInv
  <1>6. /\ data \in [Iteration -> Nat]
        /\ \A j \in Iteration : receivedData[j] >= TotalData => data[j] >= TotalData
    BY <1>2, <1>4, <1>5
  <1>7. CASE ~IsComplete(data, i)
    <2>1. receivedData' = data /\ UNCHANGED <<currentIteration, startEvent, starts>>
      BY <1>7 DEF FlitReceivedCallback
    <2> QED
      <3> HIDE DEF data
      <3>1. /\ receivedData' \in [Iteration -> Nat]
            /\ \A j \in Iteration : receivedData[j] >= TotalData => receivedData'[j] >= TotalData
        BY <1>6, <2>1
      <3>2. arrived' \in [Predecessor -> Nat]
        BY <1>1, <1>2
      <3> HIDE DEF flits
      <3> QED
        BY <1>1, <2>1, <3>1, <3>2
  <1>8. CASE IsComplete(data, i)
    <2>1. i \in Iteration
      BY <1>2, <1>5, <1>8 DEF IsComplete, Iteration
    <2>2. receivedData' = [data EXCEPT ![i] = TotalData] /\ currentIteration' = i + 1
      BY <1>8 DEF FlitReceivedCallback, NextIteration
    <2>3. \/ setting.localTaskList = <<>> /\ ExecuteOnly
          \/ /\ setting.localTaskList # <<>> /\ ~ContainsNotDependentTask
             /\ ScheduleStartEvent(i)
          \/ setting.localTaskList # <<>> /\ UNCHANGED <<startEvent, starts>>
      BY <1>8 DEF FlitReceivedCallback
    <2>4. /\ receivedData' \in [Iteration -> Nat] /\ receivedData'[i] = TotalData
          /\ \A j \in Iteration : receivedData[j] >= TotalData => receivedData'[j] >= TotalData
      <3> HIDE DEF data
      <3>1. \A j \in Iteration : receivedData'[j] = IF j = i THEN TotalData ELSE data[j]
        BY <1>6, <2>2
      <3>2. receivedData' \in [Iteration -> Nat]
        BY <1>5, <1>6, <2>2
      <3> QED
        BY <1>5, <1>6, <2>1, <3>1, <3>2
    <2>5. arrived' \in [Predecessor -> Nat]
      BY <1>1, <1>2
    <2> HIDE DEF data, flit, flits
    <2> QED
      BY <1>1, <2>1, <2>2, <2>3, <2>4, <2>5
  <1> QED
    BY <1>7, <1>8

LEMMA FlitReceivedIInv ==
  ASSUME IInv, NEW p \in Predecessor, FlitReceivedCallback(p)
  PROVE  IInv'
  <1>1. /\ running /\ UNCHANGED <<setting, now, running, appStop, sendEvent, sending>>
        /\ arrived' \in [Predecessor -> Nat]
        /\ receivedData' \in [Iteration -> Nat]
        /\ \A j \in Iteration : receivedData[j] >= TotalData => receivedData'[j] >= TotalData
    BY ArrivalEffect
  <1>2. SentSoFar' /\ SendsTheData' /\ RespectsLimits'
    BY <1>1, SendingUnchanged
  <1>3. /\ currentIteration \in 0 .. setting.iterations
        /\ setting.iterations \in Nat \ {0} /\ setting.totalExecTime \in Nat
        /\ executionAvailabilityTime \in Nat /\ now \in Nat
        /\ started \in Seq([iteration : Iteration, at : Nat])
    BY SettingTypes DEF IInv, TypeOK
  <1>4. NotRunning'
    BY <1>1 DEF NotRunning
  <1>5. CASE UNCHANGED <<currentIteration, startEvent, starts>>
    <2>1. TypeOK'
      BY <1>1, <1>5, SettingUnchanged DEF IInv, TypeOK, starts, sending
    <2>2. EventsOfIteration' /\ StartedBeforeCurrent' /\ StartedIsInjected'
      BY <1>1, <1>5, SettingUnchanged
         DEF IInv, Control, EventsOfIteration, StartedBeforeCurrent, StartedIsInjected,
             MayContinue, starts, sending
    <2>3. StopInTime'
      BY <1>1, <1>5, SettingUnchanged DEF IInv, StopInTime
    <2>4. StartsOnce' /\ ExecutionsApart' /\ ExecutesInTurn'
      <3>1. \A k \in 1 .. Len(started) : started[k].iteration \in Iteration
        BY StartedTypes DEF IInv
      <3> QED
        BY <1>1, <1>5, <3>1, SettingUnchanged
           DEF IInv, StartsOnce, ExecutionsApart, ExecutesInTurn, starts
    <2> QED
      BY <1>2, <1>4, <2>1, <2>2, <2>3, <2>4 DEF IInv, Control
  <1>6. CASE /\ currentIteration \in Iteration
             /\ currentIteration' = currentIteration + 1
             /\ setting.localTaskList = <<>> /\ ExecuteOnly
    <2>1. /\ executionAvailabilityTime' \in Nat
          /\ executionAvailabilityTime' >= executionAvailabilityTime + setting.totalExecTime
          /\ UNCHANGED <<startEvent, injectionStarted, started>>
      BY <1>3, <1>6 DEF ExecuteOnly, MaxTime
    <2>2. currentIteration' \in 0 .. setting.iterations
      BY <1>3, <1>6 DEF Iteration
    <2>3. TypeOK'
      BY <1>1, <2>1, <2>2, SettingUnchanged DEF IInv, TypeOK, sending
    <2>4. EventsOfIteration'
      BY <1>1, <2>1, SettingUnchanged
         DEF IInv, Control, EventsOfIteration, MayContinue, sending
    <2>5. started = <<>>
      BY <1>6 DEF IInv, Control, StartedIsInjected
    <2>6. StartedBeforeCurrent' /\ StartedIsInjected'
      BY <1>1, <1>3, <1>6, <2>1, <2>5, SettingUnchanged
         DEF IInv, Control, StartedBeforeCurrent, StartedIsInjected, Iteration
    <2>7. StopInTime'
      BY <1>1, <2>1, SettingUnchanged DEF IInv, StopInTime
    <2>8. StartsOnce' /\ ExecutionsApart'
      BY <1>1, <2>1, <2>5, SettingUnchanged DEF StartsOnce, ExecutionsApart
    <2>9. ExecutesInTurn'
      <3>1. executionAvailabilityTime >= currentIteration * setting.totalExecTime
        BY <1>6 DEF IInv, ExecutesInTurn
      <3>2. /\ (currentIteration + 1) * setting.totalExecTime
                 = currentIteration * setting.totalExecTime + setting.totalExecTime
            /\ currentIteration * setting.totalExecTime \in Nat
        <4>1. currentIteration \in Nat
          BY <1>3
        <4> QED
          BY <1>3, <4>1, OneMoreTime
      <3> QED
        BY <1>1, <1>3, <1>6, <2>1, <3>1, <3>2 DEF ExecutesInTurn
    <2> QED
      BY <1>2, <1>4, <2>3, <2>4, <2>6, <2>7, <2>8, <2>9 DEF IInv, Control
  <1>7. CASE /\ currentIteration \in Iteration
             /\ currentIteration' = currentIteration + 1
             /\ setting.localTaskList # <<>> /\ UNCHANGED <<startEvent, starts>>
    <2>1. currentIteration' \in 0 .. setting.iterations
      BY <1>3, <1>7 DEF Iteration
    <2>2. TypeOK'
      BY <1>1, <1>7, <2>1, SettingUnchanged DEF IInv, TypeOK, starts, sending
    <2>3. EventsOfIteration'
      BY <1>1, <1>7, SettingUnchanged
         DEF IInv, Control, EventsOfIteration, MayContinue, starts, sending
    <2>4. StartedBeforeCurrent' /\ StartedIsInjected'
      BY <1>1, <1>3, <1>7, SettingUnchanged
         DEF IInv, Control, StartedBeforeCurrent, StartedIsInjected, starts, Iteration
    <2>5. StopInTime'
      BY <1>1, <1>7, SettingUnchanged DEF IInv, StopInTime
    <2>6. StartsOnce' /\ ExecutionsApart' /\ ExecutesInTurn'
      <3>1. \A k \in 1 .. Len(started) : started[k].iteration \in Iteration
        BY StartedTypes DEF IInv
      <3> QED
        BY <1>1, <1>7, <3>1, SettingUnchanged
           DEF IInv, StartsOnce, ExecutionsApart, ExecutesInTurn, starts
    <2> QED
      BY <1>2, <1>4, <2>2, <2>3, <2>4, <2>5, <2>6 DEF IInv, Control
  <1>8. CASE /\ currentIteration \in Iteration
             /\ currentIteration' = currentIteration + 1
             /\ receivedData'[currentIteration] = TotalData
             /\ setting.localTaskList # <<>> /\ ~ContainsNotDependentTask
             /\ ScheduleStartEvent(currentIteration)
    <2> DEFINE i == currentIteration
    <2>1. PICK t \in StartTime(i, executionAvailabilityTime) :
            /\ startEvent' = [startEvent EXCEPT ![i] = t]
            /\ injectionStarted' = [injectionStarted EXCEPT ![i] = TRUE]
            /\ executionAvailabilityTime' = t
            /\ started' = Append(started, [iteration |-> i, at |-> t])
      BY <1>8 DEF ScheduleStartEvent
    <2>2. t \in Nat /\ t >= executionAvailabilityTime + setting.totalExecTime
      BY <1>3, <1>8, StartTimeType DEF IInv
    <2>3. /\ Predecessor # {} /\ NumberOfDestinations \in Nat \ {0}
          /\ TotalData \in Nat
      BY <1>8, SettingTypes, TotalDataTypes DEF IInv
    <2>4. ~injectionStarted[i]
      BY <1>3, <1>8, <2>3 DEF IInv, Control, StartedBeforeCurrent
    <2>5. i + 1 \in 0 .. setting.iterations
      BY <1>3, <1>8 DEF Iteration
    <2>6. [iteration |-> i, at |-> t] \in [iteration : Iteration, at : Nat]
      BY <1>8, <2>2
    <2>7. /\ started' \in Seq([iteration : Iteration, at : Nat])
          /\ Len(started) \in Nat /\ Len(started') = Len(started) + 1
          /\ \A k \in 1 .. Len(started) : started'[k] = started[k]
          /\ started'[Len(started) + 1] = [iteration |-> i, at |-> t]
      BY <1>3, <2>1, <2>6
    <2>8. TypeOK'
      BY <1>1, <1>8, <2>1, <2>2, <2>5, <2>7, SettingUnchanged DEF IInv, TypeOK, sending
    <2>9. EventsOfIteration'
      <3>1. /\ startEvent \in [Iteration -> Event]
            /\ injectionStarted \in [Iteration -> BOOLEAN]
        BY DEF IInv, TypeOK, Event
      <3>2. sendEvent[i] = Nothing /\ destinationIndex[i] = 0
        BY <1>8, <2>4 DEF IInv, Control, EventsOfIteration
      <3> QED
        BY <1>1, <1>8, <2>1, <2>3, <3>1, <3>2, SettingUnchanged
           DEF IInv, Control, EventsOfIteration, MayContinue, sending
    <2>10. StartedBeforeCurrent'
      <3>1. injectionStarted \in [Iteration -> BOOLEAN]
        BY DEF IInv, TypeOK
      <3>2. \A j \in Iteration : injectionStarted[j] => j < i
        BY <1>8, <2>3 DEF IInv, Control, StartedBeforeCurrent
      <3>3. \A j \in Iteration : injectionStarted'[j] => j < i + 1
        BY <1>8, <2>1, <3>1, <3>2 DEF Iteration
      <3> QED
        BY <1>1, <1>8, <3>3, SettingUnchanged DEF StartedBeforeCurrent
    <2>11. \A k \in 1 .. Len(started) : started[k].iteration \in Iteration
      BY StartedTypes DEF IInv
    <2>12. StartedIsInjected'
      <3>1. injectionStarted \in [Iteration -> BOOLEAN]
        BY DEF IInv, TypeOK
      <3>2. \A k \in 1 .. Len(started') : injectionStarted'[started'[k].iteration]
        BY <1>8, <2>1, <2>7, <2>11, <3>1 DEF IInv, Control, StartedIsInjected
      <3>3. executionAvailabilityTime' = started'[Len(started')].at
        BY <2>1, <2>7
      <3> QED
        BY <1>1, <1>8, <3>2, <3>3 DEF StartedIsInjected
    <2>13. StopInTime'
      BY <1>1, <2>3, SettingUnchanged DEF IInv, StopInTime
    <2>14. StartsOnce'
      <3>1. \A k \in 1 .. Len(started) : started[k].iteration # i
        BY <2>4 DEF IInv, Control, StartedIsInjected
      <3>2. \A j, k \in 1 .. Len(started') : started'[j].iteration = started'[k].iteration => j = k
        BY <2>7, <3>1 DEF IInv, StartsOnce
      <3>3. \A k \in 1 .. Len(started') : receivedData'[started'[k].iteration] >= TotalData
        <4>1. \A k \in 1 .. Len(started) : receivedData[started[k].iteration] >= TotalData
          BY <1>8 DEF IInv, StartsOnce
        <4>2. \A k \in 1 .. Len(started) : receivedData'[started'[k].iteration] >= TotalData
          BY <1>1, <2>7, <2>11, <4>1
        <4>3. receivedData'[started'[Len(started) + 1].iteration] >= TotalData
          BY <1>8, <2>3, <2>7
        <4> QED
          BY <2>7, <4>2, <4>3
      <3> QED
        BY <1>1, <3>2, <3>3, SettingUnchanged DEF StartsOnce
    <2>15. ExecutionsApart'
      <3> SUFFICES ASSUME NEW k \in 1 .. Len(started')
                   PROVE  started'[k].at - (IF k = 1 THEN 0 ELSE started'[k - 1].at)
                            >= setting.totalExecTime
        BY <1>1 DEF ExecutionsApart
      <3>1. CASE k \in 1 .. Len(started)
        <4>1. k # 1 => k - 1 \in 1 .. Len(started)
          BY <2>7, <3>1
        <4> QED
          BY <2>7, <3>1, <4>1 DEF IInv, ExecutionsApart
      <3>2. CASE k = Len(started) + 1
        <4>1. started'[k].at = t
          BY <2>7, <3>2
        <4>2. CASE k = 1
          BY <1>3, <2>2, <4>1, <4>2
        <4>3. CASE k # 1
          <5>1. k - 1 = Len(started) /\ Len(started) \in 1 .. Len(started) /\ started # <<>>
            BY <2>7, <3>2, <4>3
          <5>2. started'[k - 1].at = executionAvailabilityTime
            BY <2>7, <5>1 DEF IInv, Control, StartedIsInjected
          <5> QED
            BY <1>3, <2>2, <4>1, <4>3, <5>2
        <4> QED
          BY <4>2, <4>3
      <3> QED
        BY <2>7, <3>1, <3>2
    <2>16. ExecutesInTurn'
      BY <1>1, <1>8 DEF ExecutesInTurn
    <2> QED
      BY <1>2, <1>4, <2>8, <2>9, <2>10, <2>12, <2>13, <2>14, <2>15, <2>16 DEF IInv, Control
  <1> QED
    BY <1>5, <1>6, <1>7, <1>8, ArrivalEffect

\* ScheduleNextTx cancels events, or schedules the next flit of its iteration.
LEMMA ScheduleNextTxEffect ==
  ASSUME TypeOK, NEW i \in Iteration, NEW bytes \in Nat, NEW flits \in Nat,
         NEW starting \in [Iteration -> Event], ScheduleNextTx(i, bytes, flits, starting)
  PROVE  /\ startEvent' \in [Iteration -> Event] /\ sendEvent' \in [Iteration -> Event]
         /\ \A j \in Iteration : startEvent'[j] \in {starting[j], Nothing}
         /\ \A j \in Iteration : j # i => sendEvent'[j] \in {sendEvent[j], Nothing}
         /\ sendEvent'[i] # Nothing => MayContinue(bytes, flits)
  <1>1. now \in Nat /\ sendEvent \in [Iteration -> Event]
    BY SettingTypes DEF TypeOK, Event
  <1>2. CASE MayContinue(bytes, flits)
    <2>1. PICK t \in IF bytes = 0 THEN {now} ELSE NextClock(now) :
            startEvent' = starting /\ sendEvent' = [sendEvent EXCEPT ![i] = t]
      BY <1>2 DEF ScheduleNextTx
    <2>2. t \in Event
      BY <1>1, NextClockType DEF Event
    <2> QED
      BY <1>1, <1>2, <2>1, <2>2
  <1>3. CASE ~MayContinue(bytes, flits)
    <2>1. startEvent' = NoEvent /\ sendEvent' = NoEvent
      BY <1>3 DEF ScheduleNextTx, CancelEvents
    <2> QED
      BY <2>1 DEF NoEvent, Event
  <1> QED
    BY <1>2, <1>3

\* What a step of iteration i has to show that schedules nothing else.
LEMMA EventsAfterSending ==
  ASSUME IInv, NEW i \in Iteration,
         UNCHANGED <<setting, now, running, appStop, received, starts>>,
         appStop # now,
         startEvent[i] = now \/ sendEvent[i] = now,
         \A j \in Iteration : startEvent'[j] \in {startEvent[j], Nothing},
         startEvent'[i] = Nothing,
         \A j \in Iteration : j # i => sendEvent'[j] \in {sendEvent[j], Nothing},
         \A j \in Iteration : j # i => /\ destinationIndex'[j] = destinationIndex[j]
                                       /\ totBytes'[j] = totBytes[j] /\ totFlits'[j] = totFlits[j],
         sendEvent'[i] # Nothing =>
           destinationIndex'[i] < NumberOfDestinations /\ MayContinue(totBytes'[i], totFlits'[i])
  PROVE  Control' /\ StopInTime'
  <1>1. now \in Nat /\ Nothing = -1
    BY SettingTypes DEF IInv, TypeOK, Nothing
  <1>2. startEvent[i] # Nothing \/ sendEvent[i] # Nothing
    BY <1>1
  <1>3. injectionStarted[i] /\ injectionStarted'[i]
    BY <1>2 DEF IInv, Control, EventsOfIteration, starts
  <1>4. EventsOfIteration'
    <2> SUFFICES ASSUME NEW j \in Iteration
                 PROVE
                   /\ ~injectionStarted'[j] =>
                        startEvent'[j] = Nothing /\ sendEvent'[j] = Nothing /\ destinationIndex'[j] = 0
                   /\ startEvent'[j] # Nothing => sendEvent'[j] = Nothing
                   /\ startEvent'[j] # Nothing \/ sendEvent'[j] # Nothing =>
                        destinationIndex'[j] < NumberOfDestinations
                   /\ sendEvent'[j] # Nothing => MayContinue(totBytes'[j], totFlits'[j])
      BY SettingUnchanged DEF EventsOfIteration, MayContinue
    <2>1. CASE j = i
      BY <1>3, <2>1
    <2>2. CASE j # i
      BY <2>2 DEF IInv, Control, EventsOfIteration, starts
    <2> QED
      BY <2>1, <2>2
  <1>5. Control'
    BY <1>4, ControlUnchanged DEF Control
  <1>6. StopInTime'
    <2>1. Predecessor = {} => ~(appStop = Nothing /\ setting.stopTime > 0)
      BY <1>2 DEF IInv, StopInTime, NoEvent
    <2> QED
      BY <2>1, SettingUnchanged DEF IInv, StopInTime
  <1> QED
    BY <1>5, <1>6

LEMMA StartSendingIInv ==
  ASSUME IInv, NEW i \in Iteration, StartSending(i)
  PROVE  IInv'
  <1> DEFINE starting == [startEvent EXCEPT ![i] = Nothing]
  <1>1. /\ startEvent[i] = now /\ appStop # now
        /\ ScheduleNextTx(i, totBytes[i], totFlits[i], starting)
        /\ UNCHANGED <<setting, now, running, appStop, received, starts, sending>>
    BY DEF StartSending, OthersAreDue
  <1>2. /\ totBytes[i] \in Nat /\ totFlits[i] \in Nat /\ startEvent \in [Iteration -> Event]
        /\ TypeOK
    BY DEF IInv, TypeOK, Event
  <1>3. starting \in [Iteration -> Event]
    BY <1>2 DEF Event
  <1>4. \A j \in Iteration : starting[j] = IF j = i THEN Nothing ELSE startEvent[j]
    BY <1>2
  <1> HIDE DEF starting
  <1>5. /\ startEvent' \in [Iteration -> Event] /\ sendEvent' \in [Iteration -> Event]
        /\ \A j \in Iteration : startEvent'[j] \in {starting[j], Nothing}
        /\ \A j \in Iteration : j # i => sendEvent'[j] \in {sendEvent[j], Nothing}
        /\ sendEvent'[i] # Nothing => MayContinue(totBytes[i], totFlits[i])
    BY <1>1, <1>2, <1>3, ScheduleNextTxEffect
  <1>6. now \in Nat /\ destinationIndex[i] < NumberOfDestinations
    BY <1>1, SettingTypes DEF IInv, TypeOK, Control, EventsOfIteration, Nothing
  <1>7. TypeOK'
    BY <1>1, <1>5, SettingUnchanged DEF IInv, TypeOK, received, starts, sending, Event
  <1>8. Control' /\ StopInTime'
    BY <1>1, <1>4, <1>5, <1>6, EventsAfterSending DEF sending
  <1> QED
    BY <1>1, <1>7, <1>8, SendingUnchanged, StartsUnchanged DEF IInv

\* What is known when a flit is sent.
LEMMA SendFlitTypes ==
  ASSUME IInv, NEW i \in Iteration, SendFlit(i)
  PROVE  /\ sendEvent[i] = now /\ appStop # now /\ startEvent[i] = Nothing /\ now \in Nat
         /\ UNCHANGED <<setting, now, running, appStop, received, starts>>
         /\ numberOfFlits' \in 1 .. NumberOfFlits
         /\ NumberOfDestinations \in Nat
         /\ destinationIndex[i] \in 0 .. NumberOfDestinations - 1
         /\ destinationIndex[i] + 1 \in Destinations
         /\ MayContinue(totBytes[i], totFlits[i])
         /\ taskBytes[i] \in Nat /\ totBytes[i] \in Nat /\ totFlits[i] \in Nat
         /\ flitIndex[i] \in Nat
         /\ startEvent \in [Iteration -> Event] /\ sendEvent \in [Iteration -> Event]
  <1> DEFINE k == destinationIndex[i] + 1
  <1>1. /\ sendEvent[i] = now /\ appStop # now /\ UNCHANGED <<setting, now, running, appStop, received, starts>>
        /\ numberOfFlits' = IF numberOfFlits > FlitsFor(setting.localTaskList[k].data)
                            THEN FlitsFor(setting.localTaskList[k].data) ELSE numberOfFlits
    BY DEF SendFlit, OthersAreDue
  <1>2. /\ now \in Nat /\ NumberOfDestinations \in Nat
        /\ \A d \in Destinations : setting.localTaskList[d].data \in Nat \ {0}
    <2>1. TypeOK
      BY DEF IInv
    <2>2. now \in Nat
      BY <2>1 DEF TypeOK
    <2> QED
      BY <2>1, <2>2, SettingTypes
  <1>3. /\ destinationIndex[i] \in 0 .. NumberOfDestinations
        /\ taskBytes[i] \in Nat /\ totBytes[i] \in Nat /\ totFlits[i] \in Nat
        /\ flitIndex[i] \in Nat /\ numberOfFlits \in 1 .. NumberOfFlits
        /\ startEvent \in [Iteration -> Event] /\ sendEvent \in [Iteration -> Event]
    BY DEF IInv, TypeOK, NumberOfDestinations, Event
  <1>4. sendEvent[i] # Nothing
    BY <1>1, <1>2 DEF Nothing
  <1>5. /\ startEvent[i] = Nothing /\ destinationIndex[i] < NumberOfDestinations
        /\ MayContinue(totBytes[i], totFlits[i])
    BY <1>4 DEF IInv, Control, EventsOfIteration
  <1>6. k \in Destinations /\ destinationIndex[i] \in 0 .. NumberOfDestinations - 1
    BY <1>2, <1>3, <1>5 DEF Destinations, NumberOfDestinations
  <1>7. FlitsFor(setting.localTaskList[k].data) \in Nat \ {0}
    BY <1>2, <1>6, FlitsForType
  <1>8. NumberOfFlits \in Nat
    BY CtgAssumption
  <1>9. numberOfFlits' \in 1 .. NumberOfFlits
    BY <1>1, <1>3, <1>7, <1>8
  <1> HIDE DEF k
  <1> QED
    BY <1>1, <1>2, <1>3, <1>5, <1>6, <1>9 DEF k

LEMMA SkipIInv ==
  ASSUME IInv, NEW i \in Iteration, SendFlit(i), SkipSelf(i),
         setting.localTaskList[destinationIndex[i] + 1].node = Self
  PROVE  IInv'
  <1> DEFINE k == destinationIndex[i] + 1
  <1>1. /\ sendEvent[i] = now /\ appStop # now /\ startEvent[i] = Nothing /\ now \in Nat
        /\ UNCHANGED <<setting, now, running, appStop, received, starts>>
        /\ numberOfFlits' \in 1 .. NumberOfFlits
        /\ NumberOfDestinations \in Nat
        /\ destinationIndex[i] \in 0 .. NumberOfDestinations - 1
        /\ MayContinue(totBytes[i], totFlits[i])
        /\ totBytes[i] \in Nat /\ totFlits[i] \in Nat
        /\ startEvent \in [Iteration -> Event] /\ sendEvent \in [Iteration -> Event]
    BY SendFlitTypes
  <1>2. /\ UNCHANGED <<flitIndex, taskBytes, totBytes, totFlits, sent>>
        /\ destinationIndex \in [Iteration -> 0 .. NumberOfDestinations]
        /\ TypeOK
    BY DEF SkipSelf, IInv, TypeOK, NumberOfDestinations
  <1>3. /\ startEvent' \in [Iteration -> Event] /\ sendEvent' \in [Iteration -> Event]
        /\ \A j \in Iteration : startEvent'[j] \in {startEvent[j], Nothing}
        /\ \A j \in Iteration : j # i => sendEvent'[j] \in {sendEvent[j], Nothing}
        /\ \/ destinationIndex' = destinationIndex /\ sendEvent'[i] = Nothing
           \/ /\ k < NumberOfDestinations
              /\ destinationIndex' = [destinationIndex EXCEPT ![i] = k]
    <2>1. CASE destinationIndex[i] < NumberOfDestinations - 1
      <3>1. /\ destinationIndex' = [destinationIndex EXCEPT ![i] = k]
            /\ ScheduleNextTx(i, totBytes[i], totFlits[i], startEvent)
        BY <2>1 DEF SkipSelf, NumberOfDestinations
      <3>2. /\ startEvent' \in [Iteration -> Event] /\ sendEvent' \in [Iteration -> Event]
            /\ \A j \in Iteration : startEvent'[j] \in {startEvent[j], Nothing}
            /\ \A j \in Iteration : j # i => sendEvent'[j] \in {sendEvent[j], Nothing}
        BY <1>1, <1>2, <3>1, ScheduleNextTxEffect
      <3>3. k < NumberOfDestinations
        BY <1>1, <2>1
      <3> QED
        BY <3>1, <3>2, <3>3
    <2>2. CASE ~(destinationIndex[i] < NumberOfDestinations - 1)
      <3>1. /\ sendEvent' = [sendEvent EXCEPT ![i] = Nothing]
            /\ UNCHANGED <<startEvent, destinationIndex>>
        BY <2>2 DEF SkipSelf, NumberOfDestinations
      <3> QED
        BY <1>1, <3>1 DEF Event
    <2> QED
      BY <2>1, <2>2
  <1>4. /\ destinationIndex' \in [Iteration -> 0 .. NumberOfDestinations]
        /\ \A j \in Iteration : j # i => destinationIndex'[j] = destinationIndex[j]
        /\ \/ destinationIndex'[i] = destinationIndex[i] /\ sendEvent'[i] = Nothing
           \/ destinationIndex'[i] = k /\ k < NumberOfDestinations
    BY <1>1, <1>2, <1>3
  <1>5. TypeOK'
    <2>1. destinationIndex' \in [Iteration -> 0 .. Len(setting.localTaskList)]
      BY <1>4 DEF NumberOfDestinations
    <2> QED
      BY <1>1, <1>2, <1>3, <2>1, SettingUnchanged DEF TypeOK, received, starts, Event
  <1>6. Control' /\ StopInTime'
    <2>1. startEvent'[i] = Nothing
      BY <1>1, <1>3
    <2> QED
      BY <1>1, <1>2, <1>3, <1>4, <2>1, EventsAfterSending
  <1>7. \A d \in Destinations : d \in Nat \ {0} /\ setting.localTaskList[d].data \in Nat \ {0}
    BY <1>2, SettingTypes DEF Destinations
  <1>8. k \in Destinations /\ taskBytes[i] = 0
    BY SendFlitTypes DEF IInv, SentSoFar
  <1>9. SentSoFar'
    <2> SUFFICES ASSUME NEW j \in Iteration, NEW d \in Destinations
                 PROVE  /\ d = destinationIndex'[j] + 1 =>
                             /\ sent[j][d] = taskBytes[j]
                             /\ taskBytes[j] < setting.localTaskList[d].data
                             /\ setting.localTaskList[d].node = Self => taskBytes[j] = 0
                        /\ d > destinationIndex'[j] + 1 => sent[j][d] = 0
      BY <1>1, <1>2, SettingUnchanged DEF SentSoFar
    <2>1. CASE destinationIndex'[j] = destinationIndex[j]
      BY <2>1 DEF IInv, SentSoFar
    <2>2. CASE j = i /\ destinationIndex'[j] = k
      <3>1. d > k => sent[i][d] = 0
        BY <1>8 DEF IInv, SentSoFar
      <3> QED
        BY <1>1, <1>7, <1>8, <2>2, <3>1
    <2> QED
      BY <1>4, <2>1, <2>2
  <1>10. SendsTheData'
    <2> SUFFICES ASSUME NEW j \in Iteration, NEW d \in Destinations,
                        setting.localTaskList[d].node # Self
                 PROVE  LET data == setting.localTaskList[d].data
                        IN /\ d <= destinationIndex'[j] => sent[j][d] \in data .. data + FlitBytes - 1
                           /\ d > destinationIndex'[j] => sent[j][d] < data
      BY <1>1, <1>2, SettingUnchanged DEF SendsTheData
    <2>1. CASE destinationIndex'[j] = destinationIndex[j]
      BY <2>1 DEF IInv, SendsTheData
    <2>2. CASE j = i /\ destinationIndex'[j] = k
      <3>1. d # k
        OBVIOUS
      <3>2. /\ d <= k <=> d <= destinationIndex[i]
            /\ d > k => d > destinationIndex[i]
        BY <1>1, <1>7, <3>1
      <3> QED
        BY <2>2, <3>2 DEF IInv, SendsTheData
    <2> QED
      BY <1>4, <2>1, <2>2
  <1>11. RespectsLimits'
    BY <1>1, <1>2, SettingUnchanged DEF IInv, RespectsLimits
  <1>12. StartsOnce' /\ ExecutionsApart' /\ ExecutesInTurn'
    BY <1>1, StartsUnchanged
  <1> QED
    BY <1>5, <1>6, <1>9, <1>10, <1>11, <1>12 DEF IInv

\* The bytes that a flit carries, and where its iteration goes on.
LEMMA InjectEffect ==
  ASSUME IInv, NEW i \in Iteration, SendFlit(i),
         InjectFlit(i, setting.localTaskList[destinationIndex[i] + 1])
  PROVE  \E size \in 0 .. FlitBytes :
           LET k     == destinationIndex[i] + 1
               bytes == taskBytes[i] + size
               data  == setting.localTaskList[k].data
           IN /\ flitIndex' \in [Iteration -> Nat]
              /\ taskBytes' = [taskBytes EXCEPT ![i] = IF bytes >= data THEN 0 ELSE bytes]
              /\ totBytes' = [totBytes EXCEPT ![i] = @ + size]
              /\ totFlits' = [totFlits EXCEPT ![i] = @ + 1]
              /\ destinationIndex' =
                   [destinationIndex EXCEPT ![i] = IF bytes >= data THEN k ELSE k - 1]
              /\ sent' = [sent EXCEPT ![i] = [sent[i] EXCEPT ![k] = sent[i][k] + size]]
              /\ startEvent' \in [Iteration -> Event] /\ sendEvent' \in [Iteration -> Event]
              /\ \A j \in Iteration : startEvent'[j] \in {startEvent[j], Nothing}
              /\ \A j \in Iteration : j # i => sendEvent'[j] \in {sendEvent[j], Nothing}
              /\ sendEvent'[i] # Nothing =>
                   /\ destinationIndex'[i] < NumberOfDestinations
                   /\ MayContinue(totBytes[i] + size, totFlits[i] + 1)
  <1> DEFINE size  == IF flitIndex[i] = 0 THEN HeadBytes ELSE FlitBytes
             k     == destinationIndex[i] + 1
             bytes == taskBytes[i] + size
             data  == setting.localTaskList[k].data
             next  == IF bytes >= data THEN k ELSE k - 1
             index == IF bytes >= data \/ flitIndex[i] + 1 = numberOfFlits' THEN 0
                      ELSE flitIndex[i] + 1
  <1>1. size \in 0 .. FlitBytes /\ size \in Nat
    BY CtgAssumption
  <1>2. /\ totBytes[i] \in Nat /\ totFlits[i] \in Nat /\ flitIndex[i] \in Nat
        /\ startEvent \in [Iteration -> Event] /\ sendEvent \in [Iteration -> Event]
        /\ NumberOfDestinations \in Nat
        /\ destinationIndex[i] \in 0 .. NumberOfDestinations - 1
    BY SendFlitTypes
  <1>3. /\ flitIndex' = [flitIndex EXCEPT ![i] = index]
        /\ taskBytes' = [taskBytes EXCEPT ![i] = IF bytes >= data THEN 0 ELSE bytes]
        /\ totBytes' = [totBytes EXCEPT ![i] = @ + size]
        /\ totFlits' = [totFlits EXCEPT ![i] = @ + 1]
        /\ destinationIndex' = [destinationIndex EXCEPT ![i] = next]
        /\ sent' = [sent EXCEPT ![i] = [sent[i] EXCEPT ![k] = sent[i][k] + size]]
    BY DEF InjectFlit, BytesAfter
  <1>4. IF next < NumberOfDestinations
        THEN ScheduleNextTx(i, totBytes[i] + size, totFlits[i] + 1, startEvent)
        ELSE sendEvent' = [sendEvent EXCEPT ![i] = Nothing] /\ UNCHANGED startEvent
    BY DEF InjectFlit, NumberOfDestinations
  <1>5. flitIndex \in [Iteration -> Nat] /\ destinationIndex \in [Iteration -> 0 .. NumberOfDestinations]
        /\ TypeOK
    BY DEF IInv, TypeOK, NumberOfDestinations
  <1>6. flitIndex' \in [Iteration -> Nat]
    <2>1. index \in Nat
      BY <1>2
    <2> HIDE DEF index
    <2> QED
      BY <1>3, <1>5, <2>1
  <1> HIDE DEF size, index
  <1>7. destinationIndex'[i] = next
    BY <1>3, <1>5
  <1> HIDE DEF next
  <1>8. /\ startEvent' \in [Iteration -> Event] /\ sendEvent' \in [Iteration -> Event]
        /\ \A j \in Iteration : startEvent'[j] \in {startEvent[j], Nothing}
        /\ \A j \in Iteration : j # i => sendEvent'[j] \in {sendEvent[j], Nothing}
        /\ sendEvent'[i] # Nothing =>
             next < NumberOfDestinations /\ MayContinue(totBytes[i] + size, totFlits[i] + 1)
    <2>1. CASE next < NumberOfDestinations
      <3>1. ScheduleNextTx(i, totBytes[i] + size, totFlits[i] + 1, startEvent)
        BY <1>4, <2>1
      <3>2. totBytes[i] + size \in Nat /\ totFlits[i] + 1 \in Nat
        BY <1>1, <1>2
      <3> QED
        BY <1>2, <1>5, <2>1, <3>1, <3>2, ScheduleNextTxEffect
    <2>2. CASE ~(next < NumberOfDestinations)
      BY <1>2, <1>4, <2>2 DEF Event
    <2> QED
      BY <2>1, <2>2
  <1> QED
    BY <1>1, <1>3, <1>6, <1>7, <1>8 DEF next

LEMMA InjectIInv ==
  ASSUME IInv, NEW i \in Iteration, SendFlit(i),
         InjectFlit(i, setting.localTaskList[destinationIndex[i] + 1]),
         setting.localTaskList[destinationIndex[i] + 1].node # Self
  PROVE  IInv'
  <1> DEFINE k    == destinationIndex[i] + 1
             data == setting.localTaskList[k].data
  <1>1. /\ sendEvent[i] = now /\ appStop # now /\ startEvent[i] = Nothing /\ now \in Nat
        /\ UNCHANGED <<setting, now, running, appStop, received, starts>>
        /\ numberOfFlits' \in 1 .. NumberOfFlits
        /\ NumberOfDestinations \in Nat
        /\ destinationIndex[i] \in 0 .. NumberOfDestinations - 1
        /\ k \in Destinations
        /\ MayContinue(totBytes[i], totFlits[i])
        /\ taskBytes[i] \in Nat /\ totBytes[i] \in Nat /\ totFlits[i] \in Nat
    BY SendFlitTypes
  <1>2. PICK size \in 0 .. FlitBytes :
           LET bytes == taskBytes[i] + size
           IN /\ flitIndex' \in [Iteration -> Nat]
              /\ taskBytes' = [taskBytes EXCEPT ![i] = IF bytes >= data THEN 0 ELSE bytes]
              /\ totBytes' = [totBytes EXCEPT ![i] = @ + size]
              /\ totFlits' = [totFlits EXCEPT ![i] = @ + 1]
              /\ destinationIndex' =
                   [destinationIndex EXCEPT ![i] = IF bytes >= data THEN k ELSE k - 1]
              /\ sent' = [sent EXCEPT ![i] = [sent[i] EXCEPT ![k] = sent[i][k] + size]]
              /\ startEvent' \in [Iteration -> Event] /\ sendEvent' \in [Iteration -> Event]
              /\ \A j \in Iteration : startEvent'[j] \in {startEvent[j], Nothing}
              /\ \A j \in Iteration : j # i => sendEvent'[j] \in {sendEvent[j], Nothing}
              /\ sendEvent'[i] # Nothing =>
                   /\ destinationIndex'[i] < NumberOfDestinations
                   /\ MayContinue(totBytes[i] + size, totFlits[i] + 1)
    BY InjectEffect
  <1> DEFINE bytes == taskBytes[i] + size
  <1>3. /\ FlitBytes \in Nat /\ size \in Nat /\ bytes \in Nat
        /\ bytes <= taskBytes[i] + FlitBytes
    BY <1>1, CtgAssumption
  <1>4. /\ destinationIndex \in [Iteration -> 0 .. NumberOfDestinations]
        /\ {taskBytes, totBytes, totFlits} \subseteq [Iteration -> Nat]
        /\ sent \in [Iteration -> [Destinations -> Nat]]
        /\ TypeOK
    BY DEF IInv, TypeOK, NumberOfDestinations
  <1>5. \A d \in Destinations : d \in Nat \ {0} /\ setting.localTaskList[d].data \in Nat \ {0}
    BY SettingTypes DEF IInv, Destinations
  <1> HIDE DEF bytes
  <1>6. /\ \A j \in Iteration : j # i =>
             /\ destinationIndex'[j] = destinationIndex[j] /\ taskBytes'[j] = taskBytes[j]
             /\ totBytes'[j] = totBytes[j] /\ totFlits'[j] = totFlits[j] /\ sent'[j] = sent[j]
        /\ destinationIndex'[i] = IF bytes >= data THEN k ELSE k - 1
        /\ taskBytes'[i] = IF bytes >= data THEN 0 ELSE bytes
        /\ totBytes'[i] = totBytes[i] + size /\ totFlits'[i] = totFlits[i] + 1
    BY <1>2, <1>4 DEF bytes
  <1>7. \A d \in Destinations : sent'[i][d] = IF d = k THEN sent[i][d] + size ELSE sent[i][d]
    <2>1. sent'[i] = [sent[i] EXCEPT ![k] = sent[i][k] + size]
      BY <1>2, <1>4
    <2>2. sent[i] \in [Destinations -> Nat]
      BY <1>4
    <2> QED
      BY <2>1, <2>2
  <1>8. TypeOK'
    <2>1. destinationIndex' \in [Iteration -> 0 .. NumberOfDestinations]
      <3>1. (IF bytes >= data THEN k ELSE k - 1) \in 0 .. NumberOfDestinations
        BY <1>1
      <3> QED
        BY <1>2, <1>4, <3>1 DEF bytes
    <2>2. {taskBytes', totBytes', totFlits'} \subseteq [Iteration -> Nat]
      <3>1. (IF bytes >= data THEN 0 ELSE bytes) \in Nat
        BY <1>3
      <3>2. totBytes[i] + size \in Nat /\ totFlits[i] + 1 \in Nat
        BY <1>1, <1>3
      <3> QED
        BY <1>2, <1>4, <3>1, <3>2 DEF bytes
    <2>3. sent' \in [Iteration -> [Destinations -> Nat]]
      <3>1. [sent[i] EXCEPT ![k] = sent[i][k] + size] \in [Destinations -> Nat]
        BY <1>1, <1>3, <1>4
      <3> QED
        BY <1>2, <1>4, <3>1
    <2> QED
      BY <1>1, <1>2, <1>4, <2>1, <2>2, <2>3, SettingUnchanged
         DEF TypeOK, received, starts, NumberOfDestinations, Event
  <1>9. Control' /\ StopInTime'
    <2>1. startEvent'[i] = Nothing
      BY <1>1, <1>2
    <2>2. sendEvent'[i] # Nothing =>
            destinationIndex'[i] < NumberOfDestinations /\ MayContinue(totBytes'[i], totFlits'[i])
      BY <1>2, <1>6
    <2> QED
      BY <1>1, <1>2, <1>6, <2>1, <2>2, EventsAfterSending
  <1>10. /\ sent[i][k] = taskBytes[i] /\ taskBytes[i] < data
         /\ \A d \in Destinations : d > k => sent[i][d] = 0
    BY <1>1 DEF IInv, SentSoFar
  <1>11. SentSoFar'
    <2> SUFFICES ASSUME NEW j \in Iteration, NEW d \in Destinations
                 PROVE  /\ d = destinationIndex'[j] + 1 =>
                             /\ sent'[j][d] = taskBytes'[j]
                             /\ taskBytes'[j] < setting.localTaskList[d].data
                             /\ setting.localTaskList[d].node = Self => taskBytes'[j] = 0
                        /\ d > destinationIndex'[j] + 1 => sent'[j][d] = 0
      BY <1>1, SettingUnchanged DEF SentSoFar
    <2>1. CASE j # i
      BY <1>6, <2>1 DEF IInv, SentSoFar
    <2>2. CASE j = i /\ bytes >= data
      BY <1>1, <1>5, <1>6, <1>7, <1>10, <2>2
    <2>3. CASE j = i /\ ~(bytes >= data)
      <3>1. destinationIndex'[i] + 1 = k /\ taskBytes'[i] = bytes /\ bytes < data
        BY <1>1, <1>3, <1>5, <1>6, <2>3
      <3> QED
        BY <1>1, <1>5, <1>7, <1>10, <2>3, <3>1 DEF bytes
    <2> QED
      BY <2>1, <2>2, <2>3
  <1>12. SendsTheData'
    <2> SUFFICES ASSUME NEW j \in Iteration, NEW d \in Destinations,
                        setting.localTaskList[d].node # Self
                 PROVE  LET need == setting.localTaskList[d].data
                        IN /\ d <= destinationIndex'[j] => sent'[j][d] \in need .. need + FlitBytes - 1
                           /\ d > destinationIndex'[j] => sent'[j][d] < need
      BY <1>1, SettingUnchanged DEF SendsTheData
    <2>1. CASE j # i
      BY <1>6, <2>1 DEF IInv, SendsTheData
    <2>2. CASE j = i /\ d # k
      <3>1. /\ d <= destinationIndex'[i] <=> d <= destinationIndex[i]
            /\ d > destinationIndex'[i] <=> d > destinationIndex[i]
        BY <1>1, <1>5, <1>6, <2>2
      <3>2. sent'[i][d] = sent[i][d]
        BY <1>7, <2>2
      <3> QED
        BY <2>2, <3>1, <3>2 DEF IInv, SendsTheData
    <2>3. CASE j = i /\ d = k
      <3>1. sent'[i][k] = bytes /\ data \in Nat /\ bytes < data + FlitBytes
        BY <1>1, <1>3, <1>5, <1>7, <1>10 DEF bytes
      <3>2. CASE bytes >= data
        <4>1. ~(k > destinationIndex'[i])
          BY <1>1, <1>6, <3>2
        <4> QED
          BY <1>3, <2>3, <3>1, <3>2, <4>1
      <3>3. CASE ~(bytes >= data)
        <4>1. ~(k <= destinationIndex'[i])
          BY <1>1, <1>6, <3>3
        <4> QED
          BY <1>3, <2>3, <3>1, <3>3, <4>1
      <3> QED
        BY <3>2, <3>3
    <2> QED
      BY <2>1, <2>2, <2>3
  <1>13. RespectsLimits'
    <2> SUFFICES ASSUME NEW j \in Iteration
                 PROVE  /\ setting.maxFlits > 0 => totFlits'[j] <= setting.maxFlits
                        /\ setting.maxBytes > 0 => totBytes'[j] < setting.maxBytes + FlitBytes
      BY <1>1, SettingUnchanged DEF RespectsLimits
    <2>1. CASE j # i
      BY <1>6, <2>1 DEF IInv, RespectsLimits
    <2>2. CASE j = i
      <3>1. setting.maxFlits \in Nat /\ setting.maxBytes \in Nat
        BY <1>4, SettingTypes
      <3> QED
        BY <1>1, <1>3, <1>6, <2>2, <3>1 DEF MayContinue
    <2> QED
      BY <2>1, <2>2
  <1>14. StartsOnce' /\ ExecutionsApart' /\ ExecutesInTurn'
    BY <1>1, StartsUnchanged
  <1> QED
    BY <1>8, <1>9, <1>11, <1>12, <1>13, <1>14 DEF IInv

LEMMA SendFlitIInv == ASSUME IInv, NEW i \in Iteration, SendFlit(i) PROVE IInv'
  <1> DEFINE dtd == setting.localTaskList[destinationIndex[i] + 1]
  <1>1. IF dtd.node = Self THEN SkipSelf(i) ELSE InjectFlit(i, dtd)
    BY DEF SendFlit
  <1>2. CASE dtd.node = Self
    BY <1>1, <1>2, SkipIInv
  <1>3. CASE dtd.node # Self
    BY <1>1, <1>3, InjectIInv
  <1> QED
    BY <1>2, <1>3

LEMMA StutterIInv == ASSUME IInv, UNCHANGED ctgVars PROVE IInv'
  <1>1. /\ UNCHANGED <<setting, now, running, appStop, received, starts>>
        /\ UNCHANGED <<startEvent, sendEvent, sending>>
    BY DEF ctgVars
  <1>2. TypeOK'
    BY <1>1, SettingUnchanged DEF IInv, TypeOK, received, starts, sending
  <1>3. EventsOfIteration' /\ StopInTime'
    BY <1>1, SettingUnchanged
       DEF IInv, Control, EventsOfIteration, StopInTime, MayContinue, starts, sending
  <1> QED
    BY <1>1, <1>2, <1>3, ControlUnchanged, SendingUnchanged, StartsUnchanged DEF IInv, Control

LEMMA NextIInv == IInv /\ [Next]_ctgVars => IInv'
  <1> SUFFICES ASSUME IInv, [Next]_ctgVars PROVE IInv'
    OBVIOUS
  <1>1. CASE StartApplication
    BY <1>1, StartApplicationIInv
  <1>2. CASE StopApplication
    BY <1>2, StopIInv
  <1>3. CASE \E p \in Predecessor : FlitReceivedCallback(p)
    BY <1>3, FlitReceivedIInv
  <1>4. CASE \E i \in Iteration : StartSending(i)
    BY <1>4, StartSendingIInv
  <1>5. CASE \E i \in Iteration : SendFlit(i)
    BY <1>5, SendFlitIInv
  <1>6. CASE Tick
    BY <1>6, TickIInv
  <1>7. CASE UNCHANGED ctgVars
    BY <1>7, StutterIInv
  <1> QED
    BY <1>1, <1>2, <1>3, <1>4, <1>5, <1>6, <1>7 DEF Next

LEMMA SpecIInv == Spec => []IInv
  BY InitIInv, NextIInv, PTL DEF Spec

(***************************************************************************)
(* Theorems.                                                               *)
(***************************************************************************)

(***************************************************************************)
(* The data of the iterations.  Sums over the predecessors are numbers of  *)
(* elements: the bytes that have arrived, each an element of its own.      *)
(***************************************************************************)
BytesArrived(i) == UNION {BytesBrought(setting, p, arrived[p], i) : p \in Predecessor}

\* What m_receivedData says of the iterations that are not complete.
DataIsCounted ==
  \A i \in Iteration : i >= currentIteration => receivedData[i] = Cardinality(BytesArrived(i))

ArrivedWithin == \A p \in Predecessor : arrived[p] <= Len(setting.remoteTaskList[p].flits)

CurrentIsIncomplete ==
  currentIteration \in Iteration /\ TotalData > 0 => receivedData[currentIteration] < TotalData

\* The iterations before the current one were started, those of a source at once.
CompleteIsStarted ==
  running /\ setting.localTaskList # <<>> =>
    \A i \in Iteration : i < currentIteration \/ ContainsNotDependentTask => injectionStarted[i]

DataInv == ArrivedWithin /\ DataIsCounted /\ CurrentIsIncomplete /\ CompleteIsStarted

LEMMA FlitTypes ==
  ASSUME TypeOK, NEW p \in Predecessor
  PROVE  LET flits == setting.remoteTaskList[p].flits
         IN /\ Len(flits) \in Nat
            /\ \A k \in 1 .. Len(flits) : flits[k].iteration \in Iteration /\ flits[k].bytes \in Nat
  <1>1. setting \in Setting
    BY DEF TypeOK
  <1> QED
    BY <1>1, CtgAssumption DEF Iteration, Predecessor

LEMMA ByteIsBrought ==
  ASSUME NEW s, NEW p, NEW n, NEW i, NEW x
  PROVE  x \in BytesBrought(s, p, n, i) <=>
           \E k \in 1 .. n : /\ s.remoteTaskList[p].flits[k].iteration = i
                            /\ \E b \in 1 .. s.remoteTaskList[p].flits[k].bytes : x = <<p, k, b>>
  BY DEF BytesBrought

\* The bytes of one flit are as many as it carries.
BytesOfFlit(p, k, bytes) == {<<p, k, b>> : b \in 1 .. bytes}

LEMMA BytesOfOneFlit ==
  ASSUME NEW p, NEW k, NEW bytes \in Nat
  PROVE  /\ IsFiniteSet(BytesOfFlit(p, k, bytes))
         /\ Cardinality(BytesOfFlit(p, k, bytes)) = bytes
  <1> DEFINE S == BytesOfFlit(p, k, bytes)
             f == [b \in 1 .. bytes |-> <<p, k, b>>]
  <1>1. f \in Bijection(1 .. bytes, S)
    BY DEF Bijection, Injection, Surjection, IsInjective, BytesOfFlit
  <1>2. IsFiniteSet(1 .. bytes) /\ Cardinality(1 .. bytes) = bytes
    BY FS_Interval
  <1>3. ExistsBijection(1 .. bytes, S)
    BY <1>1 DEF ExistsBijection
  <1> HIDE DEF S
  <1>4. IsFiniteSet(S) /\ Cardinality(S) = Cardinality(1 .. bytes)
    BY <1>2, <1>3, FS_Bijection
  <1> QED
    BY <1>2, <1>4 DEF S

\* A set of sets that belong each to one index, all finite, is finite.
LEMMA FiniteFamily ==
  ASSUME NEW P, IsFiniteSet(P), NEW A, \A p \in P : IsFiniteSet(A[p])
  PROVE  IsFiniteSet(UNION {A[p] : p \in P})
  <1> DEFINE S == {A[p] : p \in P}
             f == [p \in P |-> A[p]]
  <1>1. f \in Surjection(P, S)
    BY DEF Surjection
  <1>2. IsFiniteSet(S)
    <2> HIDE DEF S, f
    <2> QED BY <1>1, FS_Surjection
  <1>3. \A T \in S : IsFiniteSet(T)
    OBVIOUS
  <1> HIDE DEF S
  <1>4. IsFiniteSet(UNION S)
    BY <1>2, <1>3, FS_UNION
  <1> QED
    BY <1>4 DEF S

\* A sum is not larger than another when none of its terms is.
LEMMA SumsInOrder ==
  ASSUME NEW P, IsFiniteSet(P), NEW A, NEW B,
         \A p \in P : /\ IsFiniteSet(A[p]) /\ IsFiniteSet(B[p])
                      /\ Cardinality(A[p]) <= Cardinality(B[p])
                      /\ \A x \in A[p] \cup B[p] : x[1] = p
  PROVE  Cardinality(UNION {A[p] : p \in P}) <= Cardinality(UNION {B[p] : p \in P})
  <1> DEFINE AA == UNION {A[p] : p \in P}
             BB == UNION {B[p] : p \in P}
             F(p) == CHOOSE f \in [A[p] -> B[p]] : \A x, y \in A[p] : f[x] = f[y] => x = y
             g == [x \in AA |-> F(x[1])[x]]
  <1>1. ASSUME NEW p \in P
        PROVE  \E f \in [A[p] -> B[p]] : \A x, y \in A[p] : f[x] = f[y] => x = y
    <2> DEFINE m == Cardinality(A[p])
               n == Cardinality(B[p])
    <2>1. /\ m \in Nat /\ ExistsBijection(1 .. m, A[p])
          /\ n \in Nat /\ ExistsBijection(1 .. n, B[p])
      BY FS_CardinalityType
    <2>2. m <= n
      OBVIOUS
    <2> HIDE DEF m, n
    <2>3. PICK a \in [1 .. m -> A[p]] :
            \A x \in A[p] : \E k \in 1 .. m : a[k] = x
      BY <2>1 DEF ExistsBijection, Bijection, Surjection
    <2>4. PICK b \in [1 .. n -> B[p]] :
            \A k, l \in 1 .. n : b[k] = b[l] => k = l
      BY <2>1 DEF ExistsBijection, Bijection, Injection, IsInjective
    <2> DEFINE place(x) == CHOOSE k \in 1 .. m : a[k] = x
    <2>5. \A x \in A[p] : place(x) \in 1 .. m /\ a[place(x)] = x
      BY <2>3
    <2> HIDE DEF place
    <2>6. \A x \in A[p] : place(x) \in 1 .. n
      BY <2>1, <2>2, <2>5
    <2> DEFINE h == [x \in A[p] |-> b[place(x)]]
    <2>7. h \in [A[p] -> B[p]]
      BY <2>6
    <2>8. \A x, y \in A[p] : h[x] = h[y] => x = y
      BY <2>4, <2>5, <2>6
    <2> HIDE DEF h
    <2> QED
      BY <2>7, <2>8
  <1>2. \A p \in P : /\ F(p) \in [A[p] -> B[p]]
                     /\ \A x, y \in A[p] : F(p)[x] = F(p)[y] => x = y
    BY <1>1
  <1>3. \A x \in AA : x[1] \in P /\ x \in A[x[1]]
    OBVIOUS
  <1> HIDE DEF F
  <1>4. \A x \in AA : F(x[1])[x] \in B[x[1]]
    BY <1>2, <1>3
  <1>5. g \in [AA -> BB]
    BY <1>3, <1>4
  <1>6. ASSUME NEW x \in AA, NEW y \in AA, g[x] = g[y]
        PROVE  x = y
    <2>1. F(x[1])[x] = F(y[1])[y]
      BY <1>6
    <2>2. F(x[1])[x][1] = x[1] /\ F(y[1])[y][1] = y[1]
      BY <1>3, <1>4
    <2>3. x[1] = y[1]
      BY <2>1, <2>2
    <2> QED
      BY <1>2, <1>3, <2>1, <2>3
  <1>7. g \in Injection(AA, BB)
    BY <1>5, <1>6 DEF Injection, IsInjective
  <1>8. IsFiniteSet(BB)
    BY FiniteFamily
  <1> HIDE DEF AA, BB, g
  <1>9. Cardinality(AA) <= Cardinality(BB)
    BY <1>7, <1>8, FS_Injection
  <1> QED
    BY <1>9 DEF AA, BB

\* What the predecessors have brought for an iteration, seen as a sum.
LEMMA BytesArePerPredecessor ==
  ASSUME TypeOK, ArrivedWithin, NEW p \in Predecessor, NEW i \in Iteration
  PROVE  /\ IsFiniteSet(BytesBrought(setting, p, arrived[p], i))
         /\ \A x \in BytesBrought(setting, p, arrived[p], i) : x[1] = p
  <1> DEFINE flits == setting.remoteTaskList[p].flits
             n == arrived[p]
             K == {k \in 1 .. n : flits[k].iteration = i}
             A == [k \in K |-> BytesOfFlit(p, k, flits[k].bytes)]
  <1>1. n \in Nat /\ n <= Len(flits)
    BY DEF TypeOK, ArrivedWithin
  <1>2. IsFiniteSet(K)
    <2>1. IsFiniteSet(1 .. n)
      BY <1>1, FS_Interval
    <2> HIDE DEF n
    <2> QED
      BY <2>1, FS_Subset
  <1>3. \A k \in K : flits[k].bytes \in Nat
    BY <1>1, FlitTypes
  <1> HIDE DEF K
  <1>4. ASSUME NEW k \in K PROVE IsFiniteSet(A[k])
    <2>1. A[k] = BytesOfFlit(p, k, flits[k].bytes)
      OBVIOUS
    <2>2. flits[k].bytes \in Nat
      BY <1>3
    <2> HIDE DEF A
    <2> QED
      BY <2>1, <2>2, BytesOfOneFlit
  <1>5. \A x : x \in UNION {A[k] : k \in K}
              <=> \E k \in K : \E b \in 1 .. flits[k].bytes : x = <<p, k, b>>
    BY DEF BytesOfFlit
  <1> HIDE DEF A
  <1>6. IsFiniteSet(UNION {A[k] : k \in K})
    BY <1>2, <1>4, FiniteFamily
  <1>7. UNION {A[k] : k \in K} = BytesBrought(setting, p, arrived[p], i)
    BY <1>5, ByteIsBrought DEF K
  <1>8. \A x \in BytesBrought(setting, p, arrived[p], i) : x[1] = p
    BY ByteIsBrought
  <1> QED
    BY <1>6, <1>7, <1>8

LEMMA PredecessorsAreFinite ==
  ASSUME TypeOK
  PROVE  IsFiniteSet(Predecessor)
  <1>1. setting \in Setting
    BY DEF TypeOK
  <1> QED
    BY <1>1, CtgAssumption DEF Predecessor

LEMMA BytesAreFinite ==
  ASSUME TypeOK, ArrivedWithin, NEW i \in Iteration
  PROVE  IsFiniteSet(BytesArrived(i)) /\ Cardinality(BytesArrived(i)) \in Nat
  <1> DEFINE A == [p \in Predecessor |-> BytesBrought(setting, p, arrived[p], i)]
  <1>1. \A p \in Predecessor : IsFiniteSet(A[p])
    BY BytesArePerPredecessor
  <1>2. UNION {A[p] : p \in Predecessor} = BytesArrived(i)
    BY DEF BytesArrived
  <1> HIDE DEF A
  <1>3. IsFiniteSet(BytesArrived(i))
    BY <1>1, <1>2, PredecessorsAreFinite, FiniteFamily
  <1> QED
    BY <1>3, FS_CardinalityType

\* A later iteration has not got more than an earlier one.
LEMMA ArrivesInOrder ==
  ASSUME TypeOK, ArrivedWithin, IterationsInOrder(setting),
         NEW i \in Iteration, NEW j \in Iteration, i < j
  PROVE  Cardinality(BytesArrived(j)) <= Cardinality(BytesArrived(i))
  <1> DEFINE A == [p \in Predecessor |-> BytesBrought(setting, p, arrived[p], j)]
             B == [p \in Predecessor |-> BytesBrought(setting, p, arrived[p], i)]
  <1>1. \A p \in Predecessor : /\ IsFiniteSet(A[p]) /\ IsFiniteSet(B[p])
                               /\ \A x \in A[p] \cup B[p] : x[1] = p
    BY BytesArePerPredecessor
  <1>2. \A p \in Predecessor : Cardinality(A[p]) <= Cardinality(B[p])
    <2> TAKE p \in Predecessor
    <2>1. arrived[p] \in 0 .. Len(setting.remoteTaskList[p].flits)
      BY FlitTypes DEF TypeOK, ArrivedWithin
    <2> QED
      BY <2>1 DEF IterationsInOrder, Predecessor, Iteration
  <1>3. /\ UNION {A[p] : p \in Predecessor} = BytesArrived(j)
        /\ UNION {B[p] : p \in Predecessor} = BytesArrived(i)
    BY DEF BytesArrived
  <1> HIDE DEF A, B
  <1> QED
    BY <1>1, <1>2, <1>3, PredecessorsAreFinite, SumsInOrder

\* A flit adds what it carries to its iteration, and nothing to the others.
LEMMA ArrivalIsCounted ==
  ASSUME IInv, ArrivedWithin, NEW p \in Predecessor, FlitReceivedCallback(p), NEW i \in Iteration
  PROVE  LET flit == setting.remoteTaskList[p].flits[arrived[p] + 1]
         IN Cardinality(BytesArrived(i)')
              = Cardinality(BytesArrived(i)) + (IF flit.iteration = i THEN flit.bytes ELSE 0)
  <1> DEFINE flits == setting.remoteTaskList[p].flits
             n == arrived[p]
             flit == flits[n + 1]
             S == BytesOfFlit(p, n + 1, flit.bytes)
             Added == IF flit.iteration = i THEN S ELSE {}
  <1>1. /\ n < Len(flits) /\ arrived' = [arrived EXCEPT ![p] = n + 1] /\ setting' = setting
    BY DEF FlitReceivedCallback
  <1>2. n \in Nat /\ Len(flits) \in Nat /\ n + 1 \in 1 .. Len(flits)
        /\ flit.bytes \in Nat
    <2>1. n \in Nat /\ Len(flits) \in Nat
      BY FlitTypes DEF IInv, TypeOK
    <2>2. n + 1 \in 1 .. Len(flits)
      BY <1>1, <2>1
    <2> QED
      BY <2>1, <2>2, FlitTypes DEF IInv
  <1>3. BytesArrived(i)' = UNION {BytesBrought(setting, q, arrived'[q], i) : q \in Predecessor}
    BY <1>1 DEF BytesArrived, Predecessor, BytesBrought
  <1>4. \A q \in Predecessor : arrived'[q] = IF q = p THEN n + 1 ELSE arrived[q]
    BY <1>1 DEF IInv, TypeOK
  <1>5. BytesBrought(setting, p, n + 1, i) = BytesBrought(setting, p, n, i) \cup Added
    <2>1. 1 .. n + 1 = (1 .. n) \cup {n + 1}
      BY <1>2
    <2>2. \A x : x \in Added <=> /\ flits[n + 1].iteration = i
                                /\ \E b \in 1 .. flits[n + 1].bytes : x = <<p, n + 1, b>>
      BY DEF BytesOfFlit
    <2> HIDE DEF Added
    <2>3. \A x : x \in BytesBrought(setting, p, n + 1, i)
                   <=> x \in BytesBrought(setting, p, n, i) \/ x \in Added
      BY <2>1, <2>2, ByteIsBrought
    <2> QED
      BY <2>3
  <1>6. BytesArrived(i)' = BytesArrived(i) \cup Added
    <2>1. \A q \in Predecessor : BytesBrought(setting, q, arrived'[q], i)
            = IF q = p THEN BytesBrought(setting, p, n, i) \cup Added
              ELSE BytesBrought(setting, q, arrived[q], i)
      BY <1>4, <1>5
    <2> HIDE DEF Added
    <2> QED
      BY <1>3, <2>1 DEF BytesArrived
  <1>7. BytesArrived(i) \cap Added = {}
    <2> SUFFICES ASSUME NEW x \in BytesArrived(i), x \in Added PROVE FALSE
      OBVIOUS
    <2>1. x[1] = p /\ x[2] = n + 1
      BY DEF BytesOfFlit
    <2>2. PICK q \in Predecessor : x \in BytesBrought(setting, q, arrived[q], i)
      BY DEF BytesArrived
    <2>3. PICK k \in 1 .. arrived[q] : \E b : x = <<q, k, b>>
      BY <2>2, ByteIsBrought
    <2> QED
      BY <1>2, <2>1, <2>3
  <1>8. IsFiniteSet(Added) /\ Cardinality(Added) = IF flit.iteration = i THEN flit.bytes ELSE 0
    <2>1. IsFiniteSet(S) /\ Cardinality(S) = flit.bytes
      BY <1>2, BytesOfOneFlit
    <2> HIDE DEF S
    <2> QED
      BY <2>1, FS_EmptySet
  <1>9. IsFiniteSet(BytesArrived(i)) /\ Cardinality(BytesArrived(i)) \in Nat
    BY BytesAreFinite DEF IInv
  <1> HIDE DEF Added
  <1>10. Cardinality(BytesArrived(i) \cup Added) = Cardinality(BytesArrived(i)) + Cardinality(Added)
    <2>1. Cardinality(BytesArrived(i) \cup Added)
            = Cardinality(BytesArrived(i)) + Cardinality(Added) - Cardinality(BytesArrived(i) \cap Added)
      BY <1>8, <1>9, FS_Union
    <2>2. Cardinality(Added) \in Nat
      BY <1>8, FS_CardinalityType
    <2>3. Cardinality(BytesArrived(i) \cap Added) = 0
      BY <1>7, FS_EmptySet
    <2> QED
      BY <1>9, <2>1, <2>2, <2>3
  <1> QED
    BY <1>6, <1>8, <1>10

LEMMA DataInvUnchanged ==
  ASSUME TypeOK, DataInv, UNCHANGED <<setting, received, running, injectionStarted>>
  PROVE  DataInv'
  <1>1. \A i : BytesArrived(i)' = BytesArrived(i)
    BY SettingUnchanged DEF BytesArrived, BytesBrought, received
  <1>2. ArrivedWithin'
    BY SettingUnchanged DEF DataInv, ArrivedWithin, received
  <1>3. DataIsCounted'
    BY <1>1, SettingUnchanged DEF DataInv, DataIsCounted, received
  <1>4. CurrentIsIncomplete' /\ CompleteIsStarted'
    BY SettingUnchanged DEF DataInv, CurrentIsIncomplete, CompleteIsStarted, received
  <1> QED
    BY <1>2, <1>3, <1>4 DEF DataInv

LEMMA InitDataInv == Init => DataInv
  <1> SUFFICES ASSUME Init PROVE DataInv
    OBVIOUS
  <1>1. TypeOK
    BY InitIInv DEF IInv
  <1>2. \A p \in Predecessor : arrived[p] = 0
    BY DEF Init
  <1>3. ArrivedWithin
    BY <1>1, <1>2, FlitTypes DEF ArrivedWithin
  <1>4. DataIsCounted
    <2>1. ASSUME NEW i \in Iteration PROVE BytesArrived(i) = {}
      <3>1. \A p \in Predecessor : \A x : x \notin BytesBrought(setting, p, arrived[p], i)
        BY <1>2, ByteIsBrought
      <3> QED
        BY <3>1 DEF BytesArrived
    <2>2. \A i \in Iteration : receivedData[i] = 0
      BY DEF Init, Zero
    <2> QED
      BY <2>1, <2>2, FS_EmptySet DEF DataIsCounted
  <1>5. CurrentIsIncomplete /\ CompleteIsStarted
    BY DEF Init, Zero, CurrentIsIncomplete, CompleteIsStarted
  <1> QED
    BY <1>3, <1>4, <1>5 DEF DataInv

\* A source starts its iterations when it starts.
LEMMA StartApplicationDataInv ==
  ASSUME IInv, DataInv, StartApplication
  PROVE  DataInv'
  <1>1. /\ running' = TRUE /\ UNCHANGED <<setting, received>>
        /\ currentIteration = 0
    BY DEF StartApplication, IInv, Control, NotRunning
  <1>2. \A i : BytesArrived(i)' = BytesArrived(i)
    BY <1>1, SettingUnchanged DEF BytesArrived, BytesBrought, received
  <1>3. ArrivedWithin' /\ CurrentIsIncomplete'
    BY <1>1, SettingUnchanged DEF DataInv, ArrivedWithin, CurrentIsIncomplete, received
  <1>4. DataIsCounted'
    BY <1>1, <1>2, SettingUnchanged DEF DataInv, DataIsCounted, received
  <1>5. CompleteIsStarted'
    <2>1. ContainsNotDependentTask /\ setting.localTaskList # <<>>
            => injectionStarted' = [i \in Iteration |-> TRUE]
      BY DEF StartApplication
    <2>2. \A i \in Iteration : ~(i < 0)
      BY DEF Iteration
    <2> QED
      BY <1>1, <2>1, <2>2, SettingUnchanged DEF CompleteIsStarted, received
  <1> QED
    BY <1>3, <1>4, <1>5 DEF DataInv

\* The flit that completes the current iteration belongs to it, and the next one has
\* not got more.
LEMMA FlitReceivedDataInv ==
  ASSUME IInv, DataInv, IterationsInOrder(setting), NEW p \in Predecessor, FlitReceivedCallback(p)
  PROVE  DataInv'
  <1> DEFINE flits == setting.remoteTaskList[p].flits
             flit == flits[arrived[p] + 1]
             data == [receivedData EXCEPT ![flit.iteration] = @ + flit.bytes]
             i == currentIteration
  <1>1. /\ running /\ UNCHANGED <<setting, running>>
        /\ arrived[p] < Len(flits) /\ arrived' = [arrived EXCEPT ![p] = @ + 1]
    BY DEF FlitReceivedCallback, OthersAreDue
  <1>2. /\ arrived \in [Predecessor -> Nat] /\ receivedData \in [Iteration -> Nat]
        /\ i \in Nat /\ TotalData \in Nat /\ TotalData > 0 /\ setting.iterations \in Nat
        /\ TypeOK
    <2>1. TypeOK
      BY DEF IInv
    <2>2. setting.iterations \in Nat /\ TotalData \in Nat /\ TotalData > 0
      BY <2>1, SettingTypes, TotalDataTypes
    <2> QED
      BY <2>1, <2>2 DEF TypeOK
  <1>3. flit.iteration \in Iteration /\ flit.bytes \in Nat /\ Len(flits) \in Nat
    <2>1. Len(flits) \in Nat
      BY <1>2, FlitTypes
    <2>2. arrived[p] + 1 \in 1 .. Len(flits)
      BY <1>1, <1>2, <2>1
    <2> QED
      BY <1>2, <2>1, <2>2, FlitTypes
  <1>4. ArrivedWithin'
    BY <1>1, <1>2, <1>3, SettingUnchanged DEF DataInv, ArrivedWithin
  <1>5. \A j \in Iteration : data[j] = receivedData[j] + (IF flit.iteration = j THEN flit.bytes ELSE 0)
    BY <1>2, <1>3
  <1>6. \A j \in Iteration : j >= i => data[j] = Cardinality(BytesArrived(j)')
    <2> TAKE j \in Iteration
    <2> HAVE j >= i
    <2>1. receivedData[j] = Cardinality(BytesArrived(j))
      BY DEF DataInv, DataIsCounted
    <2>2. Cardinality(BytesArrived(j)')
            = Cardinality(BytesArrived(j)) + (IF flit.iteration = j THEN flit.bytes ELSE 0)
      BY ArrivalIsCounted DEF DataInv
    <2> HIDE DEF data, flit
    <2> QED
      BY <1>5, <2>1, <2>2
  <1>7. \A j \in Iteration : j \in Nat
    BY DEF Iteration
  <1> HIDE DEF data, flit
  <1>8. CASE ~IsComplete(data, i)
    <2>1. receivedData' = data /\ UNCHANGED <<currentIteration, injectionStarted>>
      BY <1>8 DEF FlitReceivedCallback, starts, data, flit
    <2>2. DataIsCounted'
      BY <1>1, <1>6, <2>1, SettingUnchanged DEF DataIsCounted
    <2>3. CurrentIsIncomplete'
      <3>1. i \in Iteration => data[i] \in Nat
        BY <1>2, <1>3, <1>5
      <3>2. i \in Iteration => i < setting.iterations
        BY <1>2 DEF Iteration
      <3> QED
        BY <1>1, <1>2, <1>8, <2>1, <3>1, <3>2, SettingUnchanged DEF CurrentIsIncomplete, IsComplete
    <2>4. CompleteIsStarted'
      BY <1>1, <2>1, SettingUnchanged DEF DataInv, CompleteIsStarted
    <2> QED
      BY <1>4, <2>2, <2>3, <2>4 DEF DataInv
  <1>9. CASE IsComplete(data, i)
    <2>1. i \in Iteration /\ data[i] >= TotalData
      BY <1>2, <1>9 DEF IsComplete, Iteration
    <2>2. receivedData' = [data EXCEPT ![i] = TotalData] /\ currentIteration' = i + 1
      BY <1>9 DEF FlitReceivedCallback, NextIteration, data, flit
    <2>3. receivedData[i] < TotalData /\ receivedData[i] = Cardinality(BytesArrived(i))
      BY <1>2, <2>1 DEF DataInv, CurrentIsIncomplete, DataIsCounted
    <2>4. flit.iteration = i
      BY <1>2, <1>3, <1>5, <2>1, <2>3
    <2>5. \A j \in Iteration : j # i => receivedData'[j] = data[j]
      BY <1>2, <2>2 DEF data
    <2>6. DataIsCounted'
      BY <1>1, <1>2, <1>6, <1>7, <2>2, <2>5, SettingUnchanged DEF DataIsCounted
    <2>7. CurrentIsIncomplete'
      <3> SUFFICES ASSUME i + 1 \in Iteration PROVE receivedData'[i + 1] < TotalData
        BY <1>1, <2>2, SettingUnchanged DEF CurrentIsIncomplete
      <3>1. receivedData'[i + 1] = receivedData[i + 1]
        BY <1>2, <1>5, <2>4, <2>5
      <3>2. receivedData[i + 1] = Cardinality(BytesArrived(i + 1))
        BY <1>2 DEF DataInv, DataIsCounted
      <3>3. Cardinality(BytesArrived(i + 1)) <= Cardinality(BytesArrived(i))
        BY <1>2, <2>1, ArrivesInOrder DEF DataInv
      <3> QED
        BY <1>2, <2>1, <2>3, <3>1, <3>2, <3>3
    <2>8. CompleteIsStarted'
      <3> SUFFICES ASSUME setting.localTaskList # <<>>, NEW j \in Iteration,
                          j < i + 1 \/ ContainsNotDependentTask
                   PROVE  injectionStarted'[j]
        BY <1>1, <2>2, SettingUnchanged DEF CompleteIsStarted
      <3>1. injectionStarted \in [Iteration -> BOOLEAN]
        BY DEF IInv, TypeOK
      <3>2. \/ UNCHANGED injectionStarted
            \/ injectionStarted' = [injectionStarted EXCEPT ![i] = TRUE]
        BY <1>9 DEF FlitReceivedCallback, ScheduleStartEvent, ExecuteOnly, starts, data, flit
      <3>3. CASE j # i \/ ContainsNotDependentTask
        <4>1. injectionStarted[j]
          BY <1>1, <1>2, <1>7, <3>3 DEF DataInv, CompleteIsStarted
        <4> QED
          BY <2>1, <3>1, <3>2, <4>1
      <3>4. CASE j = i /\ ~ContainsNotDependentTask
        <4>1. destinationIndex[i] < Len(setting.localTaskList) => injectionStarted'[i]
          BY <1>9, <2>1, <3>1, <3>4
             DEF FlitReceivedCallback, ScheduleStartEvent, data, flit
        <4>2. ~injectionStarted[i] => destinationIndex[i] = 0
          BY <2>1 DEF IInv, Control, EventsOfIteration
        <4>3. Len(setting.localTaskList) \in Nat /\ Len(setting.localTaskList) # 0
          BY <1>2, SettingTypes DEF NumberOfDestinations
        <4>4. injectionStarted[i] => injectionStarted'[i]
          BY <2>1, <3>1, <3>2
        <4> QED
          BY <3>4, <4>1, <4>2, <4>3, <4>4
      <3> QED
        BY <3>3, <3>4
    <2> QED
      BY <1>4, <2>6, <2>7, <2>8 DEF DataInv
  <1> QED
    BY <1>8, <1>9

LEMMA NextDataInv ==
  ASSUME \A s \in Setting : IterationsInOrder(s)
  PROVE  IInv /\ DataInv /\ [Next]_ctgVars => DataInv'
  <1> SUFFICES ASSUME IInv, DataInv, [Next]_ctgVars PROVE DataInv'
    OBVIOUS
  <1>1. TypeOK /\ IterationsInOrder(setting)
    BY DEF IInv, TypeOK
  <1>2. CASE StartApplication
    BY <1>2, StartApplicationDataInv
  <1>3. ASSUME NEW p \in Predecessor, FlitReceivedCallback(p) PROVE DataInv'
    BY <1>1, <1>3, FlitReceivedDataInv
  <1>4. CASE StopApplication
    BY <1>1, <1>4, DataInvUnchanged DEF StopApplication, starts
  <1>5. ASSUME NEW i \in Iteration, StartSending(i) PROVE DataInv'
    BY <1>1, <1>5, DataInvUnchanged DEF StartSending, starts
  <1>6. ASSUME NEW i \in Iteration, SendFlit(i) PROVE DataInv'
    BY <1>1, <1>6, DataInvUnchanged DEF SendFlit, starts
  <1>7. CASE Tick
    BY <1>1, <1>7, DataInvUnchanged DEF Tick, starts
  <1>8. CASE UNCHANGED ctgVars
    BY <1>1, <1>8, DataInvUnchanged DEF ctgVars, starts
  <1> QED
    BY <1>2, <1>3, <1>4, <1>5, <1>6, <1>7, <1>8 DEF Next

LEMMA CompleteMeansStarted ==
  ASSUME \A s \in Setting : IterationsInOrder(s), IInv, DataInv
  PROVE  NoIterationLost
  <1> SUFFICES ASSUME NEW i \in Iteration, running, TotalData > 0, receivedData[i] >= TotalData
               PROVE  /\ currentIteration > i
                      /\ setting.localTaskList # <<>> => injectionStarted[i]
    BY DEF NoIterationLost
  <1>1. /\ TypeOK /\ IterationsInOrder(setting) /\ ArrivedWithin
        /\ receivedData[i] \in Nat /\ TotalData \in Nat
        /\ i \in Nat /\ currentIteration \in Nat /\ setting.iterations \in Nat
    <2>1. TypeOK /\ ArrivedWithin
      BY DEF IInv, DataInv
    <2>2. setting \in Setting /\ receivedData[i] \in Nat /\ currentIteration \in Nat
      BY <2>1 DEF TypeOK
    <2>3. setting.iterations \in Nat /\ TotalData \in Nat
      BY <2>1, SettingTypes, TotalDataTypes
    <2> QED
      BY <2>1, <2>2, <2>3 DEF Iteration
  <1>2. currentIteration > i
    <2> SUFFICES ASSUME i >= currentIteration PROVE FALSE
      BY <1>1
    <2>1. currentIteration \in Iteration
      BY <1>1 DEF Iteration
    <2>2. /\ receivedData[currentIteration] < TotalData
          /\ receivedData[currentIteration] \in Nat
          /\ receivedData[currentIteration] = Cardinality(BytesArrived(currentIteration))
          /\ receivedData[i] = Cardinality(BytesArrived(i))
      BY <1>1, <2>1 DEF IInv, TypeOK, DataInv, CurrentIsIncomplete, DataIsCounted
    <2>3. CASE i = currentIteration
      BY <1>1, <2>2, <2>3
    <2>4. CASE i > currentIteration
      <3>1. Cardinality(BytesArrived(i)) <= Cardinality(BytesArrived(currentIteration))
        BY <1>1, <2>1, <2>4, ArrivesInOrder
      <3> QED
        BY <1>1, <2>2, <3>1
    <2> QED
      BY <1>1, <2>3, <2>4
  <1>3. setting.localTaskList # <<>> => injectionStarted[i]
    BY <1>1, <1>2 DEF DataInv, CompleteIsStarted
  <1> QED
    BY <1>2, <1>3

\* The counters, events and indices of all iterations keep their types: SendFlit never
\* looks for a destination behind the last one.
THEOREM CtgTypeCorrect == Spec => []TypeOK
  <1>1. IInv => TypeOK
    BY DEF IInv
  <1> QED
    BY <1>1, SpecIInv, PTL

\* SendFlit gives every destination its data and less than a flit more, however the
\* iterations overlap, packets are cut, and limits and StopApplication interrupt it.
THEOREM DestinationsGetTheData == Spec => []SendsTheData
  <1>1. IInv => SendsTheData
    BY DEF IInv
  <1> QED
    BY <1>1, SpecIInv, PTL

\* StartApplication and FlitReceivedCallback start no iteration twice, and a dependent
\* one only when its data is there.
THEOREM IterationsStartOnce == Spec => []StartsOnce
  <1>1. IInv => StartsOnce
    BY DEF IInv
  <1> QED
    BY <1>1, SpecIInv, PTL

\* ScheduleStartEvent leaves the core the whole execution time for every iteration.
THEOREM CoreExecutesOne == Spec => []ExecutionsApart
  <1>1. IInv => ExecutionsApart
    BY DEF IInv
  <1> QED
    BY <1>1, SpecIInv, PTL

\* The same for a core that sends nothing and only executes.
THEOREM SinkExecutesInTurn == Spec => []ExecutesInTurn
  <1>1. IInv => ExecutesInTurn
    BY DEF IInv
  <1> QED
    BY <1>1, SpecIInv, PTL

\* ScheduleNextTx keeps every iteration within MaxFlits, and within MaxBytes but for a flit.
THEOREM IterationsKeepLimits == Spec => []RespectsLimits
  <1>1. IInv => RespectsLimits
    BY DEF IInv
  <1> QED
    BY <1>1, SpecIInv, PTL

\* A source injects nothing after StopApplication: no event of any iteration is left.
THEOREM SourceStops == Spec => StopIsFinal
  <1> DEFINE After == Predecessor = {} /\ setting.stopTime \in 1 .. now => totFlits' = totFlits
  <1>1. ASSUME IInv, [Next]_ctgVars PROVE After
    <2> SUFFICES ASSUME Predecessor = {}, setting.stopTime \in 1 .. now, totFlits' # totFlits
                 PROVE  FALSE
      OBVIOUS
    <2>1. PICK i \in Iteration : SendFlit(i)
      BY <1>1 DEF Next, ctgVars, sending, StartApplication, StopApplication,
         FlitReceivedCallback, StartSending, Tick
    <2>2. sendEvent[i] = now /\ appStop # now /\ now \in Nat
      BY <1>1, <2>1, SendFlitTypes
    <2>3. appStop \in {Nothing, setting.stopTime} /\ setting.stopTime \in Nat
      BY <1>1, SettingTypes DEF IInv, TypeOK
    <2>4. appStop = Nothing
      BY <1>1, <2>2, <2>3 DEF IInv, StopInTime
    <2>5. sendEvent = NoEvent
      BY <1>1, <2>2, <2>3, <2>4 DEF IInv, StopInTime
    <2> QED
      BY <2>2, <2>5 DEF NoEvent, Nothing
  <1>2. IInv /\ [Next]_ctgVars => [After]_ctgVars
    BY <1>1
  <1> QED
    BY <1>2, SpecIInv, PTL DEF Spec, StopIsFinal

\* FlitReceivedCallback overlooks no iteration whose data is there, although it only
\* looks at the current one, if the predecessors send in the order of the iterations.
THEOREM IterationsNotLost ==
  ASSUME \A s \in Setting : IterationsInOrder(s)
  PROVE  Spec => []NoIterationLost
  <1>1. Init => DataInv
    BY InitDataInv
  <1>2. IInv /\ DataInv /\ [Next]_ctgVars => DataInv'
    BY NextDataInv
  <1>3. IInv /\ DataInv => NoIterationLost
    BY CompleteMeansStarted
  <1> QED
    BY <1>1, <1>2, <1>3, SpecIInv, PTL DEF Spec

=============================================================================
