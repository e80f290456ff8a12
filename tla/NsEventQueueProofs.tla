------------------------- MODULE NsEventQueueProofs -------------------------
(***************************************************************************)
(* NsEventQueue implements NsSimulator with ListScheduler, MapScheduler    *)
(* and HeapScheduler, for every set of delays and every bound: what each   *)
(* of them does to its data structure is what NsSimulator does to the set  *)
(* of the pending events, also when they are exchanged for one another.    *)
(***************************************************************************)
EXTENDS NsEventQueue, FiniteSetTheorems, TLAPS

(***************************************************************************)
(* Induction, and what a loop leaves.                                      *)
(***************************************************************************)
LessNat == {p \in Nat \X Nat : p[1] < p[2]}

LEMMA LeastNat ==
  ASSUME NEW T \in SUBSET Nat, T # {}
  PROVE  \E x \in T : \A y \in T : x <= y
  <1>1. IsWellFoundedOn(LessNat, Nat)
    BY NatLessThanWellFounded DEF OpToRel, LessNat
  <1>2. PICK x \in T : \A y \in T : <<y, x>> \notin LessNat
    BY <1>1, WFMin
  <1>3. \A y \in T : ~(y < x)
    BY <1>2 DEF LessNat
  <1> QED BY <1>3

LEMMA Induction ==
  ASSUME NEW n \in Nat, NEW P \in SUBSET (0 .. n), 0 \in P,
         \A k \in 1 .. n : k - 1 \in P => k \in P
  PROVE  P = 0 .. n
  <1> DEFINE T == (0 .. n) \ P
  <1>1. SUFFICES ASSUME T # {} PROVE FALSE
    OBVIOUS
  <1>2. T \in SUBSET Nat
    OBVIOUS
  <1>3. PICK x \in T : \A y \in T : x <= y
    <2> HIDE DEF T
    <2> QED BY <1>1, <1>2, LeastNat
  <1>4. x \in 1 .. n /\ x - 1 \in 0 .. n /\ x - 1 \notin T
    BY <1>3
  <1> QED BY <1>3, <1>4

Runs(a, S, F, s, n) ==
    a \in [0 .. n -> S] /\ a[0] = s /\ \A k \in 1 .. n : a[k] = F[a[k - 1]]

LEMMA LoopExists ==
  ASSUME NEW S, NEW s \in S, NEW F \in [S -> S], NEW n \in Nat
  PROVE  \E a : Runs(a, S, F, s, n)
  <1> DEFINE Is(a, m) == a[0] = s /\ \A k \in 1 .. m : a[k] = F[a[k - 1]]
             P == {m \in 0 .. n : \E a \in [0 .. m -> S] : Is(a, m)}
  <1>1. 0 \in P
    <2> DEFINE a == [k \in 0 .. 0 |-> s]
    <2>1. a \in [0 .. 0 -> S] /\ Is(a, 0)
      OBVIOUS
    <2> HIDE DEF a, Is
    <2> QED BY <2>1
  <1>2. ASSUME NEW k \in 1 .. n, k - 1 \in P PROVE k \in P
    <2>1. PICK a \in [0 .. k - 1 -> S] : Is(a, k - 1)
      BY <1>2
    <2> DEFINE b == [j \in 0 .. k |-> IF j = k THEN F[a[k - 1]] ELSE a[j]]
    <2>2. b \in [0 .. k -> S]
      OBVIOUS
    <2>3. ASSUME NEW j \in 1 .. k
          PROVE  b[j] = F[b[j - 1]]
      <3>1. CASE j = k
        <4>1. b[j] = F[a[k - 1]] /\ b[j - 1] = a[k - 1]
          BY <3>1
        <4> HIDE DEF b
        <4> QED BY <4>1
      <3>2. CASE j # k
        <4>1. j \in 1 .. k - 1 /\ b[j] = a[j] /\ b[j - 1] = a[j - 1]
          BY <3>2
        <4>2. a[j] = F[a[j - 1]]
          BY <2>1, <4>1
        <4> HIDE DEF b
        <4> QED BY <4>1, <4>2
      <3> QED BY <3>1, <3>2
    <2>4. b[0] = s
      BY <2>1
    <2> HIDE DEF b
    <2>5. Is(b, k)
      BY <2>3, <2>4
    <2> QED BY <2>2, <2>5
  <1>3. P = 0 .. n
    <2> HIDE DEF P
    <2>1. P \in SUBSET (0 .. n)
      BY DEF P
    <2> QED BY <2>1, <1>1, <1>2, Induction
  <1> QED BY <1>3 DEF Runs

(***************************************************************************)
(* The order of the events.                                                *)
(***************************************************************************)
Distinct(S) == \A a, b \in S : a.uid = b.uid => a = b

IsEarliest(S, a) == a \in S /\ \A b \in S \ {a} : Less(a, b)

LEMMA LessIsOrder ==
  ASSUME NEW a \in Event, NEW b \in Event
  PROVE  /\ ~Less(a, a) /\ ~(Less(a, b) /\ Less(b, a))
         /\ a.uid # b.uid => Less(a, b) \/ Less(b, a)
         /\ \A c \in Event : Less(a, b) /\ Less(b, c) => Less(a, c)
  BY DEF Less, Event

LEMMA EarliestIsUnique ==
  ASSUME NEW S \in SUBSET Event, NEW a, NEW b, IsEarliest(S, a), IsEarliest(S, b)
  PROVE  a = b
  <1>1. a \in Event /\ b \in Event
    BY DEF IsEarliest
  <1>2. a # b => Less(a, b) /\ Less(b, a)
    BY DEF IsEarliest
  <1> QED BY <1>1, <1>2, LessIsOrder

\* Every set of events has an earliest one.
LEMMA EarliestExists ==
  ASSUME NEW S \in SUBSET Event, Distinct(S), S # {}
  PROVE  IsEarliest(S, EarliestOf(S))
  <1> DEFINE T == {a.ts : a \in S}
  <1>1. T \in SUBSET Nat /\ T # {}
    BY DEF Event
  <1>2. PICK t \in T : \A y \in T : t <= y
    <2> HIDE DEF T
    <2> QED BY <1>1, LeastNat
  <1> DEFINE U == {a.uid : a \in {b \in S : b.ts = t}}
  <1>3. U \in SUBSET Nat /\ U # {}
    BY <1>2 DEF Event
  <1>4. PICK u \in U : \A y \in U : u <= y
    <2> HIDE DEF U
    <2> QED BY <1>3, LeastNat
  <1>5. PICK a \in S : a.ts = t /\ a.uid = u
    BY <1>4
  <1>6. ASSUME NEW b \in S \ {a} PROVE Less(a, b)
    <2>1. a.uid # b.uid /\ b.ts \in T
      BY <1>6 DEF Distinct
    <2>2. /\ a.ts \in Nat /\ b.ts \in Nat /\ a.uid \in Nat /\ b.uid \in Nat
          /\ a.ts <= b.ts
      BY <1>2, <1>5, <2>1, <1>6 DEF Event
    <2>3. a.ts = b.ts => a.uid <= b.uid
      BY <1>4, <1>5
    <2> QED BY <2>1, <2>2, <2>3 DEF Less
  <1>7. a \in S /\ \A b \in S \ {a} : Less(a, b)
    BY <1>6
  <1> QED BY <1>7 DEF EarliestOf, IsEarliest

(***************************************************************************)
(* Sorted sequences: ListScheduler.                                        *)
(***************************************************************************)
Sorted(seq) == \A i, j \in 1 .. Len(seq) : i < j => Less(seq[i], seq[j])

LEMMA InsertAtIs ==
  ASSUME NEW s \in Seq(Event), NEW e \in Event, NEW i \in 1 .. Len(s) + 1
  PROVE  /\ Seqs!InsertAt(s, i, e) \in Seq(Event)
         /\ Len(Seqs!InsertAt(s, i, e)) = Len(s) + 1
         /\ \A j \in 1 .. Len(s) + 1 :
              Seqs!InsertAt(s, i, e)[j] = IF j < i THEN s[j] ELSE IF j = i THEN e ELSE s[j - 1]
  <1> DEFINE a == SubSeq(s, 1, i - 1)
             b == SubSeq(s, i, Len(s))
             r == (a \o <<e>>) \o b
  <1>1. a \in Seq(Event) /\ Len(a) = i - 1 /\ \A j \in 1 .. i - 1 : a[j] = s[j]
    OBVIOUS
  <1>2. /\ b \in Seq(Event) /\ Len(b) = Len(s) + 1 - i
        /\ \A j \in 1 .. Len(s) + 1 - i : b[j] = s[j + i - 1]
    OBVIOUS
  <1>3. Seqs!InsertAt(s, i, e) = r
    BY DEF Seqs!InsertAt
  <1> HIDE DEF a, b
  <1>4. /\ a \o <<e>> \in Seq(Event) /\ Len(a \o <<e>>) = i
        /\ \A j \in 1 .. i : (a \o <<e>>)[j] = IF j < i THEN s[j] ELSE e
    BY <1>1
  <1>5. r \in Seq(Event) /\ Len(r) = Len(s) + 1
    BY <1>4, <1>2
  <1>6. ASSUME NEW j \in 1 .. Len(s) + 1
        PROVE  r[j] = IF j < i THEN s[j] ELSE IF j = i THEN e ELSE s[j - 1]
    <2>1. CASE j <= i
      BY <2>1, <1>4, <1>2
    <2>2. CASE j > i
      <3>1. r[j] = b[j - i] /\ j - i \in 1 .. Len(s) + 1 - i
        BY <2>2, <1>4, <1>2
      <3>2. b[j - i] = s[(j - i) + i - 1] /\ (j - i) + i - 1 = j - 1
        BY <3>1, <1>2
      <3> HIDE DEF r
      <3> QED BY <2>2, <3>1, <3>2
    <2>3. j <= i \/ j > i
      OBVIOUS
    <2> HIDE DEF r
    <2> QED BY <2>1, <2>2, <2>3
  <1> QED BY <1>3, <1>5, <1>6

LEMMA RemoveAtIs ==
  ASSUME NEW s \in Seq(Event), NEW i \in 1 .. Len(s)
  PROVE  /\ Seqs!RemoveAt(s, i) \in Seq(Event)
         /\ Len(Seqs!RemoveAt(s, i)) = Len(s) - 1
         /\ \A j \in 1 .. Len(s) - 1 : Seqs!RemoveAt(s, i)[j] = IF j < i THEN s[j] ELSE s[j + 1]
  <1> DEFINE a == SubSeq(s, 1, i - 1)
             b == SubSeq(s, i + 1, Len(s))
             r == a \o b
  <1>1. a \in Seq(Event) /\ Len(a) = i - 1 /\ \A j \in 1 .. i - 1 : a[j] = s[j]
    OBVIOUS
  <1>2. /\ b \in Seq(Event) /\ Len(b) = Len(s) - i
        /\ \A j \in 1 .. Len(s) - i : b[j] = s[j + i]
    OBVIOUS
  <1>3. Seqs!RemoveAt(s, i) = r
    BY DEF Seqs!RemoveAt
  <1> HIDE DEF a, b
  <1>4. r \in Seq(Event) /\ Len(r) = Len(s) - 1
    <2>1. a \in Seq(Event) /\ b \in Seq(Event)
      BY <1>1, <1>2
    <2>2. r \in Seq(Event) /\ Len(r) = Len(a) + Len(b)
      BY <2>1
    <2> HIDE DEF r
    <2> QED BY <2>2, <1>1, <1>2
  <1>5. ASSUME NEW j \in 1 .. Len(s) - 1
        PROVE  r[j] = IF j < i THEN s[j] ELSE s[j + 1]
    <2>1. CASE j < i
      BY <2>1, <1>1, <1>2
    <2>2. CASE ~(j < i)
      <3>1. r[j] = b[j - (i - 1)] /\ j - (i - 1) \in 1 .. Len(s) - i
        BY <2>2, <1>1, <1>2
      <3>2. b[j - (i - 1)] = s[(j - (i - 1)) + i] /\ (j - (i - 1)) + i = j + 1
        BY <3>1, <1>2
      <3> HIDE DEF r
      <3> QED BY <2>2, <3>1, <3>2
    <2> QED BY <2>1, <2>2
  <1> QED BY <1>3, <1>4, <1>5

\* The first place of a sequence where something is the case.
LEMMA FirstPlace ==
  ASSUME NEW I \in SUBSET Nat, I # {}
  PROVE  /\ Seqs!Min(I) \in I /\ \A j \in I : Seqs!Min(I) <= j
  BY LeastNat DEF Seqs!Min

\* Insert of ListScheduler: before the first later event.
LEMMA InsertSortedIs ==
  ASSUME NEW seq \in Seq(Event), Sorted(seq), NEW e \in Event,
         \A i \in 1 .. Len(seq) : seq[i].uid # e.uid
  PROVE  /\ InsertSorted(seq, e) \in Seq(Event) /\ Sorted(InsertSorted(seq, e))
         /\ Seqs!ToSet(InsertSorted(seq, e)) = Seqs!ToSet(seq) \union {e}
  <1> DEFINE I == {i \in 1 .. Len(seq) : Less(e, seq[i])}
             r == InsertSorted(seq, e)
             n == Len(seq)
  <1>1. \E p \in 1 .. n + 1 :
          /\ r \in Seq(Event) /\ Len(r) = n + 1
          /\ \A j \in 1 .. n + 1 : r[j] = IF j < p THEN seq[j] ELSE IF j = p THEN e ELSE seq[j - 1]
          /\ \A i \in 1 .. n : i < p => Less(seq[i], e)
          /\ \A i \in 1 .. n : i >= p => Less(e, seq[i])
    <2>1. CASE I = {}
      <3>1. Seqs!SelectInSeq(seq, LAMBDA x : Less(e, x)) = 0
        BY <2>1 DEF Seqs!SelectInSeq
      <3>2. r = Append(seq, e)
        BY <3>1 DEF InsertSorted
      <3>3. \A i \in 1 .. n : Less(seq[i], e)
        BY <2>1, LessIsOrder
      <3>4. n + 1 \in 1 .. n + 1
        OBVIOUS
      <3>5. /\ r \in Seq(Event) /\ Len(r) = n + 1
            /\ \A j \in 1 .. n + 1 : r[j] = IF j < n + 1 THEN seq[j] ELSE e
        BY <3>2
      <3> HIDE DEF r
      <3> QED BY <3>3, <3>4, <3>5
    <2>2. CASE I # {}
      <3> DEFINE p == Seqs!Min(I)
      <3>1. p \in I /\ \A j \in I : p <= j
        <4>1. I \in SUBSET Nat
          OBVIOUS
        <4> HIDE DEF I
        <4> QED BY <2>2, <4>1, FirstPlace
      <3>2. Seqs!SelectInSeq(seq, LAMBDA x : Less(e, x)) = p
        BY <2>2 DEF Seqs!SelectInSeq
      <3>3. p \in 1 .. n /\ p # 0
        BY <3>1
      <3>4. r = Seqs!InsertAt(seq, p, e)
        BY <3>2, <3>3 DEF InsertSorted
      <3>5. \A i \in 1 .. n : i < p => Less(seq[i], e)
        <4>1. ASSUME NEW i \in 1 .. n, i < p PROVE ~Less(e, seq[i])
          BY <3>1, <3>3, <4>1
        <4> QED BY <4>1, LessIsOrder
      <3>6. \A i \in 1 .. n : i >= p => Less(e, seq[i])
        <4>1. Less(e, seq[p]) /\ seq[p] \in Event
          BY <3>1, <3>3
        <4>2. ASSUME NEW i \in 1 .. n, i > p PROVE Less(e, seq[i])
          BY <4>1, <4>2, <3>3, LessIsOrder DEF Sorted
        <4> QED BY <4>1, <4>2, <3>3
      <3> HIDE DEF p, r
      <3>7. p \in 1 .. n + 1
        BY <3>3
      <3>8. /\ r \in Seq(Event) /\ Len(r) = n + 1
            /\ \A j \in 1 .. n + 1 : r[j] = IF j < p THEN seq[j] ELSE IF j = p THEN e ELSE seq[j - 1]
        <4> DEFINE w == Seqs!InsertAt(seq, p, e)
        <4>1. /\ w \in Seq(Event) /\ Len(w) = Len(seq) + 1
              /\ \A j \in 1 .. Len(seq) + 1 :
                   w[j] = IF j < p THEN seq[j] ELSE IF j = p THEN e ELSE seq[j - 1]
          BY <3>7, InsertAtIs
        <4>2. r = w
          BY <3>4
        <4> HIDE DEF w
        <4> QED BY <4>1, <4>2
      <3> QED BY <3>5, <3>6, <3>7, <3>8
    <2> QED BY <2>1, <2>2
  <1>2. PICK p \in 1 .. n + 1 :
          /\ r \in Seq(Event) /\ Len(r) = n + 1
          /\ \A j \in 1 .. n + 1 : r[j] = IF j < p THEN seq[j] ELSE IF j = p THEN e ELSE seq[j - 1]
          /\ \A i \in 1 .. n : i < p => Less(seq[i], e)
          /\ \A i \in 1 .. n : i >= p => Less(e, seq[i])
    BY <1>1
  <1> HIDE DEF r
  <1>3. Sorted(r)
    <2> SUFFICES ASSUME NEW i \in 1 .. n + 1, NEW j \in 1 .. n + 1, i < j PROVE Less(r[i], r[j])
      BY <1>2 DEF Sorted
    <2>1. CASE i < p /\ j = p
      BY <2>1, <1>2
    <2>2. CASE i = p
      <3>1. j - 1 \in 1 .. n /\ j - 1 >= p /\ r[j] = seq[j - 1] /\ r[i] = e
        BY <2>2, <1>2
      <3> QED BY <3>1, <1>2
    <2>3. CASE i < p /\ j < p
      <3>1. i \in 1 .. n /\ j \in 1 .. n /\ r[i] = seq[i] /\ r[j] = seq[j]
        BY <2>3, <1>2
      <3> QED BY <3>1 DEF Sorted
    <2>4. CASE i < p /\ j > p
      <3>1. i \in 1 .. n /\ j - 1 \in 1 .. n /\ i < j - 1 /\ r[i] = seq[i] /\ r[j] = seq[j - 1]
        BY <2>4, <1>2
      <3> QED BY <3>1 DEF Sorted
    <2>5. CASE i > p
      <3>1. i - 1 \in 1 .. n /\ j - 1 \in 1 .. n /\ i - 1 < j - 1 /\ r[i] = seq[i - 1] /\ r[j] = seq[j - 1]
        BY <2>5, <1>2
      <3> QED BY <3>1 DEF Sorted
    <2> QED BY <2>1, <2>2, <2>3, <2>4, <2>5
  <1>4. Seqs!ToSet(r) = Seqs!ToSet(seq) \union {e}
    <2>1. DOMAIN r = 1 .. n + 1 /\ DOMAIN seq = 1 .. n
      BY <1>2
    <2>2. ASSUME NEW j \in 1 .. n + 1 PROVE r[j] \in Seqs!ToSet(seq) \union {e}
      <3>1. j < p => j \in 1 .. n
        OBVIOUS
      <3>2. j > p => j - 1 \in 1 .. n
        OBVIOUS
      <3> QED BY <1>2, <2>1, <3>1, <3>2 DEF Seqs!ToSet
    <2>3. ASSUME NEW i \in 1 .. n PROVE seq[i] \in Seqs!ToSet(r)
      <3>1. CASE i < p
        <4>1. i \in 1 .. n + 1 /\ r[i] = seq[i]
          BY <1>2, <3>1
        <4> QED BY <2>1, <4>1 DEF Seqs!ToSet
      <3>2. CASE i >= p
        <4>1. i + 1 \in 1 .. n + 1 /\ r[i + 1] = seq[i]
          BY <1>2, <3>2
        <4> QED BY <2>1, <4>1 DEF Seqs!ToSet
      <3> QED BY <3>1, <3>2
    <2>4. e \in Seqs!ToSet(r)
      BY <1>2, <2>1 DEF Seqs!ToSet
    <2> QED BY <2>1, <2>2, <2>3, <2>4 DEF Seqs!ToSet
  <1> QED BY <1>2, <1>3, <1>4 DEF r

\* What is left of a sorted sequence without its place i.
LEMMA SortedWithout ==
  ASSUME NEW seq \in Seq(Event), Sorted(seq), NEW i \in 1 .. Len(seq),
         NEW r \in Seq(Event), Len(r) = Len(seq) - 1,
         \A j \in 1 .. Len(seq) - 1 : r[j] = IF j < i THEN seq[j] ELSE seq[j + 1]
  PROVE  Sorted(r) /\ Seqs!ToSet(r) = Seqs!ToSet(seq) \ {seq[i]}
  <1> DEFINE n == Len(seq)
  <1>1. Sorted(r)
    <2> SUFFICES ASSUME NEW k \in 1 .. n - 1, NEW j \in 1 .. n - 1, k < j PROVE Less(r[k], r[j])
      BY DEF Sorted
    <2>1. /\ r[k] = seq[IF k < i THEN k ELSE k + 1] /\ r[j] = seq[IF j < i THEN j ELSE j + 1]
          /\ (IF k < i THEN k ELSE k + 1) \in 1 .. n /\ (IF j < i THEN j ELSE j + 1) \in 1 .. n
          /\ (IF k < i THEN k ELSE k + 1) < (IF j < i THEN j ELSE j + 1)
      OBVIOUS
    <2> QED BY <2>1 DEF Sorted
  <1>2. \A j \in 1 .. n : j # i => seq[j] # seq[i]
    BY LessIsOrder DEF Sorted
  <1>3. DOMAIN r = 1 .. n - 1 /\ DOMAIN seq = 1 .. n
    OBVIOUS
  <1>4. ASSUME NEW j \in 1 .. n - 1 PROVE r[j] \in Seqs!ToSet(seq) \ {seq[i]}
    <2>1. PICK k \in 1 .. n : k # i /\ r[j] = seq[k]
      <3>1. CASE j < i
        <4>1. j \in 1 .. n /\ j # i /\ r[j] = seq[j]
          BY <3>1
        <4> QED BY <4>1
      <3>2. CASE ~(j < i)
        <4>1. j + 1 \in 1 .. n /\ j + 1 # i /\ r[j] = seq[j + 1]
          BY <3>2
        <4> QED BY <4>1
      <3> QED BY <3>1, <3>2
    <2> QED BY <1>2, <1>3, <2>1 DEF Seqs!ToSet
  <1>5. ASSUME NEW j \in 1 .. n, j # i PROVE seq[j] \in Seqs!ToSet(r)
    <2>1. CASE j < i
      <3>1. j \in 1 .. n - 1 /\ r[j] = seq[j]
        BY <2>1
      <3> QED BY <1>3, <3>1 DEF Seqs!ToSet
    <2>2. CASE j > i
      <3>1. j - 1 \in 1 .. n - 1 /\ r[j - 1] = seq[j]
        BY <2>2
      <3> QED BY <1>3, <3>1 DEF Seqs!ToSet
    <2> QED BY <1>5, <2>1, <2>2
  <1> QED BY <1>1, <1>3, <1>4, <1>5 DEF Seqs!ToSet

\* RemoveNext of ListScheduler.
LEMMA TailIs ==
  ASSUME NEW seq \in Seq(Event), Sorted(seq), seq # << >>
  PROVE  /\ IsEarliest(Seqs!ToSet(seq), Head(seq))
         /\ Tail(seq) \in Seq(Event) /\ Sorted(Tail(seq))
         /\ Seqs!ToSet(Tail(seq)) = Seqs!ToSet(seq) \ {Head(seq)}
  <1>1. /\ 1 \in 1 .. Len(seq) /\ Head(seq) = seq[1] /\ DOMAIN seq = 1 .. Len(seq)
        /\ Tail(seq) \in Seq(Event) /\ Len(Tail(seq)) = Len(seq) - 1
        /\ \A j \in 1 .. Len(seq) - 1 : Tail(seq)[j] = seq[j + 1]
    OBVIOUS
  <1>2. IsEarliest(Seqs!ToSet(seq), seq[1])
    <2>1. ASSUME NEW i \in 1 .. Len(seq), seq[i] # seq[1] PROVE Less(seq[1], seq[i])
      BY <1>1, <2>1 DEF Sorted
    <2> QED BY <1>1, <2>1 DEF IsEarliest, Seqs!ToSet
  <1>3. \A j \in 1 .. Len(seq) - 1 : Tail(seq)[j] = IF j < 1 THEN seq[j] ELSE seq[j + 1]
    BY <1>1
  <1>4. Sorted(Tail(seq)) /\ Seqs!ToSet(Tail(seq)) = Seqs!ToSet(seq) \ {seq[1]}
    <2> DEFINE r == Tail(seq)
    <2>1. /\ r \in Seq(Event) /\ Len(r) = Len(seq) - 1
          /\ \A j \in 1 .. Len(seq) - 1 : r[j] = IF j < 1 THEN seq[j] ELSE seq[j + 1]
      BY <1>1, <1>3
    <2> HIDE DEF r
    <2>2. Sorted(r) /\ Seqs!ToSet(r) = Seqs!ToSet(seq) \ {seq[1]}
      BY <1>1, <2>1, SortedWithout
    <2> QED BY <2>2 DEF r
  <1> QED BY <1>1, <1>2, <1>4

\* Remove of ListScheduler.
LEMMA RemoveUidIs ==
  ASSUME NEW seq \in Seq(Event), Sorted(seq), Distinct(Seqs!ToSet(seq)),
         NEW e \in Seqs!ToSet(seq)
  PROVE  /\ RemoveUid(seq, e) \in Seq(Event) /\ Sorted(RemoveUid(seq, e))
         /\ Seqs!ToSet(RemoveUid(seq, e)) = Seqs!ToSet(seq) \ {e}
  <1> DEFINE I == {i \in 1 .. Len(seq) : seq[i].uid = e.uid}
             p == Seqs!Min(I)
  <1>1. DOMAIN seq = 1 .. Len(seq)
    OBVIOUS
  <1>2. PICK i \in 1 .. Len(seq) : seq[i] = e
    BY <1>1 DEF Seqs!ToSet
  <1>3. I # {} /\ I \in SUBSET Nat
    BY <1>2
  <1>4. p \in I
    <2> HIDE DEF I
    <2> QED BY <1>3, FirstPlace
  <1>5. p \in 1 .. Len(seq) /\ seq[p] = e
    BY <1>1, <1>4 DEF Distinct, Seqs!ToSet
  <1>6. Seqs!SelectInSeq(seq, LAMBDA x : x.uid = e.uid) = p
    BY <1>3 DEF Seqs!SelectInSeq
  <1>7. RemoveUid(seq, e) = Seqs!RemoveAt(seq, p)
    BY <1>2, <1>6 DEF RemoveUid, Seqs!RemoveFirstMatch
  <1> DEFINE r == RemoveUid(seq, e)
  <1> HIDE DEF p, r
  <1>8. /\ r \in Seq(Event) /\ Len(r) = Len(seq) - 1
        /\ \A j \in 1 .. Len(seq) - 1 : r[j] = IF j < p THEN seq[j] ELSE seq[j + 1]
    BY <1>5, <1>7, RemoveAtIs DEF r
  <1>9. Sorted(r) /\ Seqs!ToSet(r) = Seqs!ToSet(seq) \ {seq[p]}
    BY <1>5, <1>8, SortedWithout
  <1> QED BY <1>5, <1>8, <1>9 DEF r

(***************************************************************************)
(* The heap: HeapScheduler.                                                *)
(***************************************************************************)
Heap(m) == [1 .. m -> Event]

OneEach(h) == \A i, j \in DOMAIN h : h[i].uid = h[j].uid => i = j

\* No event comes before its parent
HeapOrdered(h) == \A i \in DOMAIN h : i >= 2 => Less(h[i \div 2], h[i])

LEMMA HeapIsSeq ==
  ASSUME NEW m \in Nat, NEW h \in Heap(m)
  PROVE  h \in Seq(Event) /\ Len(h) = m /\ DOMAIN h = 1 .. m
  BY DEF Heap

LEMMA SeqIsHeap ==
  ASSUME NEW h \in Seq(Event)
  PROVE  h \in Heap(Len(h)) /\ Len(h) \in Nat /\ DOMAIN h = 1 .. Len(h)
  BY DEF Heap

LEMMA Half ==
  ASSUME NEW i \in Nat, i >= 2
  PROVE  /\ i \div 2 \in Nat /\ i \div 2 >= 1 /\ i \div 2 < i
         /\ i = 2 * (i \div 2) \/ i = 2 * (i \div 2) + 1
  OBVIOUS

LEMMA HalfOf ==
  ASSUME NEW i \in Nat
  PROVE  (2 * i) \div 2 = i /\ (2 * i + 1) \div 2 = i
  OBVIOUS

LEMMA OneEachDiffer ==
  ASSUME NEW m \in Nat, NEW h \in Heap(m), OneEach(h), NEW i \in 1 .. m, NEW j \in 1 .. m, i # j
  PROVE  /\ h[i] \in Event /\ h[j] \in Event /\ h[i] # h[j]
         /\ Less(h[i], h[j]) \/ Less(h[j], h[i])
  <1>1. h[i] \in Event /\ h[j] \in Event /\ h[i].uid # h[j].uid
    BY HeapIsSeq DEF OneEach, Heap
  <1> QED BY <1>1, LessIsOrder

LEMMA ExchIs ==
  ASSUME NEW m \in Nat, NEW h \in Heap(m), OneEach(h), NEW a \in 1 .. m, NEW b \in 1 .. m
  PROVE  /\ Exch(h, a, b) \in Heap(m) /\ OneEach(Exch(h, a, b))
         /\ Seqs!ToSet(Exch(h, a, b)) = Seqs!ToSet(h)
         /\ \A i \in 1 .. m :
              Exch(h, a, b)[i] = IF i = b THEN h[a] ELSE IF i = a THEN h[b] ELSE h[i]
  <1> DEFINE r == Exch(h, a, b)
  <1>1. r \in Heap(m)
    BY DEF Exch, Heap
  <1>2. \A i \in 1 .. m : r[i] = IF i = b THEN h[a] ELSE IF i = a THEN h[b] ELSE h[i]
    BY DEF Exch, Heap
  <1>3. DOMAIN r = 1 .. m /\ DOMAIN h = 1 .. m
    BY <1>1 DEF Heap
  <1> HIDE DEF r
  <1>4. OneEach(r)
    BY <1>2, <1>3 DEF OneEach
  <1>5. Seqs!ToSet(r) = Seqs!ToSet(h)
    <2>1. ASSUME NEW i \in 1 .. m PROVE r[i] \in Seqs!ToSet(h)
      BY <1>2, <1>3 DEF Seqs!ToSet
    <2>2. ASSUME NEW i \in 1 .. m PROVE h[i] \in Seqs!ToSet(r)
      <3>1. PICK j \in 1 .. m : r[j] = h[i]
        BY <1>2
      <3> QED BY <3>1, <1>3 DEF Seqs!ToSet
    <2> QED BY <2>1, <2>2, <1>3 DEF Seqs!ToSet
  <1> QED BY <1>1, <1>2, <1>4, <1>5 DEF r

\* The first event of a heap is the earliest.
LEMMA HeadIsEarliest ==
  ASSUME NEW m \in Nat \ {0}, NEW h \in Heap(m), OneEach(h), HeapOrdered(h)
  PROVE  IsEarliest(Seqs!ToSet(h), h[1])
  <1> DEFINE T == {i \in 2 .. m : ~Less(h[1], h[i])}
  <1>1. DOMAIN h = 1 .. m /\ \A i \in 1 .. m : h[i] \in Event
    BY DEF Heap
  <1>2. T = {}
    <2>1. SUFFICES ASSUME T # {} PROVE FALSE
      OBVIOUS
    <2>2. T \in SUBSET Nat
      OBVIOUS
    <2>3. PICK x \in T : \A y \in T : x <= y
      <3> HIDE DEF T
      <3> QED BY <2>1, <2>2, LeastNat
    <2>4. x \in 2 .. m /\ ~Less(h[1], h[x])
      OBVIOUS
    <2> DEFINE p == x \div 2
    <2>5. p \in 1 .. m /\ p < x
      BY <2>4, Half
    <2>6. Less(h[p], h[x])
      <3>1. x \in DOMAIN h /\ x >= 2
        BY <1>1, <2>4
      <3> HIDE DEF T
      <3> QED BY <3>1 DEF HeapOrdered
    <2> HIDE DEF p
    <2>7. p = 1 \/ Less(h[1], h[p])
      BY <2>3, <2>5
    <2>8. h[1] \in Event /\ h[p] \in Event /\ h[x] \in Event
      BY <1>1, <2>4, <2>5
    <2> QED BY <2>4, <2>6, <2>7, <2>8, LessIsOrder
  <1>3. ASSUME NEW i \in 1 .. m, h[i] # h[1] PROVE Less(h[1], h[i])
    <2>1. i \in 2 .. m
      BY <1>3
    <2> QED BY <2>1, <1>2
  <1> QED BY <1>1, <1>3 DEF IsEarliest, Seqs!ToSet

\* The loop of BottomUp: after k turns only the event at index may come before its parent,
\* and index has been halved k times, or nothing is left to do.
RisesTo(h, m, x) ==
    /\ \A i \in 2 .. m : i # x => Less(h[i \div 2], h[i])
    /\ \A i \in 2 .. m : i \div 2 = x /\ x >= 2 => Less(h[x \div 2], h[i])

LEMMA RisingTurn ==
  ASSUME NEW m \in Nat, NEW h \in Heap(m), OneEach(h), NEW x \in 1 .. m, x >= 2,
         RisesTo(h, m, x), NEW p \in 1 .. m, p = x \div 2, Less(h[x], h[p])
  PROVE  RisesTo(Exch(h, x, p), m, p)
  <1> DEFINE r == Exch(h, x, p)
  <1>1. p < x
    BY Half
  <1>2. \A i \in 1 .. m : r[i] = IF i = p THEN h[x] ELSE IF i = x THEN h[p] ELSE h[i]
    BY DEF Exch, Heap
  <1>3. \A i \in 1 .. m : h[i] \in Event
    BY DEF Heap
  <1> HIDE DEF r
  <1>4. ASSUME NEW i \in 2 .. m, i # p PROVE Less(r[i \div 2], r[i])
    <2> DEFINE q == i \div 2
    <2>1. q \in 1 .. m /\ q < i
      BY Half
    <2>2. i # x => Less(h[q], h[i])
      BY DEF RisesTo
    <2>3. q = x => Less(h[p], h[i])
      BY DEF RisesTo
    <2>4. CASE i = x
      <3>1. r[q] = h[x] /\ r[i] = h[p]
        BY <1>1, <1>2, <2>4
      <3> QED BY <3>1
    <2>5. CASE i # x /\ q = p
      <3>1. r[q] = h[x] /\ r[i] = h[i] /\ Less(h[p], h[i])
        BY <1>1, <1>2, <1>4, <2>2, <2>5
      <3> QED BY <3>1, <1>1, <1>3, LessIsOrder
    <2>6. CASE i # x /\ q = x
      <3>1. r[q] = h[p] /\ r[i] = h[i]
        BY <1>1, <1>2, <1>4, <2>6
      <3> QED BY <3>1, <2>3, <2>6
    <2>7. CASE i # x /\ q # p /\ q # x
      <3>1. r[q] = h[q] /\ r[i] = h[i]
        BY <1>1, <1>2, <1>4, <2>1, <2>7
      <3> QED BY <3>1, <2>2, <2>7
    <2> QED BY <2>4, <2>5, <2>6, <2>7
  <1>5. ASSUME NEW i \in 2 .. m, i \div 2 = p, p >= 2 PROVE Less(r[p \div 2], r[i])
    <2> DEFINE g == p \div 2
    <2>1. g \in 1 .. m /\ g < p
      BY <1>1, <1>5, Half
    <2>2. Less(h[g], h[p])
      BY <1>1, <1>5 DEF RisesTo
    <2>3. r[g] = h[g]
      BY <1>1, <1>2, <2>1
    <2>4. CASE i = x
      <3>1. r[i] = h[p]
        BY <1>1, <1>2, <2>4
      <3> QED BY <2>2, <2>3, <3>1
    <2>5. CASE i # x
      <3>1. r[i] = h[i] /\ Less(h[p], h[i])
        <4>1. i # p
          BY <1>5, Half
        <4>2. r[i] = h[i]
          BY <1>2, <2>5, <4>1
        <4> QED BY <1>5, <2>5, <4>2 DEF RisesTo
      <3> QED BY <3>1, <1>1, <1>3, <2>1, <2>2, <2>3, LessIsOrder
    <2> QED BY <2>4, <2>5
  <1> QED BY <1>4, <1>5 DEF RisesTo, r

LEMMA BottomUpIs ==
  ASSUME NEW m \in Nat \ {0}, NEW heap \in Heap(m), OneEach(heap), RisesTo(heap, m, m)
  PROVE  LET h == BottomUp(heap, m)
         IN h \in Heap(m) /\ OneEach(h) /\ HeapOrdered(h) /\ Seqs!ToSet(h) = Seqs!ToSet(heap)
  <1> DEFINE S == [heap : Heap(m), index : 1 .. m]
             F == [s \in S |-> BottomUpTurn(s)]
             start == [heap |-> heap, index |-> m]
             Is(a) == a = [k \in 0 .. m |-> IF k = 0 THEN start ELSE BottomUpTurn(a[k - 1])]
             b == CHOOSE a : Is(a)
             Kept(s) == /\ s \in S /\ OneEach(s.heap) /\ RisesTo(s.heap, m, s.index)
                        /\ Seqs!ToSet(s.heap) = Seqs!ToSet(heap)
             Ended(s) == s.index = 1 \/ ~Less(s.heap[s.index], s.heap[s.index \div 2])
             P == {k \in 0 .. m : Kept(b[k]) /\ (b[k].index <= m - k \/ Ended(b[k]))}
  <1>1. start \in S /\ m \in Nat
    BY DEF Heap
  <1>2. ASSUME NEW s \in S, ~Ended(s)
        PROVE  /\ BottomUpTurn(s) = [heap |-> Exch(s.heap, s.index, s.index \div 2),
                                     index |-> s.index \div 2]
               /\ s.heap \in Heap(m) /\ s.index \in 2 .. m /\ s.index \div 2 \in 1 .. m
               /\ s.index \div 2 < s.index
               /\ Less(s.heap[s.index], s.heap[s.index \div 2])
    <2>1. s.heap \in Heap(m) /\ s.index \in 2 .. m /\ Less(s.heap[s.index], s.heap[s.index \div 2])
      BY <1>2
    <2> QED BY <2>1, Half DEF BottomUpTurn
  <1>3. ASSUME NEW s, Ended(s) PROVE BottomUpTurn(s) = s
    BY <1>3 DEF BottomUpTurn
  <1>4. ASSUME NEW s \in S, Kept(s), ~Ended(s)
        PROVE  Kept(BottomUpTurn(s)) /\ BottomUpTurn(s).index < s.index
    <2> DEFINE h == s.heap
               x == s.index
               p == x \div 2
               t == BottomUpTurn(s)
    <2>1. /\ t = [heap |-> Exch(h, x, p), index |-> p]
          /\ h \in Heap(m) /\ x \in 2 .. m /\ p \in 1 .. m /\ p < x /\ Less(h[x], h[p])
          /\ OneEach(h) /\ RisesTo(h, m, x) /\ Seqs!ToSet(h) = Seqs!ToSet(heap)
      BY <1>2, <1>4
    <2> HIDE DEF h, x, t, S
    <2>2. /\ Exch(h, x, p) \in Heap(m) /\ OneEach(Exch(h, x, p))
          /\ Seqs!ToSet(Exch(h, x, p)) = Seqs!ToSet(heap)
      BY <2>1, ExchIs
    <2>3. RisesTo(Exch(h, x, p), m, p)
      <3>1. x \in 1 .. m /\ x >= 2 /\ p = x \div 2
        BY <2>1
      <3> HIDE DEF p
      <3> QED BY <2>1, <3>1, RisingTurn
    <2>4. t.heap = Exch(h, x, p) /\ t.index = p /\ t \in S
      BY <2>1, <2>2 DEF S
    <2> HIDE DEF p
    <2> QED BY <2>1, <2>2, <2>3, <2>4 DEF t, x
  <1>5. \E a : Is(a)
    <2>1. F \in [S -> S]
      <3>1. ASSUME NEW s \in S PROVE BottomUpTurn(s) \in S
        <4>1. CASE Ended(s)
          BY <1>3, <4>1
        <4>2. CASE ~Ended(s)
          <5>1. /\ s.heap \in Heap(m) /\ s.index \in 1 .. m /\ s.index \div 2 \in 1 .. m
                /\ BottomUpTurn(s) = [heap |-> Exch(s.heap, s.index, s.index \div 2),
                                      index |-> s.index \div 2]
            BY <1>2, <4>2
          <5>2. Exch(s.heap, s.index, s.index \div 2) \in Heap(m)
            BY <5>1 DEF Exch, Heap
          <5> QED BY <5>1, <5>2
        <4> QED BY <4>1, <4>2
      <3> QED BY <3>1
    <2>2. PICK a : Runs(a, S, F, start, m)
      <3>1. m \in Nat
        OBVIOUS
      <3>2. start \in S
        BY <1>1
      <3> HIDE DEF F, S, start
      <3> QED BY <2>1, <3>1, <3>2, LoopExists
    <2>3. \A k \in 0 .. m : a[k] = IF k = 0 THEN start ELSE BottomUpTurn(a[k - 1])
      <3>1. ASSUME NEW k \in 1 .. m PROVE F[a[k - 1]] = BottomUpTurn(a[k - 1])
        <4>1. a[k - 1] \in S
          <5> HIDE DEF F, S, start
          <5> QED BY <2>2 DEF Runs
        <4> HIDE DEF S
        <4> QED BY <4>1
      <3> HIDE DEF F, S, start
      <3> QED BY <2>2, <3>1 DEF Runs
    <2>4. a = [k \in 0 .. m |-> a[k]]
      <3> HIDE DEF F, S, start
      <3> QED BY <2>2 DEF Runs
    <2>5. Is(a)
      <3> HIDE DEF F, S, start
      <3> QED BY <2>3, <2>4
    <2> QED BY <2>5
  <1>6. \A k \in 0 .. m : b[k] = IF k = 0 THEN start ELSE BottomUpTurn(b[k - 1])
    <2> HIDE DEF start
    <2>1. Is(b)
      <3> HIDE DEF Is
      <3> QED BY <1>5
    <2> HIDE DEF b
    <2> QED BY <2>1
  <1>7. BottomUp(heap, m) = b[m].heap
    BY DEF BottomUp, Loop
  <1> HIDE DEF b
  <1>8. P = 0 .. m
    <2>1. P \in SUBSET (0 .. m)
      OBVIOUS
    <2>2. 0 \in P
      <3>1. b[0] = start /\ start.index = m /\ start.heap = heap /\ start \in S
        BY <1>1, <1>6
      <3> HIDE DEF start, S
      <3> QED BY <3>1
    <2>3. ASSUME NEW k \in 1 .. m, k - 1 \in P PROVE k \in P
      <3> DEFINE s == b[k - 1]
      <3>1. b[k] = BottomUpTurn(s) /\ Kept(s) /\ (s.index <= m - (k - 1) \/ Ended(s)) /\ s.index \in 1 .. m
        BY <1>6, <2>3
      <3> HIDE DEF s, Kept, Ended
      <3>2. CASE Ended(s)
        BY <1>3, <3>1, <3>2
      <3>3. CASE ~Ended(s)
        <4>1. s \in S /\ Kept(b[k]) /\ b[k].index < s.index /\ b[k].index \in 1 .. m
          <5>1. s \in S
            BY <3>1 DEF Kept
          <5>2. Kept(b[k]) /\ b[k].index < s.index
            BY <1>4, <3>1, <3>3, <5>1
          <5> QED BY <5>1, <5>2 DEF Kept
        <4>2. b[k].index <= m - k
          BY <3>1, <3>3, <4>1
        <4> QED BY <4>1, <4>2
      <3> QED BY <3>2, <3>3
    <2> HIDE DEF P
    <2> QED BY <1>1, <2>1, <2>2, <2>3, Induction
  <1>9. Kept(b[m]) /\ Ended(b[m]) /\ b[m].index \in 1 .. m /\ b[m].heap \in Heap(m)
    <2>1. m \in P
      BY <1>1, <1>8
    <2>2. Kept(b[m]) /\ (b[m].index <= m - m \/ Ended(b[m]))
      BY <2>1
    <2>3. b[m].index \in 1 .. m /\ b[m].heap \in Heap(m)
      BY <2>2
    <2> HIDE DEF Kept, Ended
    <2> QED BY <1>1, <2>2, <2>3
  <1> DEFINE h == b[m].heap
             x == b[m].index
  <1>10. HeapOrdered(h)
    <2>1. /\ h \in Heap(m) /\ x \in 1 .. m /\ OneEach(h) /\ RisesTo(h, m, x)
          /\ x = 1 \/ ~Less(h[x], h[x \div 2])
      BY <1>9
    <2> HIDE DEF h, x
    <2>2. ASSUME x # 1 PROVE Less(h[x \div 2], h[x])
      <3>1. x \div 2 \in 1 .. m /\ x \div 2 # x
        BY <2>1, <2>2, Half
      <3> QED BY <2>1, <2>2, <3>1, OneEachDiffer
    <2>3. DOMAIN h = 1 .. m
      BY <2>1 DEF Heap
    <2> QED BY <2>1, <2>2, <2>3 DEF HeapOrdered, RisesTo
  <1> QED BY <1>7, <1>9, <1>10

\* The loop of TopDown: after k turns only the children of the event at index may come before
\* it, and index has been doubled k times, or nothing is left to do.
SinksTo(h, m, x) ==
    /\ \A i \in 2 .. m : i \div 2 # x => Less(h[i \div 2], h[i])
    /\ \A i \in 2 .. m : i \div 2 = x /\ x >= 2 => Less(h[x \div 2], h[i])

LEMMA SmallestChildIs ==
  ASSUME NEW m \in Nat, NEW h \in Heap(m), NEW x \in Nat \ {0}, 2 * x <= m,
         NEW c, c = SmallestChild(h, x)
  PROVE  /\ x \in 1 .. m /\ c \in 1 .. m /\ c >= 2 * x /\ c \div 2 = x
         /\ OneEach(h) => \A i \in 2 .. m : i \div 2 = x /\ i # c => Less(h[c], h[i])
  <1>1. c = IF 2 * x + 1 <= m /\ ~Less(h[2 * x], h[2 * x + 1]) THEN 2 * x + 1 ELSE 2 * x
    BY HeapIsSeq DEF SmallestChild, Smallest
  <1>2. x \in 1 .. m /\ c \in 1 .. m /\ c >= 2 * x
    BY <1>1
  <1>3. c \div 2 = x
    BY <1>1, HalfOf
  <1>4. ASSUME OneEach(h), NEW i \in 2 .. m, i \div 2 = x, i # c PROVE Less(h[c], h[i])
    <2>1. i = 2 * x \/ i = 2 * x + 1
      BY <1>4, Half
    <2>2. CASE i = 2 * x
      <3>1. 2 * x + 1 <= m /\ ~Less(h[2 * x], h[2 * x + 1]) /\ c = 2 * x + 1
        BY <1>1, <1>4, <2>2
      <3> QED BY <1>2, <1>4, <2>2, <3>1, OneEachDiffer
    <2>3. CASE i = 2 * x + 1
      <3>1. Less(h[2 * x], h[2 * x + 1]) /\ c = 2 * x
        BY <1>1, <1>4, <2>3
      <3> QED BY <2>3, <3>1
    <2> QED BY <2>1, <2>2, <2>3
  <1> QED BY <1>2, <1>3, <1>4

LEMMA SinkingTurn ==
  ASSUME NEW m \in Nat, NEW h \in Heap(m), NEW x \in 1 .. m, NEW c \in 1 .. m,
         SinksTo(h, m, x), c > x, c \div 2 = x, Less(h[c], h[x]),
         \A i \in 2 .. m : i \div 2 = x /\ i # c => Less(h[c], h[i])
  PROVE  SinksTo(Exch(h, x, c), m, c)
  <1> DEFINE r == Exch(h, x, c)
  <1>1. \A i \in 1 .. m : r[i] = IF i = c THEN h[x] ELSE IF i = x THEN h[c] ELSE h[i]
    BY DEF Exch, Heap
  <1> HIDE DEF r
  <1>2. ASSUME NEW i \in 2 .. m, i \div 2 # c PROVE Less(r[i \div 2], r[i])
    <2> DEFINE q == i \div 2
    <2>1. q \in 1 .. m /\ q < i /\ q # c
      BY <1>2, Half
    <2>2. q # x => Less(h[q], h[i])
      BY DEF SinksTo
    <2>3. CASE i = c
      <3>1. q = x /\ r[q] = h[c] /\ r[i] = h[x]
        BY <1>1, <2>1, <2>3
      <3> QED BY <3>1
    <2>4. CASE i # c /\ q = x
      <3>1. i # x /\ r[q] = h[c] /\ r[i] = h[i]
        BY <1>1, <2>1, <2>4
      <3> QED BY <2>4, <3>1
    <2>5. CASE i # c /\ i = x
      <3>1. r[q] = h[q] /\ r[i] = h[c]
        BY <1>1, <2>1, <2>5
      <3>2. c \in 2 .. m /\ x >= 2 /\ q = x \div 2
        BY <2>5
      <3> QED BY <3>1, <3>2 DEF SinksTo
    <2>6. CASE i # c /\ i # x /\ q # x
      <3>1. r[q] = h[q] /\ r[i] = h[i]
        BY <1>1, <2>1, <2>6
      <3> QED BY <2>2, <2>6, <3>1
    <2> QED BY <2>3, <2>4, <2>5, <2>6
  <1>3. ASSUME NEW i \in 2 .. m, i \div 2 = c PROVE Less(r[c \div 2], r[i])
    <2>1. i # c /\ i # x
      BY <1>3, Half
    <2>2. r[x] = h[c] /\ r[i] = h[i]
      BY <1>1, <2>1
    <2>3. Less(h[c], h[i])
      BY <1>3 DEF SinksTo
    <2> QED BY <2>2, <2>3
  <1> QED BY <1>2, <1>3 DEF SinksTo, r

LEMMA TopDownIs ==
  ASSUME NEW m \in Nat, NEW heap \in Heap(m), OneEach(heap), SinksTo(heap, m, 1)
  PROVE  LET h == TopDown(heap, 1)
         IN h \in Heap(m) /\ OneEach(h) /\ HeapOrdered(h) /\ Seqs!ToSet(h) = Seqs!ToSet(heap)
  <1> DEFINE S == [heap : Heap(m), index : Nat \ {0}]
             F == [s \in S |-> TopDownTurn(s)]
             start == [heap |-> heap, index |-> 1]
             Is(a) == a = [k \in 0 .. m |-> IF k = 0 THEN start ELSE TopDownTurn(a[k - 1])]
             b == CHOOSE a : Is(a)
             Kept(s) == /\ s \in S /\ OneEach(s.heap) /\ SinksTo(s.heap, m, s.index)
                        /\ Seqs!ToSet(s.heap) = Seqs!ToSet(heap)
             Child(s) == SmallestChild(s.heap, s.index)
             Ended(s) == 2 * s.index > m \/ Less(s.heap[s.index], s.heap[Child(s)])
             P == {k \in 0 .. m : Kept(b[k]) /\ (b[k].index >= k + 1 \/ Ended(b[k]))}
  <1>1. start \in S
    OBVIOUS
  <1>2. ASSUME NEW s \in S
        PROVE  /\ s.heap \in Heap(m) /\ s.index \in Nat \ {0}
               /\ TopDownTurn(s) = IF Ended(s) THEN s
                                   ELSE [heap |-> Exch(s.heap, s.index, Child(s)), index |-> Child(s)]
    <2>1. s.heap \in Heap(m) /\ s.index \in Nat \ {0}
      OBVIOUS
    <2>2. Len(s.heap) = m
      BY <2>1, HeapIsSeq
    <2> QED BY <2>1, <2>2 DEF TopDownTurn
  <1> DEFINE Goes(s, h, x, c) ==
               /\ TopDownTurn(s) = [heap |-> Exch(h, x, c), index |-> c]
               /\ h \in Heap(m) /\ x \in 1 .. m /\ c \in 1 .. m /\ c > x /\ c \div 2 = x
               /\ ~Less(h[x], h[c])
               /\ OneEach(h) => \A i \in 2 .. m : i \div 2 = x /\ i # c => Less(h[c], h[i])
  <1>3. ASSUME NEW s \in S, ~Ended(s) PROVE Goes(s, s.heap, s.index, Child(s))
    <2> DEFINE h == s.heap
               x == s.index
               c == Child(s)
    <2>1. /\ h \in Heap(m) /\ x \in Nat \ {0} /\ 2 * x <= m /\ ~Less(h[x], h[c])
          /\ TopDownTurn(s) = [heap |-> Exch(h, x, c), index |-> c]
          /\ c = SmallestChild(h, x)
      BY <1>2, <1>3
    <2> HIDE DEF h, x, c
    <2>2. /\ x \in 1 .. m /\ c \in 1 .. m /\ c >= 2 * x /\ c \div 2 = x
          /\ OneEach(h) => \A i \in 2 .. m : i \div 2 = x /\ i # c => Less(h[c], h[i])
      BY <2>1, SmallestChildIs
    <2>3. c > x
      BY <2>1, <2>2
    <2>4. Goes(s, h, x, c)
      BY <2>1, <2>2, <2>3
    <2> QED BY <2>4 DEF h, x, c
  <1>4. ASSUME NEW s \in S, Kept(s), ~Ended(s)
        PROVE  Kept(TopDownTurn(s)) /\ TopDownTurn(s).index > s.index
    <2> DEFINE h == s.heap
               x == s.index
               c == Child(s)
               t == TopDownTurn(s)
    <2>1. /\ Goes(s, h, x, c)
          /\ OneEach(h) /\ SinksTo(h, m, x) /\ Seqs!ToSet(h) = Seqs!ToSet(heap)
      <3> HIDE DEF Goes, Ended, Child
      <3> QED BY <1>3, <1>4
    <2> HIDE DEF h, x, c, t, S
    <2>2. h \in Heap(m) /\ x \in 1 .. m /\ c \in 1 .. m /\ c > x /\ c \div 2 = x /\ ~Less(h[x], h[c])
      BY <2>1
    <2>3. /\ Exch(h, x, c) \in Heap(m) /\ OneEach(Exch(h, x, c))
          /\ Seqs!ToSet(Exch(h, x, c)) = Seqs!ToSet(heap)
      BY <2>1, <2>2, ExchIs
    <2>4. Less(h[c], h[x])
      BY <2>1, <2>2, OneEachDiffer
    <2>5. SinksTo(Exch(h, x, c), m, c)
      BY <2>1, <2>2, <2>4, SinkingTurn
    <2>6. t.heap = Exch(h, x, c) /\ t.index = c /\ t \in S
      BY <2>1, <2>2, <2>3 DEF S, t
    <2> HIDE DEF Goes
    <2> QED BY <2>2, <2>3, <2>5, <2>6 DEF t, x
  <1>5. \E a : Is(a)
    <2>1. F \in [S -> S]
      <3>1. ASSUME NEW s \in S PROVE TopDownTurn(s) \in S
        <4>1. CASE Ended(s)
          BY <1>2, <4>1
        <4>2. CASE ~Ended(s)
          <5>1. Goes(s, s.heap, s.index, Child(s))
            BY <1>3, <4>2
          <5>2. Exch(s.heap, s.index, Child(s)) \in Heap(m)
            BY <5>1 DEF Exch, Heap
          <5> HIDE DEF Child, Ended
          <5> QED BY <5>1, <5>2
        <4> QED BY <4>1, <4>2
      <3> QED BY <3>1
    <2>2. PICK a : Runs(a, S, F, start, m)
      <3> HIDE DEF F, S, start
      <3> QED BY <1>1, <2>1, LoopExists
    <2>3. \A k \in 0 .. m : a[k] = IF k = 0 THEN start ELSE TopDownTurn(a[k - 1])
      <3>1. ASSUME NEW k \in 1 .. m PROVE F[a[k - 1]] = TopDownTurn(a[k - 1])
        <4>1. a[k - 1] \in S
          <5> HIDE DEF F, S, start
          <5> QED BY <2>2 DEF Runs
        <4> HIDE DEF S
        <4> QED BY <4>1
      <3> HIDE DEF F, S, start
      <3> QED BY <2>2, <3>1 DEF Runs
    <2>4. a = [k \in 0 .. m |-> a[k]]
      <3> HIDE DEF F, S, start
      <3> QED BY <2>2 DEF Runs
    <2>5. Is(a)
      <3> HIDE DEF F, S, start
      <3> QED BY <2>3, <2>4
    <2> QED BY <2>5
  <1>6. \A k \in 0 .. m : b[k] = IF k = 0 THEN start ELSE TopDownTurn(b[k - 1])
    <2> HIDE DEF start
    <2>1. Is(b)
      <3> HIDE DEF Is
      <3> QED BY <1>5
    <2> HIDE DEF b
    <2> QED BY <2>1
  <1>7. TopDown(heap, 1) = b[m].heap
    <2>1. Len(heap) = m
      BY HeapIsSeq
    <2> QED BY <2>1 DEF TopDown, Loop
  <1> HIDE DEF b
  <1>8. P = 0 .. m
    <2>1. P \in SUBSET (0 .. m)
      OBVIOUS
    <2>2. 0 \in P
      <3>1. b[0] = start /\ start.index = 1 /\ start.heap = heap /\ start \in S
        BY <1>1, <1>6
      <3> HIDE DEF start, S
      <3> QED BY <3>1
    <2>3. ASSUME NEW k \in 1 .. m, k - 1 \in P PROVE k \in P
      <3> DEFINE s == b[k - 1]
      <3>1. b[k] = TopDownTurn(s) /\ Kept(s) /\ (s.index >= (k - 1) + 1 \/ Ended(s)) /\ s.index \in Nat
        BY <1>6, <2>3
      <3>2. s \in S
        BY <3>1
      <3> HIDE DEF s, Kept, Ended
      <3>3. CASE Ended(s)
        BY <1>2, <3>1, <3>2, <3>3
      <3>4. CASE ~Ended(s)
        <4>1. Kept(b[k]) /\ b[k].index > s.index /\ b[k].index \in Nat
          <5>1. Kept(b[k]) /\ b[k].index > s.index
            BY <1>4, <3>1, <3>2, <3>4
          <5> QED BY <5>1 DEF Kept
        <4>2. b[k].index >= k + 1
          BY <3>1, <3>4, <4>1
        <4> QED BY <4>1, <4>2
      <3> QED BY <3>3, <3>4
    <2> HIDE DEF P
    <2> QED BY <2>1, <2>2, <2>3, Induction
  <1> DEFINE h == b[m].heap
             x == b[m].index
  <1>9. /\ h \in Heap(m) /\ x \in Nat \ {0} /\ OneEach(h) /\ SinksTo(h, m, x)
        /\ Seqs!ToSet(h) = Seqs!ToSet(heap)
        /\ 2 * x > m \/ Less(h[x], h[SmallestChild(h, x)])
    <2>1. m \in P
      BY <1>8
    <2>2. Kept(b[m]) /\ (x >= m + 1 \/ Ended(b[m]))
      BY <2>1
    <2>3. x \in Nat
      BY <2>2
    <2>4. x >= m + 1 => Ended(b[m])
      BY <2>3
    <2> QED BY <2>2, <2>4
  <1>10. HeapOrdered(h)
    <2> HIDE DEF h, x
    <2>1. DOMAIN h = 1 .. m /\ \A i \in 1 .. m : h[i] \in Event
      BY <1>9 DEF Heap
    <2>2. ASSUME NEW i \in 2 .. m, i \div 2 = x PROVE Less(h[x], h[i])
      <3>1. 2 * x <= m
        BY <2>2, Half
      <3>2. PICK c \in 1 .. m : c = SmallestChild(h, x) /\ x \in 1 .. m
        BY <1>9, <3>1, SmallestChildIs
      <3>3. i # c => Less(h[c], h[i])
        BY <1>9, <2>2, <3>1, <3>2, SmallestChildIs
      <3>4. Less(h[x], h[c])
        BY <1>9, <3>1, <3>2
      <3> QED BY <2>1, <3>2, <3>3, <3>4, LessIsOrder
    <2> QED BY <1>9, <2>1, <2>2 DEF HeapOrdered, SinksTo
  <1> QED BY <1>7, <1>9, <1>10

\* Insert of HeapScheduler.
LEMMA HeapInsertIs ==
  ASSUME NEW h \in Seq(Event), OneEach(h), HeapOrdered(h), NEW e \in Event,
         \A i \in DOMAIN h : h[i].uid # e.uid,
         NEW r, r = BottomUp(Append(h, e), Len(h) + 1)
  PROVE  /\ r \in Seq(Event) /\ OneEach(r) /\ HeapOrdered(r)
         /\ Seqs!ToSet(r) = Seqs!ToSet(h) \union {e}
  <1> DEFINE g == Append(h, e)
             m == Len(h) + 1
  <1>1. /\ g \in Seq(Event) /\ Len(g) = m /\ DOMAIN g = 1 .. m /\ m \in Nat \ {0}
        /\ DOMAIN h = 1 .. m - 1
        /\ \A i \in 1 .. m : g[i] = IF i = m THEN e ELSE h[i]
    OBVIOUS
  <1>2. r = BottomUp(g, m)
    OBVIOUS
  <1> HIDE DEF g, m
  <1>3. g \in Heap(m)
    BY <1>1, SeqIsHeap
  <1>4. OneEach(g)
    BY <1>1 DEF OneEach
  <1>5. RisesTo(g, m, m)
    <2>1. ASSUME NEW i \in 2 .. m, i # m PROVE Less(g[i \div 2], g[i])
      <3>1. i \in 1 .. m - 1 /\ i >= 2 /\ i \div 2 \in 1 .. m - 1 /\ i \div 2 # m
        BY <1>1, <2>1, Half
      <3>2. g[i] = h[i] /\ g[i \div 2] = h[i \div 2]
        BY <1>1, <2>1, <3>1
      <3> QED BY <1>1, <3>1, <3>2 DEF HeapOrdered
    <2>2. \A i \in 2 .. m : i \div 2 # m
      BY <1>1, Half
    <2> QED BY <2>1, <2>2 DEF RisesTo
  <1>6. Seqs!ToSet(g) = Seqs!ToSet(h) \union {e}
    <2>1. \A i \in 1 .. m : g[i] \in Seqs!ToSet(h) \union {e}
      BY <1>1 DEF Seqs!ToSet
    <2>2. \A i \in 1 .. m - 1 : i \in 1 .. m /\ g[i] = h[i]
      BY <1>1
    <2>3. m \in 1 .. m /\ g[m] = e
      BY <1>1
    <2> QED BY <1>1, <2>1, <2>2, <2>3 DEF Seqs!ToSet
  <1>7. r \in Heap(m) /\ OneEach(r) /\ HeapOrdered(r) /\ Seqs!ToSet(r) = Seqs!ToSet(g)
    BY <1>1, <1>2, <1>3, <1>4, <1>5, BottomUpIs
  <1> QED BY <1>1, <1>6, <1>7, HeapIsSeq

\* RemoveNext of HeapScheduler.
LEMMA HeapRemoveNextIs ==
  ASSUME NEW h \in Seq(Event), OneEach(h), HeapOrdered(h), h # << >>,
         NEW r, r = HeapWithout(h, 1)
  PROVE  /\ IsEarliest(Seqs!ToSet(h), Head(h))
         /\ r \in Seq(Event) /\ OneEach(r) /\ HeapOrdered(r)
         /\ Seqs!ToSet(r) = Seqs!ToSet(h) \ {Head(h)}
  <1> DEFINE m == Len(h) - 1
             n == Len(h)
             x == Exch(h, 1, n)
             g == Seqs!Front(x)
  <1>1. /\ n \in Nat \ {0} /\ m \in Nat /\ n = m + 1 /\ h \in Heap(n) /\ Head(h) = h[1]
        /\ DOMAIN h = 1 .. n /\ 1 \in 1 .. n /\ n \in 1 .. n
    BY SeqIsHeap
  <1>2. IsEarliest(Seqs!ToSet(h), Head(h))
    <2> HIDE DEF n
    <2> QED BY <1>1, HeadIsEarliest
  <1>3. /\ x \in Heap(n) /\ x \in Seq(Event) /\ Len(x) = n
        /\ \A i \in 1 .. n : x[i] = IF i = n THEN h[1] ELSE IF i = 1 THEN h[n] ELSE h[i]
    <2>1. /\ x \in Heap(n)
          /\ \A i \in 1 .. n : x[i] = IF i = n THEN h[1] ELSE IF i = 1 THEN h[n] ELSE h[i]
      <3> HIDE DEF n, m
      <3> QED BY <1>1, ExchIs
    <2> HIDE DEF x, n
    <2> QED BY <1>1, <2>1, HeapIsSeq
  <1>4. g \in Seq(Event) /\ Len(g) = m /\ \A i \in 1 .. m : g[i] = x[i]
    <2> HIDE DEF x, n, m
    <2>1. g = SubSeq(x, 1, m)
      BY <1>1, <1>3 DEF Seqs!Front
    <2> HIDE DEF g
    <2> QED BY <1>1, <1>3, <2>1
  <1>5. r = TopDown(g, 1)
    BY DEF HeapWithout
  <1> HIDE DEF m, n, x, g
  <1>6. g \in Heap(m) /\ DOMAIN g = 1 .. m
    BY <1>4, SeqIsHeap
  <1>7. \A i \in 1 .. m : i \in 1 .. n /\ g[i] = IF i = 1 THEN h[n] ELSE h[i]
    BY <1>1, <1>3, <1>4
  <1>8. OneEach(g)
    BY <1>1, <1>6, <1>7 DEF OneEach
  <1>9. SinksTo(g, m, 1)
    <2>1. ASSUME NEW i \in 2 .. m, i \div 2 # 1 PROVE Less(g[i \div 2], g[i])
      <3>1. i \in 1 .. m /\ i >= 2 /\ i # 1 /\ i \div 2 \in 1 .. m /\ i \in DOMAIN h
        BY <1>1, <2>1, Half
      <3>2. g[i] = h[i] /\ g[i \div 2] = h[i \div 2]
        BY <1>7, <2>1, <3>1
      <3> QED BY <3>1, <3>2 DEF HeapOrdered
    <2> QED BY <2>1 DEF SinksTo
  <1>10. Seqs!ToSet(g) = Seqs!ToSet(h) \ {Head(h)}
    <2>1. ASSUME NEW i \in 1 .. m PROVE g[i] \in Seqs!ToSet(h) \ {h[1]}
      <3>1. PICK k \in 1 .. n : k # 1 /\ g[i] = h[k]
        BY <1>1, <1>7
      <3>2. h[k] # h[1]
        BY <1>1, <3>1 DEF OneEach
      <3> QED BY <1>1, <3>1, <3>2 DEF Seqs!ToSet
    <2>2. ASSUME NEW k \in 1 .. n, h[k] # h[1] PROVE h[k] \in Seqs!ToSet(g)
      <3>1. PICK i \in 1 .. m : g[i] = h[k]
        <4>1. CASE k = n
          BY <1>1, <1>7, <2>2, <4>1
        <4>2. CASE k # n
          BY <1>1, <1>7, <2>2, <4>2
        <4> QED BY <4>1, <4>2
      <3> QED BY <1>6, <3>1 DEF Seqs!ToSet
    <2> QED BY <1>1, <1>6, <2>1, <2>2 DEF Seqs!ToSet
  <1>11. r \in Heap(m) /\ OneEach(r) /\ HeapOrdered(r) /\ Seqs!ToSet(r) = Seqs!ToSet(g)
    BY <1>1, <1>5, <1>6, <1>8, <1>9, TopDownIs
  <1>12. r \in Seq(Event)
    BY <1>1, <1>11, HeapIsSeq
  <1> QED BY <1>2, <1>10, <1>11, <1>12

(***************************************************************************)
(* The interface of the schedulers.                                        *)
(***************************************************************************)
IsList(q) == /\ q \in [kind : {"list"}, events : Seq(Event)]
             /\ Sorted(q.events) /\ Distinct(Seqs!ToSet(q.events))

IsMap(q) == /\ q \in [kind : {"map"}, events : SUBSET Event]
            /\ IsFiniteSet(q.events) /\ Distinct(q.events)

IsHeap(q) == /\ q \in [kind : {"heap"}, events : Seq(Event)]
             /\ HeapOrdered(q.events) /\ OneEach(q.events)

WellFormed(q) == IsList(q) \/ IsMap(q) \/ IsHeap(q)

Holds(q, kind, S) == WellFormed(q) /\ q.kind = kind /\ Contents(q) = S

LEMMA KindsDiffer == "list" # "map" /\ "list" # "heap" /\ "map" # "heap"
                     /\ "calendar" \notin {"list", "map", "heap"}
  OBVIOUS

LEMMA ListContents ==
  ASSUME NEW q, q.kind = "list" \/ q.kind = "heap"
  PROVE  Contents(q) = Seqs!ToSet(q.events)
  BY KindsDiffer DEF Contents

LEMMA MapContents ==
  ASSUME NEW q, q.kind = "map"
  PROVE  Contents(q) = q.events
  BY KindsDiffer DEF Contents

LEMMA SeqContents ==
  ASSUME NEW seq \in Seq(Event)
  PROVE  Seqs!ToSet(seq) \in SUBSET Event /\ IsFiniteSet(Seqs!ToSet(seq))
  <1>1. DOMAIN seq = 1 .. Len(seq) /\ Len(seq) \in Nat /\ Seqs!ToSet(seq) \in SUBSET Event
    BY DEF Seqs!ToSet
  <1>2. IsFiniteSet(1 .. Len(seq))
    BY <1>1, FS_Interval
  <1>3. IsFiniteSet(Seqs!ToSet(seq))
    <2> DEFINE T == Seqs!ToSet(seq)
    <2>1. seq \in [1 .. Len(seq) -> T] /\ \A t \in T : \E i \in 1 .. Len(seq) : seq[i] = t
      BY <1>1 DEF Seqs!ToSet
    <2> HIDE DEF T
    <2>2. seq \in Surjection(1 .. Len(seq), T)
      BY <2>1 DEF Surjection
    <2>3. IsFiniteSet(T)
      BY <1>2, <2>2, FS_Surjection
    <2> QED BY <2>3 DEF T
  <1> QED BY <1>1, <1>3 DEF Seqs!ToSet

LEMMA ContentsAre ==
  ASSUME NEW q, WellFormed(q)
  PROVE  /\ Contents(q) \in SUBSET Event /\ IsFiniteSet(Contents(q)) /\ Distinct(Contents(q))
         /\ q.kind \in {"list", "map", "heap"}
         /\ IsEmpty(q) <=> Contents(q) = {}
  <1>1. CASE IsList(q)
    BY <1>1, ListContents, SeqContents, KindsDiffer DEF IsList, IsEmpty
  <1>2. CASE IsMap(q)
    BY <1>2, MapContents, KindsDiffer DEF IsMap, IsEmpty
  <1>3. CASE IsHeap(q)
    <2>1. q.kind = "heap" /\ q.events \in Seq(Event) /\ OneEach(q.events)
      BY <1>3 DEF IsHeap
    <2>2. Contents(q) = Seqs!ToSet(q.events)
      BY <2>1, ListContents
    <2>3. Distinct(Contents(q))
      BY <2>1, <2>2 DEF Distinct, OneEach, Seqs!ToSet
    <2> QED BY <2>1, <2>2, <2>3, SeqContents, KindsDiffer DEF IsEmpty
  <1> QED BY <1>1, <1>2, <1>3 DEF WellFormed

LEMMA EmptyListIs ==
  ASSUME NEW kind \in {"list", "map", "heap"}
  PROVE  Holds(EmptyList(kind), kind, {})
  <1> DEFINE q == EmptyList(kind)
  <1>1. CASE kind = "map"
    <2>1. q = [kind |-> "map", events |-> {}]
      BY <1>1, KindsDiffer DEF EmptyList
    <2>2. IsMap(q)
      BY <2>1, FS_EmptySet DEF IsMap, Distinct
    <2> QED BY <1>1, <2>1, <2>2, MapContents DEF Holds, WellFormed
  <1>2. CASE kind # "map"
    <2>1. q = [kind |-> kind, events |-> << >>]
      BY <1>2, KindsDiffer DEF EmptyList
    <2>2. q.kind = kind /\ q.events = << >> /\ DOMAIN q.events = {} /\ q.events \in Seq(Event)
          /\ Len(q.events) = 0
      BY <2>1
    <2>3. Seqs!ToSet(q.events) = {}
      BY <2>2 DEF Seqs!ToSet
    <2>4. IsList(q) \/ IsHeap(q)
      BY <1>2, <2>1, <2>2, <2>3 DEF IsList, IsHeap, Sorted, Distinct, HeapOrdered, OneEach
    <2> HIDE DEF q
    <2>5. q.kind = "list" \/ q.kind = "heap"
      BY <1>2, <2>2
    <2>6. Contents(q) = {}
      BY <2>3, <2>5, ListContents
    <2> QED BY <2>2, <2>4, <2>6 DEF Holds, WellFormed, q
  <1> QED BY <1>1, <1>2

LEMMA InsertIs ==
  ASSUME NEW q, WellFormed(q), NEW e \in Event, \A a \in Contents(q) : a.uid # e.uid
  PROVE  Holds(Insert(q, e), q.kind, Contents(q) \union {e})
  <1> DEFINE r == Insert(q, e)
  <1>1. CASE IsList(q)
    <2> DEFINE seq == InsertSorted(q.events, e)
    <2>1. q.kind = "list" /\ q.events \in Seq(Event) /\ Sorted(q.events)
          /\ q \in [kind : {"list"}, events : Seq(Event)]
          /\ Distinct(Seqs!ToSet(q.events))
      BY <1>1 DEF IsList
    <2>2. Contents(q) = Seqs!ToSet(q.events)
      BY <2>1, ListContents
    <2>3. \A i \in 1 .. Len(q.events) : q.events[i].uid # e.uid
      BY <2>1, <2>2 DEF Seqs!ToSet
    <2>4. seq \in Seq(Event) /\ Sorted(seq) /\ Seqs!ToSet(seq) = Contents(q) \union {e}
      BY <2>1, <2>2, <2>3, InsertSortedIs
    <2>5. Distinct(Contents(q) \union {e})
      BY <2>1, <2>2 DEF Distinct
    <2>6. r = [q EXCEPT !.events = seq]
      BY <2>1, KindsDiffer DEF Insert
    <2> HIDE DEF seq, r
    <2>7. r.kind = "list" /\ r.events = seq /\ r \in [kind : {"list"}, events : Seq(Event)]
      BY <2>1, <2>4, <2>6
    <2> QED BY <2>1, <2>4, <2>5, <2>7, ListContents DEF Holds, WellFormed, IsList, r
  <1>2. CASE IsMap(q)
    <2>1. q.kind = "map" /\ q \in [kind : {"map"}, events : SUBSET Event]
          /\ IsFiniteSet(q.events) /\ Distinct(q.events) /\ q.events \in SUBSET Event
      BY <1>2 DEF IsMap
    <2>2. Contents(q) = q.events
      BY <2>1, MapContents
    <2>3. Distinct(q.events \union {e})
      BY <2>1, <2>2 DEF Distinct
    <2>4. IsFiniteSet(q.events \union {e})
      BY <2>1, FS_AddElement
    <2>5. r = [q EXCEPT !.events = q.events \union {e}]
      BY <2>1, KindsDiffer DEF Insert
    <2> HIDE DEF r
    <2>6. r.kind = "map" /\ r.events = q.events \union {e} /\ r \in [kind : {"map"}, events : SUBSET Event]
      BY <2>1, <2>5
    <2> QED BY <2>1, <2>2, <2>3, <2>4, <2>6, MapContents DEF Holds, WellFormed, IsMap, r
  <1>3. CASE IsHeap(q)
    <2> DEFINE h == BottomUp(Append(q.events, e), Len(q.events) + 1)
    <2>1. q.kind = "heap" /\ q.events \in Seq(Event) /\ HeapOrdered(q.events) /\ OneEach(q.events)
          /\ q \in [kind : {"heap"}, events : Seq(Event)]
      BY <1>3 DEF IsHeap
    <2>2. Contents(q) = Seqs!ToSet(q.events)
      BY <2>1, ListContents
    <2>3. \A i \in DOMAIN q.events : q.events[i].uid # e.uid
      BY <2>2 DEF Seqs!ToSet
    <2>4. h \in Seq(Event) /\ OneEach(h) /\ HeapOrdered(h) /\ Seqs!ToSet(h) = Contents(q) \union {e}
      BY <2>1, <2>2, <2>3, HeapInsertIs
    <2>5. r = [q EXCEPT !.events = h]
      BY <2>1, KindsDiffer DEF Insert
    <2> HIDE DEF h, r
    <2>6. r.kind = "heap" /\ r.events = h /\ r \in [kind : {"heap"}, events : Seq(Event)]
      BY <2>1, <2>4, <2>5
    <2> QED BY <2>1, <2>4, <2>6, ListContents DEF Holds, WellFormed, IsHeap, r
  <1> QED BY <1>1, <1>2, <1>3 DEF WellFormed

\* PeekNext gives the earliest event, and RemoveNext takes it out.
LEMMA NextIs ==
  ASSUME NEW q, WellFormed(q), Contents(q) # {}
  PROVE  /\ IsEarliest(Contents(q), PeekNext(q))
         /\ Holds(RemoveNext(q), q.kind, Contents(q) \ {PeekNext(q)})
  <1> DEFINE r == RemoveNext(q)
  <1>1. CASE IsList(q)
    <2> DEFINE seq == Tail(q.events)
    <2>1. q.kind = "list" /\ q.events \in Seq(Event) /\ Sorted(q.events)
          /\ q \in [kind : {"list"}, events : Seq(Event)]
          /\ Distinct(Seqs!ToSet(q.events))
      BY <1>1 DEF IsList
    <2>2. Contents(q) = Seqs!ToSet(q.events) /\ PeekNext(q) = Head(q.events)
      BY <2>1, ListContents, KindsDiffer DEF PeekNext
    <2>3. q.events # << >>
      BY <2>2 DEF Seqs!ToSet
    <2>4. /\ IsEarliest(Contents(q), PeekNext(q))
          /\ seq \in Seq(Event) /\ Sorted(seq) /\ Seqs!ToSet(seq) = Contents(q) \ {PeekNext(q)}
      BY <2>1, <2>2, <2>3, TailIs
    <2>5. Distinct(Contents(q) \ {PeekNext(q)})
      BY <2>1, <2>2 DEF Distinct
    <2>6. r = [q EXCEPT !.events = seq]
      BY <2>1, KindsDiffer DEF RemoveNext
    <2> HIDE DEF seq, r
    <2>7. r.kind = "list" /\ r.events = seq /\ r \in [kind : {"list"}, events : Seq(Event)]
      BY <2>1, <2>4, <2>6
    <2> QED BY <2>1, <2>4, <2>5, <2>7, ListContents DEF Holds, WellFormed, IsList, r
  <1>2. CASE IsMap(q)
    <2> DEFINE next == EarliestOf(q.events)
    <2>1. q.kind = "map" /\ q \in [kind : {"map"}, events : SUBSET Event]
          /\ IsFiniteSet(q.events) /\ Distinct(q.events) /\ q.events \in SUBSET Event
      BY <1>2 DEF IsMap
    <2>2. Contents(q) = q.events /\ PeekNext(q) = next
      BY <2>1, MapContents, KindsDiffer DEF PeekNext
    <2>3. IsEarliest(Contents(q), next)
      BY <2>1, <2>2, EarliestExists
    <2>4. r = [q EXCEPT !.events = q.events \ {next}]
      BY <2>1, KindsDiffer DEF RemoveNext
    <2> HIDE DEF r, next
    <2>5. Distinct(q.events \ {next})
      BY <2>1 DEF Distinct
    <2>6. IsFiniteSet(q.events \ {next})
      BY <2>1, FS_Subset
    <2>7. r.kind = "map" /\ r.events = q.events \ {next} /\ r \in [kind : {"map"}, events : SUBSET Event]
      BY <2>1, <2>4
    <2> QED BY <2>1, <2>2, <2>3, <2>5, <2>6, <2>7, MapContents DEF Holds, WellFormed, IsMap, r
  <1>3. CASE IsHeap(q)
    <2> DEFINE h == HeapWithout(q.events, 1)
    <2>1. q.kind = "heap" /\ q.events \in Seq(Event) /\ HeapOrdered(q.events) /\ OneEach(q.events)
          /\ q \in [kind : {"heap"}, events : Seq(Event)]
      BY <1>3 DEF IsHeap
    <2>2. Contents(q) = Seqs!ToSet(q.events) /\ PeekNext(q) = Head(q.events)
      BY <2>1, ListContents, KindsDiffer DEF PeekNext
    <2>3. q.events # << >>
      BY <2>2 DEF Seqs!ToSet
    <2>4. /\ IsEarliest(Contents(q), PeekNext(q))
          /\ h \in Seq(Event) /\ OneEach(h) /\ HeapOrdered(h)
          /\ Seqs!ToSet(h) = Contents(q) \ {PeekNext(q)}
      BY <2>1, <2>2, <2>3, HeapRemoveNextIs
    <2>5. r = [q EXCEPT !.events = h]
      BY <2>1, KindsDiffer DEF RemoveNext
    <2> HIDE DEF h, r
    <2>6. r.kind = "heap" /\ r.events = h /\ r \in [kind : {"heap"}, events : Seq(Event)]
      BY <2>1, <2>4, <2>5
    <2> QED BY <2>1, <2>4, <2>6, ListContents DEF Holds, WellFormed, IsHeap, r
  <1> QED BY <1>1, <1>2, <1>3 DEF WellFormed

\* Remove of ListScheduler and MapScheduler.
LEMMA RemoveFromIs ==
  ASSUME NEW q, WellFormed(q), q.kind # "heap", NEW e \in Contents(q)
  PROVE  Holds(RemoveFrom(q, e), q.kind, Contents(q) \ {e})
  <1> DEFINE r == RemoveFrom(q, e)
  <1>1. CASE IsList(q)
    <2> DEFINE seq == RemoveUid(q.events, e)
    <2>1. q.kind = "list" /\ q.events \in Seq(Event) /\ Sorted(q.events)
          /\ q \in [kind : {"list"}, events : Seq(Event)]
          /\ Distinct(Seqs!ToSet(q.events))
      BY <1>1 DEF IsList
    <2>2. Contents(q) = Seqs!ToSet(q.events)
      BY <2>1, ListContents
    <2>3. seq \in Seq(Event) /\ Sorted(seq) /\ Seqs!ToSet(seq) = Contents(q) \ {e}
      BY <2>1, <2>2, RemoveUidIs
    <2>4. Distinct(Contents(q) \ {e})
      BY <2>1, <2>2 DEF Distinct
    <2>5. r = [q EXCEPT !.events = seq]
      BY <2>1, KindsDiffer DEF RemoveFrom
    <2> HIDE DEF seq, r
    <2>6. r.kind = "list" /\ r.events = seq /\ r \in [kind : {"list"}, events : Seq(Event)]
      BY <2>1, <2>3, <2>5
    <2> QED BY <2>1, <2>3, <2>4, <2>6, ListContents DEF Holds, WellFormed, IsList, r
  <1>2. CASE IsMap(q)
    <2>1. q.kind = "map" /\ q \in [kind : {"map"}, events : SUBSET Event]
          /\ IsFiniteSet(q.events) /\ Distinct(q.events) /\ q.events \in SUBSET Event
      BY <1>2 DEF IsMap
    <2>2. Contents(q) = q.events
      BY <2>1, MapContents
    <2>3. r = [q EXCEPT !.events = q.events \ {e}]
      BY <2>1, KindsDiffer DEF RemoveFrom
    <2> HIDE DEF r
    <2>4. Distinct(q.events \ {e})
      BY <2>1 DEF Distinct
    <2>5. IsFiniteSet(q.events \ {e})
      BY <2>1, FS_Subset
    <2>6. r.kind = "map" /\ r.events = q.events \ {e} /\ r \in [kind : {"map"}, events : SUBSET Event]
      BY <2>1, <2>3
    <2> QED BY <2>1, <2>2, <2>4, <2>5, <2>6, MapContents DEF Holds, WellFormed, IsMap, r
  <1> QED BY <1>1, <1>2 DEF WellFormed, IsHeap

\* SetScheduler moves every event.
Queue == [kind : {"list"}, events : Seq(Event)] \union [kind : {"map"}, events : SUBSET Event]
         \union [kind : {"heap"}, events : Seq(Event)]

\* The states of the loop of SetScheduler that moves the events C
Moving(kind, C) ==
    {s \in [old : Queue, new : Queue] :
        /\ WellFormed(s.old) /\ WellFormed(s.new) /\ s.new.kind = kind
        /\ Contents(s.old) \union Contents(s.new) = C
        /\ Contents(s.old) \intersect Contents(s.new) = {}}

LEMMA MovingTurn ==
  ASSUME NEW kind, NEW C \in SUBSET Event, Distinct(C), NEW s \in Moving(kind, C)
  PROVE  /\ MoveTurn(s) \in Moving(kind, C)
         /\ Contents(s.old) # {} =>
              Cardinality(Contents(MoveTurn(s).old)) = Cardinality(Contents(s.old)) - 1
  <1> DEFINE q == s.old
             p == s.new
             next == PeekNext(q)
             t == MoveTurn(s)
             old == RemoveNext(q)
             new == Insert(p, next)
  <1>1. /\ WellFormed(q) /\ WellFormed(p) /\ p.kind = kind
        /\ Contents(q) \union Contents(p) = C /\ Contents(q) \intersect Contents(p) = {}
    BY DEF Moving
  <1>2. CASE Contents(q) = {}
    <2>1. IsEmpty(q)
      BY <1>1, <1>2, ContentsAre
    <2>2. t = s
      BY <2>1 DEF MoveTurn
    <2> QED BY <1>2, <2>2
  <1>3. CASE Contents(q) # {}
    <2>1. ~IsEmpty(q)
      BY <1>1, <1>3, ContentsAre
    <2>2. t = [old |-> old, new |-> new]
      BY <2>1 DEF MoveTurn
    <2> HIDE DEF q, p, next, t, old, new
    <2>3. IsEarliest(Contents(q), next) /\ Holds(old, q.kind, Contents(q) \ {next})
      BY <1>1, <1>3, NextIs DEF next, old
    <2>4. next \in Contents(q) /\ next \in Event
      BY <1>1, <2>3 DEF IsEarliest
    <2>5. \A a \in Contents(p) : a.uid # next.uid
      BY <1>1, <2>4 DEF Distinct
    <2>6. Holds(new, kind, Contents(p) \union {next})
      BY <1>1, <2>4, <2>5, InsertIs DEF new
    <2>7. /\ WellFormed(old) /\ WellFormed(new) /\ new.kind = kind
          /\ Contents(old) \union Contents(new) = C
          /\ Contents(old) \intersect Contents(new) = {}
      BY <1>1, <2>3, <2>4, <2>6 DEF Holds
    <2>8. old \in Queue /\ new \in Queue
      BY <2>7 DEF WellFormed, IsList, IsMap, IsHeap, Queue
    <2>9. t.old = old /\ t.new = new /\ t \in [old : Queue, new : Queue]
      BY <2>2, <2>8
    <2>10. t \in Moving(kind, C)
      BY <2>7, <2>9 DEF Moving
    <2>11. Cardinality(Contents(q) \ {next}) = Cardinality(Contents(q)) - 1
      BY <1>1, <2>4, ContentsAre, FS_RemoveElement
    <2> QED BY <2>3, <2>9, <2>10, <2>11 DEF Holds, t, q
  <1> QED BY <1>2, <1>3

LEMMA MovedIs ==
  ASSUME NEW q, WellFormed(q), NEW kind \in {"list", "map", "heap"}
  PROVE  Holds(Moved(q, EmptyList(kind)), kind, Contents(q))
  <1> DEFINE C == Contents(q)
             n == Cardinality(C)
             S == Moving(kind, C)
             F == [s \in S |-> MoveTurn(s)]
             start == [old |-> q, new |-> EmptyList(kind)]
             Is(a) == a = [k \in 0 .. n |-> IF k = 0 THEN start ELSE MoveTurn(a[k - 1])]
             b == CHOOSE a : Is(a)
             P == {k \in 0 .. n : b[k] \in S /\ Cardinality(Contents(b[k].old)) = n - k}
  <1>1. C \in SUBSET Event /\ IsFiniteSet(C) /\ Distinct(C) /\ n \in Nat
    BY ContentsAre, FS_CardinalityType
  <1>2. start \in S /\ start.old = q
    <2>1. /\ WellFormed(EmptyList(kind)) /\ EmptyList(kind).kind = kind
          /\ Contents(EmptyList(kind)) = {}
      BY EmptyListIs DEF Holds
    <2>2. q \in Queue /\ EmptyList(kind) \in Queue
      BY <2>1 DEF WellFormed, IsList, IsMap, IsHeap, Queue
    <2>3. start \in [old : Queue, new : Queue] /\ start.old = q /\ start.new = EmptyList(kind)
      BY <2>2
    <2> HIDE DEF start
    <2> QED BY <2>1, <2>3 DEF Moving
  <1>3. \A s \in S : /\ MoveTurn(s) \in S
                     /\ Contents(s.old) # {} =>
                          Cardinality(Contents(MoveTurn(s).old)) = Cardinality(Contents(s.old)) - 1
    <2> HIDE DEF C
    <2> QED BY <1>1, MovingTurn
  <1>4. Moved(q, EmptyList(kind)) = b[n].new
    BY DEF Moved, Loop
  <1> HIDE DEF C, n, S, start
  <1>5. \E a : Is(a)
    <2>1. F \in [S -> S]
      BY <1>3
    <2>2. PICK a : Runs(a, S, F, start, n)
      <3> HIDE DEF F
      <3> QED BY <1>1, <1>2, <2>1, LoopExists
    <2>3. \A k \in 0 .. n : a[k] = IF k = 0 THEN start ELSE MoveTurn(a[k - 1])
      <3>1. ASSUME NEW k \in 1 .. n PROVE F[a[k - 1]] = MoveTurn(a[k - 1])
        <4>1. a[k - 1] \in S
          <5> HIDE DEF F
          <5> QED BY <1>1, <2>2 DEF Runs
        <4> QED BY <4>1
      <3> HIDE DEF F
      <3> QED BY <1>1, <2>2, <3>1 DEF Runs
    <2>4. a = [k \in 0 .. n |-> a[k]]
      <3> HIDE DEF F
      <3> QED BY <2>2 DEF Runs
    <2>5. Is(a)
      <3> HIDE DEF F
      <3> QED BY <2>3, <2>4
    <2> QED BY <2>5
  <1>6. \A k \in 0 .. n : b[k] = IF k = 0 THEN start ELSE MoveTurn(b[k - 1])
    <2>1. Is(b)
      <3> HIDE DEF Is
      <3> QED BY <1>5
    <2> HIDE DEF b
    <2> QED BY <2>1
  <1> HIDE DEF b
  <1>7. P = 0 .. n
    <2>1. P \in SUBSET (0 .. n)
      OBVIOUS
    <2>2. 0 \in P
      <3>1. b[0] = start /\ 0 \in 0 .. n
        BY <1>1, <1>6
      <3> QED BY <1>1, <1>2, <3>1 DEF C, n
    <2>3. ASSUME NEW k \in 1 .. n, k - 1 \in P PROVE k \in P
      <3> DEFINE s == b[k - 1]
      <3>1. b[k] = MoveTurn(s) /\ s \in S /\ Cardinality(Contents(s.old)) = n - (k - 1)
        BY <1>1, <1>6, <2>3
      <3> HIDE DEF s
      <3>2. Contents(s.old) # {}
        <4>1. Cardinality(Contents(s.old)) # 0
          BY <1>1, <3>1
        <4> QED BY <4>1, FS_EmptySet
      <3>3. b[k] \in S /\ Cardinality(Contents(b[k].old)) = n - k
        BY <1>1, <1>3, <3>1, <3>2
      <3> QED BY <3>3
    <2> HIDE DEF P
    <2> QED BY <1>1, <2>1, <2>2, <2>3, Induction
  <1>8. b[n] \in S /\ Cardinality(Contents(b[n].old)) = 0
    <2>1. n \in P
      <3> HIDE DEF P
      <3> QED BY <1>1, <1>7
    <2> QED BY <1>1, <2>1
  <1>9. /\ WellFormed(b[n].old) /\ WellFormed(b[n].new) /\ b[n].new.kind = kind
        /\ Contents(b[n].old) \union Contents(b[n].new) = C
    BY <1>8 DEF S, Moving
  <1>10. Contents(b[n].old) = {}
    <2>1. IsFiniteSet(Contents(b[n].old))
      BY <1>9, ContentsAre
    <2> QED BY <1>8, <2>1, FS_EmptySet
  <1> QED BY <1>4, <1>9, <1>10 DEF Holds, C

(***************************************************************************)
(* The simulator with these schedulers. Remove of HeapScheduler is left    *)
(* out because it may leave the heap unordered.                            *)
(***************************************************************************)
QueueInv ==
    /\ WellFormed(queue)
    /\ \A a \in Contents(queue) : a.uid < uid
    /\ uid \in Nat /\ currentTs \in Nat

LEMMA InitQueueInv ==
  ASSUME "calendar" \notin SchedulerKinds, Init
  PROVE  QueueInv /\ Contents(queue) = {}
  <1>1. PICK kind \in SchedulerKinds : queue = EmptyList(kind)
    BY DEF Init
  <1>2. kind \in {"list", "map", "heap"}
    BY <1>1, KindAssumption DEF Kinds
  <1>3. WellFormed(queue) /\ Contents(queue) = {}
    BY <1>1, <1>2, EmptyListIs DEF Holds
  <1> QED BY <1>3 DEF QueueInv, Init, ImplInit

LEMMA SameQueueInv ==
  ASSUME QueueInv, UNCHANGED queue, uid' \in Nat, uid' >= uid, UNCHANGED currentTs
  PROVE  QueueInv'
  <1>1. \A a \in Contents(queue) : a.uid \in Nat
    BY ContentsAre DEF QueueInv, Event
  <1> QED BY <1>1 DEF QueueInv

LEMMA ScheduleStep ==
  ASSUME QueueInv, NEW delay \in Delays, Schedule(delay)
  PROVE  QueueInv' /\ Contents(queue)' = Contents(queue) \union {NewEvent(delay)}
  <1> DEFINE e == NewEvent(delay)
  <1>1. e \in Event /\ e.uid = uid /\ uid \in Nat
    BY DelayAssumption DEF QueueInv, NewEvent, Event
  <1>2. \A a \in Contents(queue) : a.uid \in Nat /\ a.uid < uid
    BY ContentsAre DEF QueueInv, Event
  <1> HIDE DEF e
  <1>3. Holds(Insert(queue, e), queue.kind, Contents(queue) \union {e})
    <2>1. \A a \in Contents(queue) : a.uid # e.uid
      BY <1>1, <1>2
    <2> QED BY <1>1, <2>1, InsertIs DEF QueueInv
  <1>4. queue' = Insert(queue, e) /\ uid' = uid + 1 /\ currentTs' = currentTs
    BY DEF Schedule, ScheduleEvent, e
  <1>5. WellFormed(queue') /\ Contents(queue') = Contents(queue) \union {e}
    BY <1>3, <1>4 DEF Holds
  <1>6. \A a \in Contents(queue') : a.uid < uid'
    BY <1>1, <1>2, <1>4, <1>5
  <1> QED BY <1>1, <1>4, <1>5, <1>6 DEF QueueInv, e

LEMMA RemoveStep ==
  ASSUME QueueInv, "heap" \notin RemovingKinds, NEW id \in issued, Remove(id)
  PROVE  QueueInv' /\ Contents(queue)' = Contents(queue) \ {id}
  <1>1. CASE id \in Contents(queue)
    <2>1. queue.kind # "heap" /\ queue' = RemoveFrom(queue, id) /\ UNCHANGED << uid, currentTs >>
      BY <1>1 DEF Remove, RemoveEvent
    <2>2. Holds(RemoveFrom(queue, id), queue.kind, Contents(queue) \ {id})
      BY <1>1, <2>1, RemoveFromIs DEF QueueInv
    <2>3. WellFormed(queue') /\ Contents(queue') = Contents(queue) \ {id}
      BY <2>1, <2>2 DEF Holds
    <2> QED BY <2>1, <2>3 DEF QueueInv
  <1>2. CASE id \notin Contents(queue)
    <2>1. UNCHANGED << queue, uid, currentTs >>
      BY <1>2 DEF Remove, Abort
    <2> QED BY <1>2, <2>1 DEF QueueInv
  <1> QED BY <1>1, <1>2

LEMMA ProcessStep ==
  ASSUME QueueInv, ProcessOneEvent
  PROVE  /\ QueueInv'
         /\ IsEarliest(Contents(queue), PeekNext(queue))
         /\ Contents(queue)' = IF aborted' THEN Contents(queue)
                               ELSE Contents(queue) \ {PeekNext(queue)}
  <1> DEFINE next == PeekNext(queue)
  <1>1. WellFormed(queue) /\ Contents(queue) # {}
    BY ContentsAre DEF QueueInv, ProcessOneEvent
  <1>2. /\ IsEarliest(Contents(queue), next)
        /\ Holds(RemoveNext(queue), queue.kind, Contents(queue) \ {next})
    BY <1>1, NextIs
  <1>3. next \in Event
    BY <1>1, <1>2, ContentsAre DEF IsEarliest
  <1>4. queue' = IF aborted' THEN queue ELSE RemoveNext(queue)
    BY DEF ProcessOneEvent
  <1>5. UNCHANGED uid /\ currentTs' \in Nat
    BY <1>3 DEF ProcessOneEvent, HandleEvent, RunFrom, ContinueWith, RunOneEvent, ProcessEvent,
       Abort, QueueInv, Event
  <1> HIDE DEF next
  <1>6. /\ WellFormed(queue')
        /\ Contents(queue') = IF aborted' THEN Contents(queue) ELSE Contents(queue) \ {next}
    BY <1>1, <1>2, <1>4 DEF Holds
  <1>7. \A a \in Contents(queue') : a.uid < uid'
    BY <1>5, <1>6 DEF QueueInv
  <1> QED BY <1>2, <1>5, <1>6, <1>7 DEF QueueInv, next

LEMMA SetSchedulerStep ==
  ASSUME QueueInv, "calendar" \notin SchedulerKinds, NEW kind \in SchedulerKinds,
         SetScheduler(kind)
  PROVE  QueueInv' /\ UNCHANGED << Contents(queue), implVars >>
  <1>1. kind \in {"list", "map", "heap"}
    BY KindAssumption DEF Kinds
  <1>2. queue' = Moved(queue, EmptyList(kind)) /\ UNCHANGED << uid, currentTs, implVars >>
    BY DEF SetScheduler, implVars
  <1>3. Holds(Moved(queue, EmptyList(kind)), kind, Contents(queue))
    BY <1>1, MovedIs DEF QueueInv
  <1>4. WellFormed(queue') /\ Contents(queue') = Contents(queue)
    BY <1>2, <1>3 DEF Holds
  <1> QED BY <1>2, <1>4 DEF QueueInv

LEMMA SameCardinality == ASSUME NEW S PROVE Abstract!Cardinality(S) = Cardinality(S)
  BY DEF Abstract!Cardinality, Cardinality

LEMMA MayWithdrawImplements == MayWithdraw => Abstract!MayWithdraw
  BY SameCardinality DEF MayWithdraw, MayCall, Abstract!MayWithdraw, Abstract!MayCall

LEMMA StepImplements ==
  ASSUME QueueInv, "calendar" \notin SchedulerKinds, "heap" \notin RemovingKinds, [Next]_vars
  PROVE  QueueInv' /\ [Abstract!Next]_(Abstract!vars)
  <1>1. CASE UNCHANGED vars
    <2>1. UNCHANGED << queue, uid, currentTs, implVars >>
      BY <1>1 DEF vars, implVars
    <2> QED BY <2>1, SameQueueInv DEF QueueInv, Abstract!vars, Abstract!implVars, implVars
  <1>2. ASSUME NEW delay \in Delays, Schedule(delay) PROVE QueueInv' /\ Abstract!Next
    <2>1. QueueInv' /\ Contents(queue)' = Contents(queue) \union {NewEvent(delay)}
      BY <1>2, ScheduleStep
    <2>2. Abstract!Schedule(delay)
      BY <1>2, <2>1 DEF Schedule, MayCall, ScheduleEvent, NewEvent, Abstract!Schedule,
         Abstract!MayCall, Abstract!ScheduleEvent, Abstract!NewEvent
    <2> QED BY <2>1, <2>2 DEF Abstract!Next
  <1>3. ASSUME NEW id \in issued, Remove(id) PROVE QueueInv' /\ Abstract!Next
    <2>1. QueueInv' /\ Contents(queue)' = Contents(queue) \ {id}
      BY <1>3, RemoveStep
    <2>2. Abstract!Remove(id)
      BY <1>3, <2>1, MayWithdrawImplements DEF Remove, IsExpired, RemoveEvent, Abort,
         Abstract!Remove, Abstract!IsExpired, Abstract!RemoveEvent, Abstract!Abort
    <2> QED BY <2>1, <2>2 DEF Abstract!Next
  <1>4. ASSUME ProcessOneEvent PROVE QueueInv' /\ Abstract!Next
    <2> DEFINE next == PeekNext(queue)
    <2>1. /\ QueueInv' /\ IsEarliest(Contents(queue), next)
          /\ Contents(queue)' = IF aborted' THEN Contents(queue) ELSE Contents(queue) \ {next}
      BY <1>4, ProcessStep
    <2>2. Abstract!Earliest(next) /\ next \in Contents(queue)
      BY <2>1 DEF IsEarliest, Less, Abstract!Earliest, Abstract!Before
    <2>3. HandleEvent(next)
      BY <1>4 DEF ProcessOneEvent
    <2> HIDE DEF next
    <2>4. Abstract!HandleEvent(next)
      BY <2>3 DEF HandleEvent, MayCall, RunFrom, ContinueWith, RunOneEvent, ProcessEvent, Abort,
         Notified, Abstract!HandleEvent, Abstract!MayCall, Abstract!RunFrom,
         Abstract!ContinueWith, Abstract!RunOneEvent, Abstract!ProcessEvent, Abstract!Abort,
         Abstract!Notified
    <2>5. Abstract!ProcessOneEvent
      BY <2>1, <2>2, <2>4 DEF Abstract!ProcessOneEvent
    <2> QED BY <2>1, <2>5 DEF Abstract!Next
  <1>5. ASSUME NEW kind \in SchedulerKinds, SetScheduler(kind)
        PROVE  QueueInv' /\ UNCHANGED Abstract!vars
    BY <1>5, SetSchedulerStep DEF Abstract!vars, Abstract!implVars, implVars
  <1>6. ASSUME UNCHANGED queue,
               \/ \E id \in issued : Cancel(id)
               \/ Stop \/ RunReturns(IsEmpty(queue)) \/ ScheduleDestroy \/ Destroy
               \/ \E impl \in 0 .. uid : RemoveDestroy(impl) \/ CancelDestroy(impl)
        PROVE  QueueInv' /\ Abstract!Next
    <2>1. UNCHANGED Contents(queue) /\ (IsEmpty(queue) <=> Contents(queue) = {})
      BY <1>6, ContentsAre DEF QueueInv
    <2>2. ASSUME NEW id \in issued, Cancel(id) PROVE QueueInv' /\ Abstract!Next
      <3>1. QueueInv'
        BY <1>6, <2>2, SameQueueInv DEF Cancel, CancelImpl, QueueInv
      <3>2. Abstract!Cancel(id)
        BY <2>2, MayWithdrawImplements DEF Cancel, IsExpired, CancelImpl, Abstract!Cancel,
           Abstract!IsExpired, Abstract!CancelImpl
      <3> QED BY <2>1, <3>1, <3>2 DEF Abstract!Next
    <2>3. CASE Stop
      <3>1. QueueInv'
        BY <1>6, <2>3, SameQueueInv DEF Stop, QueueInv
      <3>2. Abstract!Stop
        BY <2>3 DEF Stop, MayCall, Abstract!Stop, Abstract!MayCall
      <3> QED BY <2>1, <3>1, <3>2 DEF Abstract!Next
    <2>4. CASE RunReturns(IsEmpty(queue))
      <3>1. QueueInv'
        BY <1>6, <2>4, SameQueueInv DEF RunReturns, Abort, QueueInv
      <3>2. Abstract!RunReturns(Contents(queue) = {})
        BY <2>1, <2>4 DEF RunReturns, MayCall, Abort, Abstract!RunReturns, Abstract!MayCall,
           Abstract!Abort
      <3> QED BY <2>1, <3>1, <3>2 DEF Abstract!Next
    <2>5. CASE ScheduleDestroy
      <3>1. QueueInv'
        BY <1>6, <2>5, SameQueueInv DEF ScheduleDestroy, QueueInv
      <3>2. Abstract!ScheduleDestroy
        BY <2>5 DEF ScheduleDestroy, MayCall, Abstract!ScheduleDestroy, Abstract!MayCall
      <3> QED BY <2>1, <3>1, <3>2 DEF Abstract!Next
    <2>6. CASE Destroy
      <3>1. QueueInv'
        BY <1>6, <2>6, SameQueueInv DEF Destroy, QueueInv
      <3>2. Abstract!Destroy
        BY <2>6 DEF Destroy, MayCall, Notified, Abstract!Destroy, Abstract!MayCall,
           Abstract!Notified
      <3> QED BY <2>1, <3>1, <3>2 DEF Abstract!Next
    <2>7. ASSUME NEW impl \in 0 .. uid, RemoveDestroy(impl) PROVE QueueInv' /\ Abstract!Next
      <3>1. QueueInv'
        BY <1>6, <2>7, SameQueueInv DEF RemoveDestroy, QueueInv
      <3>2. Abstract!RemoveDestroy(impl)
        BY <2>7, MayWithdrawImplements DEF RemoveDestroy, WithoutAt, Abstract!RemoveDestroy,
           Abstract!WithoutAt
      <3> QED BY <2>1, <3>1, <3>2 DEF Abstract!Next
    <2>8. ASSUME NEW impl \in 0 .. uid, CancelDestroy(impl) PROVE QueueInv' /\ Abstract!Next
      <3>1. QueueInv'
        BY <1>6, <2>8, SameQueueInv DEF CancelDestroy, CancelImpl, QueueInv
      <3>2. Abstract!CancelDestroy(impl)
        BY <2>8, MayWithdrawImplements DEF CancelDestroy, IsExpiredDestroy, CancelImpl,
           Abstract!CancelDestroy, Abstract!IsExpiredDestroy, Abstract!CancelImpl
      <3> QED BY <2>1, <3>1, <3>2 DEF Abstract!Next
    <2> QED BY <1>6, <2>2, <2>3, <2>4, <2>5, <2>6, <2>7, <2>8
  <1> QED BY <1>1, <1>2, <1>3, <1>4, <1>5, <1>6 DEF Next

\* With the list, the map and the heap the simulator does what it does with a set from which
\* it takes the earliest event, whichever of them the program changes to and when, as long as
\* it calls Remove only while the event list is not a heap.
THEOREM SchedulersImplementSimulator ==
  ASSUME "calendar" \notin SchedulerKinds, "heap" \notin RemovingKinds
  PROVE  Spec => ImplementsSimulator
  <1>1. Init => QueueInv /\ Abstract!Init
    <2> SUFFICES ASSUME Init PROVE QueueInv /\ Abstract!Init
      OBVIOUS
    <2>1. QueueInv /\ Contents(queue) = {}
      BY InitQueueInv
    <2> QED BY <2>1 DEF Init, ImplInit, Abstract!Init, Abstract!ImplInit
  <1>2. QueueInv /\ [Next]_vars => QueueInv' /\ [Abstract!Next]_(Abstract!vars)
    BY StepImplements
  <1> QED BY <1>1, <1>2, PTL DEF Spec, ImplementsSimulator, Abstract!Spec

(***************************************************************************)
(* What NsSimulatorProofs proves of the set of pending events holds with   *)
(* the schedulers, too.                                                    *)
(***************************************************************************)
Simulator == INSTANCE NsSimulatorProofs WITH events <- Contents(queue)

LEMMA SimulatorBehaves ==
  ASSUME "calendar" \notin SchedulerKinds, "heap" \notin RemovingKinds
  PROVE  Spec => Simulator!Spec
  <1>1. Abstract!Init => Simulator!Init
    BY DEF Abstract!Init, Abstract!ImplInit, Simulator!Init, Simulator!ImplInit
  <1>2. [Abstract!Next]_(Abstract!vars) => [Simulator!Next]_(Simulator!vars)
    BY DEF Abstract!Next, Simulator!Next, Abstract!vars, Simulator!vars, Abstract!implVars,
     Simulator!implVars, Abstract!Schedule, Simulator!Schedule, Abstract!MayCall,
     Simulator!MayCall, Abstract!ScheduleEvent, Simulator!ScheduleEvent, Abstract!NewEvent,
     Simulator!NewEvent, Abstract!Remove, Simulator!Remove, Abstract!MayWithdraw,
     Simulator!MayWithdraw, Abstract!IsExpired, Simulator!IsExpired, Abstract!RemoveEvent,
     Simulator!RemoveEvent, Abstract!Abort, Simulator!Abort, Abstract!Cancel,
     Simulator!Cancel, Abstract!CancelImpl, Simulator!CancelImpl, Abstract!ProcessOneEvent,
     Simulator!ProcessOneEvent, Abstract!Earliest, Simulator!Earliest, Abstract!Before,
     Simulator!Before, Abstract!HandleEvent, Simulator!HandleEvent, Abstract!RunFrom,
     Simulator!RunFrom, Abstract!ContinueWith, Simulator!ContinueWith, Abstract!RunOneEvent,
     Simulator!RunOneEvent, Abstract!ProcessEvent, Simulator!ProcessEvent, Abstract!Notified,
     Simulator!Notified, Abstract!Stop, Simulator!Stop, Abstract!RunReturns,
     Simulator!RunReturns, Abstract!ScheduleDestroy, Simulator!ScheduleDestroy,
     Abstract!RemoveDestroy, Simulator!RemoveDestroy, Abstract!WithoutAt, Simulator!WithoutAt,
     Abstract!CancelDestroy, Simulator!CancelDestroy, Abstract!IsExpiredDestroy,
     Simulator!IsExpiredDestroy, Abstract!Destroy, Simulator!Destroy, Abstract!Cardinality,
     Simulator!Cardinality
  <1>3. Abstract!Spec => Simulator!Spec
    BY <1>1, <1>2, PTL DEF Abstract!Spec, Simulator!Spec
  <1> QED BY <1>3, SchedulersImplementSimulator DEF ImplementsSimulator

\* With the list, the map and the heap no assertion of the simulator fails: time never goes
\* backwards, the list finds every event to be removed, and none is uncounted at the end.
THEOREM SchedulersNeverAbort ==
  ASSUME "calendar" \notin SchedulerKinds, "heap" \notin RemovingKinds
  PROVE  Spec => []NoAssertionFails
  <1>1. Simulator!NoAssertionFails => NoAssertionFails
    BY DEF Simulator!NoAssertionFails, NoAssertionFails
  <1>2. Simulator!Spec => []Simulator!NoAssertionFails
    BY DelayAssumption, BoundAssumption, Simulator!SimulatorNeverAborts
  <1> QED BY <1>1, <1>2, SimulatorBehaves, PTL

\* With these lists the comparison of IsExpired with the last event tells exactly which
\* events are still to come, also after the lists have been exchanged.
THEOREM SchedulersKnowExpired ==
  ASSUME "calendar" \notin SchedulerKinds, "heap" \notin RemovingKinds
  PROVE  Spec => []ExpiredIsExact
  <1>1. Simulator!ExpiredIsExact => ExpiredIsExact
    BY DEF Simulator!ExpiredIsExact, Simulator!IsExpired, ExpiredIsExact, IsExpired
  <1>2. Simulator!Spec => []Simulator!ExpiredIsExact
    BY DelayAssumption, BoundAssumption, Simulator!ExpiryIsExact
  <1> QED BY <1>1, <1>2, SimulatorBehaves, PTL

\* With these lists no event gets lost and none that was withdrawn runs.
THEOREM SchedulersLoseNothing ==
  ASSUME "calendar" \notin SchedulerKinds, "heap" \notin RemovingKinds
  PROVE  Spec => []EventsAccounted
  <1>1. Simulator!EventsAccounted => EventsAccounted
    BY DEF Simulator!EventsAccounted, EventsAccounted, Simulator!Cardinality, Cardinality
  <1>2. Simulator!Spec => []Simulator!EventsAccounted
    BY DelayAssumption, BoundAssumption, Simulator!AllEventsAccounted
  <1> QED BY <1>1, <1>2, SimulatorBehaves, PTL

=============================================================================
