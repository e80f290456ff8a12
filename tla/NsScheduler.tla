----------------------------- MODULE NsScheduler -----------------------------
(***************************************************************************)
(* The event lists that ns-3 offers: ListScheduler, MapScheduler,          *)
(* HeapScheduler and CalendarScheduler, as operators on a record with the  *)
(* kind of the list and its members. An event is a record of its time ts   *)
(* and its uid.                                                            *)
(***************************************************************************)
EXTENDS Integers, Sequences, FiniteSets

Seqs == INSTANCE SequencesExt
Sets == INSTANCE FiniteSetsExt

CONSTANTS
    WidthModulus    \* 2^32: CalculateNewWidth returns a uint32_t

ASSUME WidthAssumption == WidthModulus \in Nat \ {0}

Kinds == {"list", "map", "heap", "calendar"}

\* operator < of EventKey
Less(a, b) == a.ts < b.ts \/ (a.ts = b.ts /\ a.uid < b.uid)

EarliestOf(S) == CHOOSE a \in S : \A b \in S \ {a} : Less(a, b)

\* What the turns of a loop make of s: n turns, of which those after its end do nothing
Loop(Turn(_), s, n) ==
    LET after[k \in 0 .. n] == IF k = 0 THEN s ELSE Turn(after[k - 1]) IN after[n]

\* mutant: events of the same time are inserted before each other
InsertSortedByTime(seq, event) ==
    LET place == Seqs!SelectInSeq(seq, LAMBDA e : event.ts <= e.ts)
    IN IF place = 0 THEN Append(seq, event) ELSE Seqs!InsertAt(seq, place, event)

\* The loop of ListScheduler::Insert and of CalendarScheduler::DoInsert
InsertSorted(seq, event) ==
    LET place == Seqs!SelectInSeq(seq, LAMBDA e : Less(event, e))
    IN IF place = 0 THEN Append(seq, event) ELSE Seqs!InsertAt(seq, place, event)

RemoveUid(seq, event) == Seqs!RemoveFirstMatch(seq, LAMBDA e : e.uid = event.uid)

-----------------------------------------------------------------------------
\* HeapScheduler: position i of the sequence is index i of m_heap

Exch(heap, a, b) == [heap EXCEPT ![a] = heap[b], ![b] = heap[a]]

BottomUpTurn(s) ==
    IF s.index # 1 /\ Less(s.heap[s.index], s.heap[s.index \div 2])
    THEN [heap |-> Exch(s.heap, s.index, s.index \div 2), index |-> s.index \div 2]
    ELSE s

BottomUp(heap, index) == Loop(BottomUpTurn, [heap |-> heap, index |-> index], index).heap

Smallest(heap, a, b) == IF Less(heap[a], heap[b]) THEN a ELSE b

SmallestChild(heap, index) ==
    IF 2 * index + 1 <= Len(heap) THEN Smallest(heap, 2 * index, 2 * index + 1) ELSE 2 * index

TopDownTurn(s) ==
    LET child == SmallestChild(s.heap, s.index)
    IN IF 2 * s.index > Len(s.heap) \/ Less(s.heap[s.index], s.heap[child])
       THEN s
       ELSE [heap |-> Exch(s.heap, s.index, child), index |-> child]

TopDown(heap, index) == Loop(TopDownTurn, [heap |-> heap, index |-> index], Len(heap)).heap

\* What RemoveNext and Remove do at the index of the event
HeapWithout(heap, index) == TopDown(Seqs!Front(Exch(heap, index, Len(heap))), index)

-----------------------------------------------------------------------------
\* CalendarScheduler

Hash(ts, width, n) == (ts \div width) % n

\* Init: empty buckets, the search starts at the time prio
Calendar(n, width, prio) ==
    [kind |-> "calendar", n |-> n, width |-> width, qSize |-> 0,
     buckets |-> [i \in 0 .. n - 1 |-> << >>],
     lastPrio |-> prio,
     lastBucket |-> Hash(prio, width, n),
     bucketTop |-> (prio \div width + 1) * width]

DoInsert(c, event) ==
    [c EXCEPT !.buckets[Hash(event.ts, c.width, c.n)] = InsertSorted(@, event)]

\* The bucket that is looked at after k others
BucketAfter(c, k) == (c.lastBucket + k) % c.n

Filled(c) == {k \in 0 .. c.n - 1 : c.buckets[BucketAfter(c, k)] # << >>}

\* The buckets whose first event is in the current year
InYear(c) ==
    {k \in Filled(c) : Head(c.buckets[BucketAfter(c, k)]).ts < c.bucketTop + k * c.width}

\* The event that PeekNext and DoRemoveNext find
Found(c) ==
    IF InYear(c) # {} THEN Head(c.buckets[BucketAfter(c, Sets!Min(InYear(c)))])
    ELSE EarliestOf({Head(c.buckets[BucketAfter(c, k)]) : k \in Filled(c)})

DoRemoveNext(c) ==
    LET next   == Found(c)
        bucket == Hash(next.ts, c.width, c.n)
    IN [c EXCEPT !.buckets[bucket] = Tail(@),
                 !.lastPrio = next.ts,
                 !.lastBucket = bucket,
                 !.bucketTop = IF InYear(c) # {} THEN @ + Sets!Min(InYear(c)) * c.width
                               ELSE (next.ts \div c.width + 1) * c.width]

SampleTurn(s) ==
    [calendar |-> DoRemoveNext(s.calendar), samples |-> Append(s.samples, Found(s.calendar))]

\* The next events, taken out one after the other
Samples(c, count) == Loop(SampleTurn, [calendar |-> c, samples |-> << >>], count).samples

\* CalculateNewWidth; the samples are put back where they were
NewWidth(c) ==
    LET nSamples == Sets!Min({25, IF c.qSize <= 5 THEN c.qSize ELSE 5 + c.qSize \div 10})
        samples  == Samples(c, nSamples)
        gaps     == [i \in 1 .. nSamples - 1 |-> samples[i + 1].ts - samples[i].ts]
        twiceAvg == (Seqs!FoldSeq(+, 0, gaps) \div (nSamples - 1)) * 2
        usual    == Seqs!FoldSeq(LAMBDA gap, sum : IF gap <= twiceAvg THEN gap + sum ELSE sum, 0, gaps)
    IN IF c.qSize < 2 THEN 1 ELSE Sets!Max({3 * usual, 1}) % WidthModulus

\* mutant: the position is not restored after the samples were taken
ResizeAfterSamples(c, newSize) ==
    LET start == IF c.qSize < 2 THEN c.lastPrio ELSE Seqs!Last(Samples(c, Sets!Min({5, c.qSize}))).ts
        fresh == Calendar(newSize, NewWidth(c), start)
        all   == Seqs!FlattenSeq([i \in 1 .. c.n |-> c.buckets[i - 1]])
    IN [Seqs!FoldLeft(DoInsert, fresh, all) EXCEPT !.qSize = c.qSize]

Resize(c, newSize) ==
    LET fresh == Calendar(newSize, NewWidth(c), c.lastPrio)
        all   == Seqs!FlattenSeq([i \in 1 .. c.n |-> c.buckets[i - 1]])
    IN [Seqs!FoldLeft(DoInsert, fresh, all) EXCEPT !.qSize = c.qSize]

ResizeUp(c) == IF c.qSize > 2 * c.n /\ c.n < 32768 THEN Resize(c, 2 * c.n) ELSE c

ResizeDown(c) == IF c.qSize < c.n \div 2 THEN Resize(c, c.n \div 2) ELSE c

-----------------------------------------------------------------------------
\* The interface of Scheduler

EmptyList(kind) ==
    CASE kind = "calendar" -> Calendar(2, 1, 0)
      [] kind = "map"      -> [kind |-> kind, events |-> {}]
      [] OTHER             -> [kind |-> kind, events |-> << >>]

Contents(q) ==
    CASE q.kind = "calendar" -> UNION {Seqs!ToSet(q.buckets[i]) : i \in DOMAIN q.buckets}
      [] q.kind = "map"      -> q.events
      [] OTHER               -> Seqs!ToSet(q.events)

IsEmpty(q) == IF q.kind = "calendar" THEN q.qSize = 0 ELSE Contents(q) = {}

Insert(q, event) ==
    CASE q.kind = "list"     -> [q EXCEPT !.events = InsertSorted(@, event)]
      [] q.kind = "map"      -> [q EXCEPT !.events = @ \union {event}]
      [] q.kind = "heap"     -> [q EXCEPT !.events = BottomUp(Append(@, event), Len(@) + 1)]
      [] q.kind = "calendar" -> ResizeUp([DoInsert(q, event) EXCEPT !.qSize = @ + 1])

PeekNext(q) ==
    CASE q.kind = "map"      -> EarliestOf(q.events)
      [] q.kind = "calendar" -> Found(q)
      [] OTHER               -> Head(q.events)

\* RemoveNext, without its result, which is PeekNext
RemoveNext(q) ==
    CASE q.kind = "list"     -> [q EXCEPT !.events = Tail(@)]
      [] q.kind = "map"      -> [q EXCEPT !.events = @ \ {EarliestOf(@)}]
      [] q.kind = "heap"     -> [q EXCEPT !.events = HeapWithout(@, 1)]
      [] q.kind = "calendar" -> ResizeDown([DoRemoveNext(q) EXCEPT !.qSize = @ - 1])

\* Remove of an event that is in the list
RemoveFrom(q, event) ==
    CASE q.kind = "list"     -> [q EXCEPT !.events = RemoveUid(@, event)]
      [] q.kind = "map"      -> [q EXCEPT !.events = @ \ {event}]
      [] q.kind = "heap"     -> [q EXCEPT !.events = HeapWithout(@,
                                   Seqs!SelectInSeq(@, LAMBDA e : e.uid = event.uid))]
      [] q.kind = "calendar" -> ResizeDown([q EXCEPT
                                   !.buckets[Hash(event.ts, q.width, q.n)] = RemoveUid(@, event),
                                   !.qSize = @ - 1])

\* The loop of DefaultSimulatorImpl::SetScheduler
MoveTurn(s) ==
    IF IsEmpty(s.old) THEN s
    ELSE [old |-> RemoveNext(s.old), new |-> Insert(s.new, PeekNext(s.old))]

Moved(old, new) ==
    Loop(MoveTurn, [old |-> old, new |-> new], Cardinality(Contents(old))).new
=============================================================================
