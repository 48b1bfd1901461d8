------------------------ MODULE CbmInstrumentProofs -------------------------
(***************************************************************************)
(* Proofs about the beam monitors: first about the two serializers, for    *)
(* any use of them (EV44Serializer implements EventStream; a               *)
(* HistogramSerializer implements FrameStream), then about the processing  *)
(* thread that uses both (CbmInstrument).                                  *)
(***************************************************************************)
EXTENDS CbmInstrument, CommonLemmas
-----------------------------------------------------------------------------
(***************************************************************************)
(* EV44Serializer, for every message size, event and time.                 *)
(***************************************************************************)
\* The elements below EventCount have been written since the buffer was sent.
Written == \A i \in 1 .. EventCount : events[i] \in Events

EventInv == TypeOK /\ Written

\* A function on 1 .. n is a sequence.
LEMMA FunctionIsSeq ==
  ASSUME NEW S, NEW n \in Nat, NEW f \in [1 .. n -> S]
  PROVE  f \in Seq(S) /\ Len(f) = n
  OBVIOUS

\* SubSeq from the first element on, as a function.
LEMMA SubSeqPrefix ==
  ASSUME NEW S, NEW n \in Nat, NEW m \in Nat, n <= m, NEW f \in [1 .. m -> S]
  PROVE  SubSeq(f, 1, n) = [i \in 1 .. n |-> f[i]]
<1>1. f \in Seq(S) /\ Len(f) = m
  BY FunctionIsSeq
<1> QED
  BY <1>1

\* What the producer callback is handed: a sequence of events, which is the
\* projection of what was pending.
LEMMA PrefixIsEvents ==
  ASSUME NEW n \in 0 .. MaxEvents,
         NEW f \in [1 .. MaxEvents -> Events \cup {NoEvent}],
         \A i \in 1 .. n : f[i] \in Events
  PROVE  /\ SubSeq(f, 1, n) = [i \in 1 .. n |-> f[i]]
         /\ SubSeq(f, 1, n) \in Seq(Events)
<1>1. SubSeq(f, 1, n) = [i \in 1 .. n |-> f[i]]
  BY SubSeqPrefix, SerializerAssumption
<1>2. [i \in 1 .. n |-> f[i]] \in [1 .. n -> Events]
  OBVIOUS
<1>3. [i \in 1 .. n |-> f[i]] \in Seq(Events)
  BY <1>2, FunctionIsSeq
<1> QED
  BY <1>1, <1>3

\* A call of produce() leaves the buffer empty and its message well formed.
LEMMA ProduceType ==
  ASSUME TypeOK, NEW n \in 0 .. MaxEvents,
         NEW f \in [1 .. MaxEvents -> Events \cup {NoEvent}],
         \A i \in 1 .. n : f[i] \in Events,
         Produce(n, f)
  PROVE  /\ EventCount' = 0
         /\ MessageId' \in Nat \ {0}
         /\ message' \in [id : Nat, time : Times, events : Seq(Events)]
                           \cup {NoMessage}
         /\ ProduceCalled' \in Nat
  BY PrefixIsEvents DEF Produce, TypeOK

LEMMA InitEventInv == Init => EventInv
  BY SerializerAssumption DEF Init, EventInv, TypeOK, Written

LEMMA StepEventInv == EventInv /\ [Next]_vars => EventInv'
<1> SUFFICES ASSUME EventInv, [Next]_vars
             PROVE  EventInv'
  OBVIOUS
<1> USE SerializerAssumption
<1>1. CASE produce
  BY <1>1, ProduceType DEF produce, EventInv, TypeOK, Written
<1>2. ASSUME NEW e \in Events, addEvent(e)
      PROVE  EventInv'
  <2> DEFINE n == EventCount + 1
  <2>1. /\ n \in 1 .. MaxEvents
        /\ events' \in [1 .. MaxEvents -> Events \cup {NoEvent}]
        /\ \A i \in 1 .. n : events'[i] \in Events
    BY <1>2 DEF addEvent, EventInv, TypeOK, Written
  <2>2. CASE ~full(n)
    BY <1>2, <2>1, <2>2 DEF addEvent, full, EventInv, TypeOK, Written
  <2>3. CASE full(n)
    <3>1. Produce(n, events')
      BY <1>2, <2>3 DEF addEvent
    <3>2. /\ EventCount' = 0
          /\ MessageId' \in Nat \ {0}
          /\ message' \in [id : Nat, time : Times, events : Seq(Events)]
                            \cup {NoMessage}
          /\ ProduceCalled' \in Nat
      BY <2>1, <3>1, ProduceType DEF EventInv
    <3> QED
      BY <1>2, <2>1, <2>3, <3>2 DEF addEvent, EventInv, TypeOK, Written
  <2> QED
    BY <2>2, <2>3
<1>3. ASSUME NEW t \in Times, checkAndSetReferenceTime(t)
      PROVE  EventInv'
  BY <1>3, ProduceType DEF checkAndSetReferenceTime, EventInv, TypeOK, Written
<1>4. CASE UNCHANGED vars
  BY <1>4 DEF vars, EventInv, TypeOK, Written
<1> QED
  BY <1>1, <1>2, <1>3, <1>4 DEF Next

THEOREM EventsInvariance == Spec => []EventInv
  BY InitEventInv, StepEventInv, PTL DEF Spec

\* Between calls there is always room for the event addEvent() writes before
\* it compares the count with MaxEvents, whatever MaxEvents is.
THEOREM TypeCorrect == Spec => []TypeOK
<1>1. EventInv => TypeOK
  BY DEF EventInv
<1> QED
  BY <1>1, EventsInvariance, PTL
-----------------------------------------------------------------------------
\* The refinement.  The pending events are those below EventCount.

LEMMA PendingLength ==
  ASSUME EventInv
  PROVE  /\ pending \in Seq([time : Times, event : Events])
         /\ Len(pending) = EventCount
         /\ pending = <<>> <=> EventCount = 0
<1>1. EventCount \in Nat
  BY SerializerAssumption DEF EventInv, TypeOK
<1>2. pending \in [1 .. EventCount -> [time : Times, event : Events]]
  BY DEF pending, EventInv, TypeOK, Written
<1>3. pending \in Seq([time : Times, event : Events]) /\ Len(pending) = EventCount
  BY <1>1, <1>2, FunctionIsSeq
<1> QED
  BY <1>1, <1>3

LEMMA InitRefines == Init => Stream!Init
<1> SUFFICES ASSUME Init
             PROVE  Stream!Init
  OBVIOUS
<1>1. pending = <<>>
  BY InitEventInv, PendingLength DEF Init
<1> QED
  BY <1>1 DEF Init, Stream!Init

\* A call of produce() with the events of the sequence q either finds none
\* and changes nothing the users see, or sends q.
LEMMA ProduceRefines ==
  ASSUME EventInv, EventInv', NEW n \in 0 .. MaxEvents,
         NEW f \in [1 .. MaxEvents -> Events \cup {NoEvent}],
         \A i \in 1 .. n : f[i] \in Events,
         NEW q, q \in Seq([time : Times, event : Events]), Len(q) = n,
         \A i \in 1 .. n : q[i] = [time |-> referenceTime, event |-> f[i]],
         Produce(n, f)
  PROVE  /\ pending' = <<>>
         /\ \/ n = 0 /\ UNCHANGED <<MessageId, message>>
            \/ Stream!Send(q, referenceTime)
<1>1. EventCount' = 0
  BY DEF Produce
<1>2. pending' = <<>>
  <2>1. pending' = [i \in 1 .. 0 |-> [time |-> referenceTime', event |-> events'[i]]]
    BY <1>1 DEF pending
  <2> QED
    BY <2>1
<1>3. CASE n = 0
  BY <1>2, <1>3 DEF Produce
<1>4. CASE n # 0
  <2>1. SubSeq(f, 1, n) = [i \in 1 .. Len(q) |-> q[i].event]
    BY PrefixIsEvents
  <2>2. /\ message' = [id |-> MessageId, time |-> referenceTime,
                       events |-> SubSeq(f, 1, n)]
        /\ MessageId' = MessageId + 1
    BY <1>4 DEF Produce
  <2>3. q # <<>> /\ Len(q) <= MaxEvents
    BY <1>4
  <2>4. MessageId \in Nat
    BY DEF EventInv, TypeOK
  <2> QED
    BY <1>2, <2>1, <2>2, <2>3, <2>4 DEF Stream!Send
<1> QED
  BY <1>3, <1>4

LEMMA StepRefines == EventInv /\ EventInv' /\ [Next]_vars => [Stream!Next]_(Stream!vars)
<1> SUFFICES ASSUME EventInv, EventInv', [Next]_vars
             PROVE  [Stream!Next]_(Stream!vars)
  OBVIOUS
<1> USE SerializerAssumption
<1>1. /\ EventCount \in 0 .. MaxEvents
      /\ events \in [1 .. MaxEvents -> Events \cup {NoEvent}]
      /\ \A i \in 1 .. EventCount : events[i] \in Events
      /\ \A i \in 1 .. EventCount :
           pending[i] = [time |-> referenceTime, event |-> events[i]]
  BY DEF EventInv, TypeOK, Written, pending
<1>2. CASE produce
  <2>1. /\ pending' = <<>>
        /\ \/ EventCount = 0 /\ UNCHANGED <<MessageId, message>>
           \/ Stream!Send(pending, referenceTime)
    BY <1>1, <1>2, PendingLength, ProduceRefines DEF produce
  <2>2. UNCHANGED referenceTime
    BY <1>2 DEF produce
  <2> QED
    BY <2>1, <2>2, PendingLength DEF Stream!Next, Stream!Flush, Stream!vars
<1>3. ASSUME NEW e \in Events, addEvent(e)
      PROVE  Stream!Next
  <2> DEFINE n == EventCount + 1
             q == Append(pending, [time |-> referenceTime, event |-> e])
  <2>1. /\ n \in 0 .. MaxEvents
        /\ events' \in [1 .. MaxEvents -> Events \cup {NoEvent}]
        /\ events' = [events EXCEPT ![n] = e]
        /\ \A i \in 1 .. n : events'[i] \in Events
        /\ referenceTime' = referenceTime
    BY <1>1, <1>3 DEF addEvent, EventInv, TypeOK
  <2>2. /\ q \in Seq([time : Times, event : Events])
        /\ Len(q) = n
        /\ \A i \in 1 .. n :
             q[i] = [time |-> referenceTime, event |-> events'[i]]
    <3>1. [time |-> referenceTime, event |-> e] \in [time : Times, event : Events]
      BY DEF EventInv, TypeOK
    <3>2. Len(pending) = EventCount
      BY PendingLength
    <3> HIDE DEF pending
    <3>3. \A i \in 1 .. EventCount : q[i] = pending[i] /\ events'[i] = events[i]
      BY <1>1, <2>1, <3>2, PendingLength
    <3>4. q[n] = [time |-> referenceTime, event |-> e] /\ events'[n] = e
      BY <1>1, <2>1, <3>2, PendingLength DEF EventInv, TypeOK
    <3>5. ASSUME NEW i \in 1 .. n
          PROVE  i \in 1 .. EventCount \/ i = n
      BY <1>1
    <3> QED
      BY <1>1, <3>1, <3>2, <3>3, <3>4, <3>5, PendingLength
  <2>3. CASE ~full(n)
    <3>1. EventCount' = n /\ UNCHANGED <<MessageId, message>>
      BY <1>3, <2>3 DEF addEvent
    <3>2. pending' = [i \in 1 .. n |-> [time |-> referenceTime, event |-> events'[i]]]
      BY <2>1, <3>1 DEF pending
    <3>3. q = [i \in 1 .. n |-> q[i]]
      BY <2>2
    <3>4. pending' = q
      BY <2>2, <3>2, <3>3
    <3> HIDE DEF q
    <3>5. Stream!Keep(q)
      BY <3>1, <3>4 DEF Stream!Keep
    <3> QED
      BY <2>1, <3>5 DEF q, Stream!Next, Stream!Add
  <2>4. CASE full(n)
    <3>1. Produce(n, events')
      BY <1>3, <2>4 DEF addEvent
    <3>2. n # 0
      BY <1>1
    <3> HIDE DEF q, n
    <3>3. Stream!Send(q, referenceTime)
      BY <2>1, <2>2, <3>1, <3>2, ProduceRefines
    <3> QED
      BY <2>1, <3>3 DEF q, Stream!Next, Stream!Add
  <2> QED
    BY <2>3, <2>4
<1>4. ASSUME NEW t \in Times, checkAndSetReferenceTime(t)
      PROVE  Stream!Next
  <2>1. /\ pending' = <<>>
        /\ \/ EventCount = 0 /\ UNCHANGED <<MessageId, message>>
           \/ Stream!Send(pending, referenceTime)
    BY <1>1, <1>4, PendingLength, ProduceRefines DEF checkAndSetReferenceTime
  <2>2. referenceTime' = t
    BY <1>4 DEF checkAndSetReferenceTime
  <2>3. Stream!Keep(pending) \/ Stream!Send(pending, referenceTime)
    BY <2>1, PendingLength DEF Stream!Keep
  <2> QED
    BY <2>2, <2>3 DEF Stream!Next, Stream!SetTime
<1>5. CASE UNCHANGED vars
  BY <1>5 DEF vars, Stream!vars, pending
<1> QED
  BY <1>2, <1>3, <1>4, <1>5 DEF Next

\* Whatever the sizes and the interleaving of additions, new pulses and
\* timeouts, the serializer is an EventStream: no event is lost, repeated,
\* reordered or sent under the time of another pulse.
THEOREM Refinement == Spec => ImplementsEventStream
  BY InitRefines, EventsInvariance, StepRefines, PTL
     DEF Spec, ImplementsEventStream, Stream!Spec
-----------------------------------------------------------------------------
(***************************************************************************)
(* HistogramSerializer: its bins are the intervals of the axis, its        *)
(* iterator is valid, and the axis tells the true times of the frames as   *)
(* long as the pulses span less than it can hold.                          *)
(***************************************************************************)
\* Division rounds down.
LEMMA DivisionBounds ==
  ASSUME NEW n \in Nat, NEW d \in Nat \ {0}
  PROVE  /\ n \div d \in Nat
         /\ d * (n \div d) <= n /\ n < d * (n \div d) + d
  OBVIOUS

\* The bins have a width.
LEMMA StepPositive == DA00!Step \in Nat \ {0}
<1>1. /\ Period - BinOffset \in Nat /\ BinCount \in Nat \ {0}
      /\ BinCount <= Period - BinOffset
  BY HistogramAssumption
<1> DEFINE n == Period - BinOffset
<1>2. /\ n \div BinCount \in Nat /\ n < BinCount * (n \div BinCount) + BinCount
  BY <1>1, DivisionBounds
<1>3. n \div BinCount # 0
  <2> SUFFICES ASSUME n \div BinCount = 0 PROVE FALSE
    OBVIOUS
  <2>1. n < BinCount * 0 + BinCount
    BY <1>2
  <2> QED BY <2>1, <1>1
<1> QED BY <1>2, <1>3 DEF DA00!Step

\* A multiple of d lies no more than d below n for one factor only.
LEMMA QuotientUnique ==
  ASSUME NEW n \in Nat, NEW d \in Nat \ {0}, NEW q \in Nat,
         d * q <= n, n < d * q + d
  PROVE  n \div d = q
<1> DEFINE p == n \div d
<1>1. p \in Nat /\ d * p <= n /\ n < d * p + d
  BY DivisionBounds
<1> HIDE DEF p
<1>2. ~(p < q)
  <2> SUFFICES ASSUME p + 1 <= q PROVE FALSE
    BY <1>1
  <2>1. d * (p + 1) <= d * q
    BY <1>1
  <2> QED BY <2>1, <1>1
<1>3. ~(q < p)
  <2> SUFFICES ASSUME q + 1 <= p PROVE FALSE
    BY <1>1
  <2>1. d * (q + 1) <= d * p
    BY <1>1
  <2> QED BY <2>1, <1>1
<1> QED BY <1>1, <1>2, <1>3 DEF p

\* A time is put where the axis says it is, for every period, offset and number
\* of bins: the bin whose interval it lies in, or none when it is in no interval
\* and late times are dropped.
THEOREM BinIsInterval ==
  ASSUME NEW t \in Nat
  PROVE  DA00!binIndex(t) = DA00!intervalOf(t)
<1> DEFINE from(b) == BinOffset + b * DA00!Step
           inside == {b \in DA00!Bins : from(b) <= t /\ t < from(b + 1)}
           i == (t - BinOffset) \div DA00!Step
<1>1. DA00!Step \in Nat \ {0} /\ BinOffset \in Nat /\ BinCount \in Nat \ {0}
  BY StepPositive, HistogramAssumption
<1>2. CASE t < BinOffset
  <2>1. \A b \in DA00!Bins : ~(from(b) <= t)
    <3> SUFFICES ASSUME NEW b \in DA00!Bins PROVE ~(from(b) <= t)
      OBVIOUS
    <3>1. b \in Nat
      BY <1>1 DEF DA00!Bins
    <3>2. b * DA00!Step \in Nat
      BY <3>1, <1>1
    <3> QED BY <3>2, <1>1, <1>2
  <2>2. inside = {}
    BY <2>1, <1>1
  <2>3. ~(t >= from(BinCount))
    <3>1. BinCount * DA00!Step \in Nat
      BY <1>1
    <3> QED BY <3>1, <1>1, <1>2
  <2> QED BY <2>2, <2>3, <1>2 DEF DA00!binIndex, DA00!intervalOf
<1>3. CASE ~(t < BinOffset)
  <2>1. t - BinOffset \in Nat
    BY <1>1, <1>3
  <2>2. i \in Nat /\ DA00!Step * i <= t - BinOffset /\ t - BinOffset < DA00!Step * i + DA00!Step
    BY <2>1, <1>1, DivisionBounds
  <2>3. from(i) <= t /\ t < from(i + 1)
    BY <2>2, <1>1
  <2>4. ASSUME NEW b \in DA00!Bins, from(b) <= t, t < from(b + 1) PROVE b = i
    <3>1. b \in Nat
      BY <1>1 DEF DA00!Bins
    <3>2. DA00!Step * b <= t - BinOffset /\ t - BinOffset < DA00!Step * b + DA00!Step
      BY <2>4, <3>1, <1>1
    <3> QED BY <3>1, <3>2, <2>1, <1>1, QuotientUnique
  <2>5. CASE i < BinCount
    <3>1. i \in DA00!Bins
      BY <2>2, <2>5, <1>1 DEF DA00!Bins
    <3>2. inside = {i}
      BY <2>3, <2>4, <3>1
    <3> QED BY <3>2, <2>5, <1>3 DEF DA00!binIndex, DA00!intervalOf
  <2>6. CASE ~(i < BinCount)
    <3>1. i \notin DA00!Bins
      BY <2>2, <2>6, <1>1 DEF DA00!Bins
    <3>2. inside = {}
      BY <3>1, <2>4
    <3>3. DA00!Step * BinCount <= DA00!Step * i
      BY <2>2, <2>6, <1>1
    <3>4. t >= from(BinCount)
      BY <3>3, <2>2, <1>1, <1>3
    <3> QED BY <3>2, <3>4, <2>6, <1>3 DEF DA00!binIndex, DA00!intervalOf
  <2> QED BY <2>5, <2>6
<1> QED BY <1>2, <1>3
-----------------------------------------------------------------------------
\* What the steps preserve: the iterator goes with the counter of frames, and the
\* axis is 0 until the first frame.
HistInv ==
  /\ ReferenceTime \in ReferenceTimes \cup {NoTime}
  /\ FrameCounter \in 0 .. AggregatedFrames - 1
  /\ iter = IF ReferenceTime = NoTime THEN DA00!end ELSE FrameCounter + 1
  /\ SummedAxis \in [DA00!Frames -> Int] /\ SummedData \in [DA00!Frames -> Nat]
  /\ DataBins \in [DA00!Bins -> [sum : Nat, count : Nat]]
  /\ ReferenceTime = NoTime =>
       /\ FrameCounter = 0 /\ histogram = NoHistogram /\ origin = NoTime
       /\ SummedAxis = [i \in DA00!Frames |-> 0] /\ SummedData = [i \in DA00!Frames |-> 0]
  /\ ReferenceTime # NoTime => origin \in ReferenceTimes
  /\ DA00!AxisIsTime

(***************************************************************************)
(* The axis.  Its type shows a number modulo AxisModulus, and so what is   *)
(* shown of a sum of numbers shown is what is shown of their sum.          *)
(***************************************************************************)
half == AxisModulus \div 2

LEMMA HalfAxis == half \in Nat /\ half < AxisModulus
<1>1. /\ half \in Nat /\ 2 * half <= AxisModulus
      /\ AxisModulus \in Nat \ {0}
  BY HistogramAssumption, DivisionBounds DEF half
<1> QED BY <1>1

\* Numbers that lie multiples of n apart have the same remainder.
LEMMA ModCongruent ==
  ASSUME NEW n \in Nat \ {0}, NEW a \in Int, NEW b \in Int, NEW k \in Int, a = b + n * k
  PROVE  a % n = b % n
<1> DEFINE p == a \div n  r == a % n  q == b \div n  s == b % n
<1>1. a = n * p + r /\ p \in Int /\ r \in 0 .. (n - 1)
  OBVIOUS
<1>2. b = n * q + s /\ q \in Int /\ s \in 0 .. (n - 1)
  OBVIOUS
<1> SUFFICES r = s
  OBVIOUS
<1> HIDE DEF p, q, r, s
<1> DEFINE d == p - q - k
<1>3. n * d = s - r /\ d \in Int
  <2>1. n * d = n * p - n * q - n * k
    BY <1>1, <1>2
  <2> QED BY <2>1, <1>1, <1>2
<1> HIDE DEF d
<1>4. s - r < n /\ r - s < n
  BY <1>1, <1>2
<1>5. CASE d <= -1
  <2>1. n * d <= -n
    BY <1>3, <1>5
  <2> QED BY <2>1, <1>1, <1>2, <1>3, <1>4
<1>6. CASE d = 0
  BY <1>1, <1>2, <1>3, <1>6
<1>7. CASE d >= 1
  <2>1. n * d >= n
    BY <1>3, <1>7
  <2> QED BY <2>1, <1>1, <1>2, <1>3, <1>4
<1> QED BY <1>3, <1>5, <1>6, <1>7

\* What is shown of a number differs from it by a multiple of the modulus.
LEMMA ShownCongruent ==
  ASSUME NEW a \in Int
  PROVE  DA00!wrap(a) \in Int /\ \E k \in Int : DA00!wrap(a) = a + AxisModulus * k
<1> DEFINE n == AxisModulus
           q == (a + half) \div n
           r == (a + half) % n
<1>1. n \in Nat \ {0} /\ half \in Nat /\ a + half \in Int
  BY HalfAxis, HistogramAssumption
<1> HIDE DEF n
<1>2. a + half = n * q + r /\ q \in Int /\ r \in 0 .. (n - 1)
  BY <1>1
<1>3. DA00!wrap(a) = r - half
  BY DEF DA00!wrap, half, n
<1> HIDE DEF q, r
<1>4. r - half = a + n * (-q) /\ -q \in Int
  BY <1>1, <1>2
<1>5. r - half \in Int
  BY <1>1, <1>2
<1> QED BY <1>3, <1>4, <1>5 DEF n

LEMMA ShownSum ==
  ASSUME NEW a \in Int, NEW b \in Int
  PROVE  DA00!wrap(DA00!wrap(a) + DA00!wrap(b)) = DA00!wrap(a + b)
<1> PICK k \in Int : DA00!wrap(a) = a + AxisModulus * k
  BY ShownCongruent
<1> PICK l \in Int : DA00!wrap(b) = b + AxisModulus * l
  BY ShownCongruent
<1> DEFINE c == DA00!wrap(a) + DA00!wrap(b) + half
<1>1. AxisModulus \in Nat \ {0} /\ half \in Nat /\ k + l \in Int
  BY HalfAxis, HistogramAssumption
<1>2. c = (a + b + half) + AxisModulus * (k + l)
  BY <1>1
<1>3. c \in Int /\ a + b + half \in Int
  BY <1>1, ShownCongruent
<1> HIDE DEF c
<1>4. c % AxisModulus = (a + b + half) % AxisModulus
  BY <1>1, <1>2, <1>3, ModCongruent
<1> QED BY <1>4 DEF c, DA00!wrap, half

\* The first frame is shown at 0.
LEMMA ShownZero == DA00!wrap(0) = 0
<1>1. half % AxisModulus = half
  BY HalfAxis, HistogramAssumption, ModOfSmall
<1> QED BY <1>1, HalfAxis DEF DA00!wrap, half

\* A sum of numbers, or its average, is a number.
LEMMA AggregatedNumber ==
  ASSUME NEW d \in [sum : Nat, count : Nat]
  PROVE  DA00!aggregated(d) \in Nat
<1>1. CASE d.count = 0 \/ Aggregation = "SUM"
  BY <1>1 DEF DA00!aggregated
<1>2. CASE d.count # 0 /\ Aggregation # "SUM"
  BY <1>2, DivisionBounds DEF DA00!aggregated
<1> QED BY <1>1, <1>2

\* A histogram that is sent is one.
LEMMA ProducedHistogram ==
  ASSUME HistInv, ReferenceTime # NoTime, DA00!produce
  PROVE  /\ DataBins' = DA00!NoData
         /\ DataBins' \in [DA00!Bins -> [sum : Nat, count : Nat]]
         /\ DataBins # DA00!NoData => histogram' # NoHistogram
<1>1. \A b \in DA00!Bins : DA00!aggregated(DataBins[b]) \in Nat
  BY AggregatedNumber DEF HistInv
<1>2. [b \in DA00!Bins |-> DA00!aggregated(DataBins[b])] \in [DA00!Bins -> Nat]
  BY <1>1
<1>3. DataBins' = DA00!NoData /\ DA00!NoData \in [DA00!Bins -> [sum : Nat, count : Nat]]
  BY DEF DA00!produce, DA00!NoData
<1>4. ASSUME DataBins # DA00!NoData PROVE histogram' # NoHistogram
  <2>1. histogram' = [time |-> ReferenceTime, axis |-> SummedAxis, totals |-> SummedData,
                      bins |-> [b \in DA00!Bins |-> DA00!aggregated(DataBins[b])]]
    BY <1>4 DEF DA00!produce
  <2>2. /\ ReferenceTime \in ReferenceTimes
        /\ SummedAxis \in [DA00!Frames -> Int] /\ SummedData \in [DA00!Frames -> Nat]
    BY DEF HistInv
  <2>3. histogram' \in [time : ReferenceTimes, axis : [DA00!Frames -> Int],
                        totals : [DA00!Frames -> Nat], bins : [DA00!Bins -> Nat]]
    BY <2>1, <2>2, <1>2
  <2> QED BY <2>3, HistogramAssumption DEF DA00!Bins, DA00!Frames
<1> QED BY <1>3, <1>4

LEMMA InitHistInv == DA00!Init => HistInv
<1> SUFFICES ASSUME DA00!Init PROVE HistInv
  OBVIOUS
<1>1. DataBins \in [DA00!Bins -> [sum : Nat, count : Nat]]
  BY DEF DA00!Init, DA00!NoData
<1> QED
  BY <1>1, HistogramAssumption DEF DA00!Init, HistInv, DA00!AxisIsTime, DA00!Frames

\* A step to the next frame moves the iterator with the counter, and puts the
\* frame where it is in time.
LEMMA NextFrameHistInv ==
  ASSUME HistInv, NEW t \in ReferenceTimes, ReferenceTime # NoTime, DA00!nextFrame(t)
  PROVE  HistInv'
<1>0. /\ AggregatedFrames \in Nat \ {0}
      /\ ReferenceTimes \subseteq Int /\ NoTime \notin ReferenceTimes
  BY HistogramAssumption
<1>1. /\ ReferenceTime' = t /\ t # NoTime /\ t \in Int
      /\ ReferenceTime \in ReferenceTimes /\ ReferenceTime \in Int
      /\ origin \in ReferenceTimes /\ origin' = origin /\ origin \in Int
  <2>1. ReferenceTime' = t /\ origin' = origin
    BY DEF DA00!nextFrame
  <2>2. ReferenceTime \in ReferenceTimes /\ origin \in ReferenceTimes
    BY DEF HistInv
  <2> QED BY <2>1, <2>2, <1>0
<1>2. /\ FrameCounter' \in 0 .. AggregatedFrames - 1
      /\ iter' = FrameCounter' + 1
  <2>1. CASE DA00!lastFrame
    BY <2>1, <1>0 DEF DA00!nextFrame
  <2>2. CASE ~DA00!lastFrame
    BY <2>2, <1>0 DEF DA00!nextFrame, DA00!lastFrame, HistInv
  <2> QED BY <2>1, <2>2
<1>3. iter' \in DA00!Frames
  <2>1. \A n \in 0 .. AggregatedFrames - 1 : n + 1 \in 1 .. AggregatedFrames
    BY <1>0
  <2> QED BY <2>1, <1>2 DEF DA00!Frames
<1>4. SummedAxis[iter] = DA00!wrap(ReferenceTime - origin)
  BY DEF HistInv, DA00!AxisIsTime
<1>5. DA00!place(t) = DA00!wrap(t - origin)
  <2>1. DA00!wrap(DA00!wrap(ReferenceTime - origin) + DA00!wrap(t - ReferenceTime))
          = DA00!wrap((ReferenceTime - origin) + (t - ReferenceTime))
    BY <1>1, ShownSum
  <2>2. (ReferenceTime - origin) + (t - ReferenceTime) = t - origin
    BY <1>1
  <2> QED BY <2>1, <2>2, <1>4 DEF DA00!place
<1>6. SummedAxis' = [SummedAxis EXCEPT ![iter'] = DA00!wrap(t - origin)]
  BY <1>5 DEF DA00!nextFrame
<1>7. SummedAxis' \in [DA00!Frames -> Int]
  <2>1. SummedAxis \in [DA00!Frames -> Int] /\ DA00!wrap(t - origin) \in Int
    BY <1>1, ShownCongruent DEF HistInv
  <2> QED BY <2>1, <1>6
<1>8. SummedAxis'[iter'] = DA00!wrap(t - origin)
  BY <1>6, <1>3 DEF HistInv
<1>9. SummedData' \in [DA00!Frames -> Nat]
  BY <1>3 DEF DA00!nextFrame, DA00!cleared, HistInv
<1>10. DataBins' \in [DA00!Bins -> [sum : Nat, count : Nat]]
  <2>1. CASE DA00!lastFrame
    BY <2>1, ProducedHistogram DEF DA00!nextFrame
  <2>2. CASE ~DA00!lastFrame
    BY <2>2 DEF DA00!nextFrame, HistInv
  <2> QED BY <2>1, <2>2
<1> QED BY <1>1, <1>2, <1>7, <1>8, <1>9, <1>10 DEF HistInv, DA00!AxisIsTime

LEMMA NextHistInv ==
  ASSUME HistInv, [DA00!Next]_(DA00!vars)
  PROVE  HistInv'
<1>1. CASE UNCHANGED DA00!vars
  BY <1>1 DEF HistInv, DA00!AxisIsTime, DA00!vars
<1>2. ASSUME NEW t \in Offsets, NEW v \in Values, DA00!addEvent(t, v),
             ReferenceTime # NoTime
      PROVE  HistInv'
  <2>1. v \in Nat
    BY HistogramAssumption
  <2>2. SummedData' \in [DA00!Frames -> Nat]
    BY <1>2, <2>1 DEF DA00!addEvent, HistInv
  <2>3. DataBins' \in [DA00!Bins -> [sum : Nat, count : Nat]]
    BY <1>2, <2>1 DEF DA00!addEvent, HistInv
  <2> QED BY <1>2, <2>2, <2>3 DEF DA00!addEvent, HistInv, DA00!AxisIsTime
<1>3. ASSUME NEW t \in ReferenceTimes, DA00!checkAndSetReferenceTime(t)
      PROVE  HistInv'
  <2>1. CASE ReferenceTime = NoTime
    <3>1. /\ ReferenceTime' = t /\ origin' = t /\ iter' = 1
          /\ FrameCounter' = 0 /\ SummedAxis' = [i \in DA00!Frames |-> 0]
      <4>1. ReferenceTime # t
        BY <2>1, HistogramAssumption
      <4> QED BY <4>1, <2>1, <1>3 DEF DA00!checkAndSetReferenceTime, HistInv
    <3>2. t # NoTime /\ t \in Int /\ 1 \in DA00!Frames
      BY HistogramAssumption DEF DA00!Frames
    <3>3. SummedAxis' \in [DA00!Frames -> Int] /\ SummedAxis'[1] = 0
      BY <3>1, <3>2
    <3>4. SummedData' \in [DA00!Frames -> Nat] /\ DataBins' \in [DA00!Bins -> [sum : Nat, count : Nat]]
      BY <2>1, <1>3, HistogramAssumption DEF DA00!checkAndSetReferenceTime, HistInv
    <3>5. DA00!wrap(t - t) = 0
      BY <3>2, ShownZero
    <3> QED BY <3>1, <3>2, <3>3, <3>4, <3>5, HistogramAssumption DEF HistInv, DA00!AxisIsTime
  <2>2. CASE ReferenceTime = t
    <3>1. UNCHANGED DA00!vars
      BY <2>2, <1>3, HistogramAssumption DEF DA00!checkAndSetReferenceTime, DA00!nextFrame
    <3> QED BY <3>1, <1>1
  <2>3. CASE ReferenceTime \notin {NoTime, t}
    <3>1. DA00!nextFrame(t)
      BY <2>3, <1>3 DEF DA00!checkAndSetReferenceTime
    <3> QED BY <3>1, <2>3, NextFrameHistInv
  <2> QED BY <2>1, <2>2, <2>3
<1> QED BY <1>1, <1>2, <1>3 DEF DA00!Next

\* Values are added at a valid iterator, and the axis gives the time of the frame
\* since the first one, however long that is ago, in whatever order the reference
\* times came: modulo AxisModulus, which is all that the axis' type can show.  (In
\* the beam monitors the axis overflows every 4.3 seconds.)
THEOREM AxisCorrect ==
  DA00!Spec => [](DA00!AxisIsTime /\ (ReferenceTime # NoTime => iter \in DA00!Frames))
<1>1. DA00!Init => HistInv
  BY InitHistInv
<1>2. HistInv /\ [DA00!Next]_(DA00!vars) => HistInv'
  BY NextHistInv
<1>3. HistInv => DA00!AxisIsTime /\ (ReferenceTime # NoTime => iter \in DA00!Frames)
  BY HistogramAssumption DEF HistInv, DA00!Frames
<1> QED BY <1>1, <1>2, <1>3, PTL DEF DA00!Spec
-----------------------------------------------------------------------------
(***************************************************************************)
(* The refinement.  The frames of a stream are those up to the iterator.   *)
(***************************************************************************)
frame(i) == [time |-> SummedAxis[i], total |-> SummedData[i]]
framesSoFar == IF ReferenceTime = NoTime THEN <<>> ELSE [i \in 1 .. iter |-> frame(i)]
published ==
  IF histogram = NoHistogram THEN NoHistogram
  ELSE [times |-> histogram.axis, totals |-> histogram.totals, bins |-> histogram.bins]

LEMMA HistInitRefines == DA00!Init => DA00!Stream!Init
  BY DEF DA00!Init, DA00!Stream!Init, DA00!Stream!Empty, DA00!NoData

LEMMA IterIsFrame ==
  ASSUME HistInv, ReferenceTime # NoTime
  PROVE  /\ iter \in Nat \ {0} /\ iter \in DA00!Frames
         /\ 1 .. iter \subseteq DA00!Frames
<1>1. AggregatedFrames \in Nat \ {0} /\ FrameCounter \in 0 .. AggregatedFrames - 1
      /\ iter = FrameCounter + 1
  BY HistogramAssumption DEF HistInv
<1> QED BY <1>1 DEF DA00!Frames

\* A value in one of the bins is added to the bin of its time and to the total of
\* the latest frame.
LEMMA AddRefines ==
  ASSUME HistInv, NEW t \in Offsets, NEW v \in Values, DA00!addEvent(t, v),
         ReferenceTime # NoTime
  PROVE  DA00!Stream!Add(t, v) \/ UNCHANGED DA00!Stream!vars
<1>1. /\ UNCHANGED <<ReferenceTime, iter, SummedAxis, histogram, origin>>
      /\ DA00!binIndex(t) = DA00!intervalOf(t)
      /\ iter \in Nat \ {0} /\ iter \in DA00!Frames /\ 1 .. iter \subseteq DA00!Frames
  <2>1. UNCHANGED <<ReferenceTime, iter, SummedAxis, histogram, origin>>
    BY DEF DA00!addEvent
  <2>2. DA00!binIndex(t) = DA00!intervalOf(t)
    BY BinIsInterval, HistogramAssumption
  <2> QED BY <2>1, <2>2, IterIsFrame
<1>2. CASE DA00!binIndex(t) = NoBin
  BY <1>1, <1>2 DEF DA00!addEvent, DA00!Stream!vars
<1>3. CASE DA00!binIndex(t) # NoBin
  <2>1. DA00!intervalOf(t) \in DA00!Bins
    <3>1. t - BinOffset < 0 \/ (t - BinOffset) \div DA00!Step \in Nat
      BY StepPositive, HistogramAssumption, DivisionBounds
    <3> QED BY <3>1, <1>1, <1>3, HistogramAssumption DEF DA00!binIndex, DA00!Bins
  <2>2. /\ DataBins' = [DataBins EXCEPT ![DA00!intervalOf(t)] =
                          [sum |-> @.sum + v, count |-> @.count + 1]]
        /\ SummedData' = [SummedData EXCEPT ![iter] = @ + v]
    BY <1>1, <1>3 DEF DA00!addEvent
  <2>3. framesSoFar \in Seq([time : Int, total : Nat]) /\ Len(framesSoFar) = iter
    <3>1. framesSoFar = [i \in 1 .. iter |-> frame(i)]
      BY DEF framesSoFar
    <3>2. \A i \in 1 .. iter : frame(i) \in [time : Int, total : Nat]
      <4>1. \A i \in 1 .. iter : SummedAxis[i] \in Int /\ SummedData[i] \in Nat
        BY <1>1 DEF HistInv
      <4> QED BY <4>1 DEF frame
    <3> HIDE DEF frame, framesSoFar
    <3>3. framesSoFar \in [1 .. iter -> [time : Int, total : Nat]]
      BY <3>1, <3>2
    <3> QED BY <3>3, <1>1, FunctionIsSeq
  <2>4. framesSoFar' = [framesSoFar EXCEPT ![iter].total = @ + v]
    BY <1>1, <2>2 DEF framesSoFar, frame, HistInv
  <2>5. framesSoFar # <<>>
    BY <2>3, <1>1
  <2> HIDE DEF framesSoFar
  <2> QED BY <2>1, <2>2, <2>3, <2>4, <2>5, <1>1 DEF DA00!Stream!Add, framesSoFar, frame
<1> QED BY <1>2, <1>3

\* A new pulse is a new frame, which follows the others or starts the next
\* histogram.
LEMMA FrameRefines ==
  ASSUME HistInv, NEW t \in ReferenceTimes, ReferenceTime # NoTime,
         DA00!nextFrame(t)
  PROVE  DA00!Stream!NewFrame(t)
<1> DEFINE new == [time |-> DA00!wrap(t - origin), total |-> 0]
<1>1. /\ iter \in Nat \ {0} /\ iter \in DA00!Frames
      /\ 1 .. iter \subseteq DA00!Frames
  BY IterIsFrame
<1>2. /\ origin' = origin /\ ReferenceTime' = t /\ ReferenceTime' # NoTime
      /\ origin \in Nat /\ t \in Nat /\ origin # NoTime
  <2>1. origin \in ReferenceTimes
    BY DEF HistInv
  <2> QED BY <2>1, HistogramAssumption DEF DA00!nextFrame
<1>3. HistInv' /\ iter' \in DA00!Frames
  <2>1. HistInv'
    BY NextFrameHistInv
  <2>2. FrameCounter' \in 0 .. AggregatedFrames - 1 /\ iter' = FrameCounter' + 1
    BY <2>1, <1>2 DEF HistInv
  <2>3. \A n \in 0 .. AggregatedFrames - 1 : n + 1 \in 1 .. AggregatedFrames
    BY HistogramAssumption
  <2> QED BY <2>1, <2>2, <2>3 DEF DA00!Frames
<1> PICK k \in DA00!Frames : k = iter'
  BY <1>3
<1>4. SummedAxis'[k] = DA00!wrap(t - origin)
  BY <1>2, <1>3 DEF HistInv, DA00!AxisIsTime
<1>5. SummedData'[k] = 0
      /\ \A i \in DA00!Frames \ {k} :
           SummedData'[i] = SummedData[i] /\ SummedAxis'[i] = SummedAxis[i]
  BY <1>3 DEF DA00!nextFrame, DA00!cleared, HistInv
<1>6. frame(k)' = new
  BY <1>2, <1>4, <1>5 DEF frame
<1>7. framesSoFar = [i \in 1 .. iter |-> frame(i)]
      /\ framesSoFar' = [i \in 1 .. k |-> frame(i)']
  BY <1>2 DEF framesSoFar
<1>8. Len(framesSoFar) = iter
  BY <1>1, <1>7
<1> HIDE DEF framesSoFar, frame
<1>9. CASE ~DA00!lastFrame
  <2>1. iter' = iter + 1 /\ UNCHANGED <<DataBins, histogram>> /\ iter < AggregatedFrames
    <3>1. AggregatedFrames \in Nat /\ FrameCounter \in Nat /\ iter = FrameCounter + 1
      BY HistogramAssumption DEF HistInv
    <3> QED BY <1>9, <3>1 DEF DA00!nextFrame, DA00!lastFrame
  <2>2. \A i \in 1 .. iter : frame(i)' = frame(i)
    BY <1>1, <1>2, <1>5, <2>1 DEF frame
  <2>3. framesSoFar' = Append(framesSoFar, new)
    <3>1. framesSoFar' = [i \in 1 .. iter + 1 |-> frame(i)']
      BY <1>7, <2>1
    <3>2. \A i \in 1 .. iter + 1 : frame(i)' = IF i <= iter THEN frame(i) ELSE new
      <4>1. \A i \in 1 .. iter + 1 : i \in 1 .. iter \/ i = k
        BY <1>1, <2>1
      <4> QED BY <4>1, <1>1, <1>6, <2>1, <2>2
    <3>3. framesSoFar' = [i \in 1 .. iter + 1 |-> IF i <= iter THEN frame(i) ELSE new]
      BY <3>1, <3>2
    <3> HIDE DEF new
    <3>4. Append([i \in 1 .. iter |-> frame(i)], new)
            = [i \in 1 .. iter + 1 |-> IF i <= iter THEN frame(i) ELSE new]
      BY <1>1
    <3> QED BY <3>3, <3>4, <1>7
  <2> QED BY <2>1, <2>3, <1>8, <1>2 DEF DA00!Stream!NewFrame, framesSoFar, frame
<1>10. CASE DA00!lastFrame
  <2>1. iter' = 1 /\ iter = AggregatedFrames /\ DA00!produce
    <3>1. AggregatedFrames \in Nat /\ FrameCounter \in 0 .. AggregatedFrames - 1
          /\ iter = FrameCounter + 1
      BY HistogramAssumption DEF HistInv
    <3> QED BY <1>10, <3>1 DEF DA00!nextFrame, DA00!lastFrame
  <2>2. framesSoFar' = <<new>>
    <3>1. framesSoFar' = [i \in 1 .. 1 |-> new]
      BY <1>6, <1>7, <2>1
    <3> QED BY <3>1
  <2>3. /\ DataBins' = DA00!NoData
        /\ DataBins # DA00!NoData => histogram' # NoHistogram
    BY <2>1, ProducedHistogram
  <2>4. \A i \in 1 .. AggregatedFrames :
          framesSoFar[i].time = SummedAxis[i] /\ framesSoFar[i].total = SummedData[i]
    BY <1>7, <2>1 DEF frame
  <2>5. CASE DataBins = DA00!NoData
    <3>1. published' = published
      BY <2>1, <2>5, <1>2 DEF DA00!produce, published
    <3>2. DA00!Stream!Send
      BY <3>1, <2>3, <2>5
         DEF DA00!Stream!Send, DA00!Stream!Empty, DA00!NoData, published
    <3> QED BY <3>2, <2>1, <2>2, <1>8, <1>1, <1>2 DEF DA00!Stream!NewFrame, framesSoFar, frame
  <2>6. CASE DataBins # DA00!NoData
    <3>1. histogram' = [time |-> ReferenceTime, axis |-> SummedAxis, totals |-> SummedData,
                        bins |-> [b \in DA00!Bins |-> DA00!aggregated(DataBins[b])]]
      BY <2>1, <2>6 DEF DA00!produce
    <3>2. published' = [times |-> [i \in 1 .. AggregatedFrames |-> framesSoFar[i].time],
                        totals |-> [i \in 1 .. AggregatedFrames |-> framesSoFar[i].total],
                        bins |-> [b \in DA00!Bins |-> DA00!aggregated(DataBins[b])]]
      <4>1. published' = [times |-> SummedAxis,
                          totals |-> SummedData,
                          bins |-> [b \in DA00!Bins |-> DA00!aggregated(DataBins[b])]]
        BY <3>1, <2>3, <2>6, <1>2 DEF published
      <4>2. /\ SummedData = [i \in DA00!Frames |-> SummedData[i]]
            /\ SummedAxis = [i \in DA00!Frames |-> SummedAxis[i]]
        BY DEF HistInv
      <4> QED BY <4>1, <4>2, <2>4 DEF DA00!Frames
    <3>3. DA00!Stream!Send
      BY <3>2, <2>3, <2>6
         DEF DA00!Stream!Send, DA00!Stream!Empty, DA00!NoData, published, framesSoFar, frame
    <3> QED BY <3>3, <2>1, <2>2, <1>8, <1>1, <1>2 DEF DA00!Stream!NewFrame, framesSoFar, frame
  <2> QED BY <2>5, <2>6
<1> QED BY <1>9, <1>10

\* The first pulse is a frame of its own.
LEMMA FirstFrameRefines ==
  ASSUME HistInv, NEW t \in ReferenceTimes, ReferenceTime = NoTime,
         DA00!checkAndSetReferenceTime(t)
  PROVE  DA00!Stream!NewFrame(t)
<1>1. /\ UNCHANGED <<SummedAxis, SummedData, DataBins, histogram>>
      /\ iter' = 1 /\ origin' = t /\ ReferenceTime' = t /\ t # NoTime /\ t \in Nat
      /\ SummedAxis[1] = 0 /\ SummedData[1] = 0 /\ histogram = NoHistogram /\ origin = NoTime
  <2>1. t # NoTime /\ t \in Nat /\ 1 \in DA00!Frames
    BY HistogramAssumption DEF DA00!Frames
  <2> QED BY <2>1 DEF DA00!checkAndSetReferenceTime, HistInv
<1>2. framesSoFar = <<>> /\ published = NoHistogram /\ published' = NoHistogram
  BY <1>1 DEF framesSoFar, published
<1>3. framesSoFar' = <<[time |-> 0, total |-> 0]>>
  <2>1. framesSoFar' = [i \in 1 .. 1 |-> frame(i)']
    BY <1>1 DEF framesSoFar
  <2>2. \A i \in 1 .. 1 : frame(i)' = [time |-> 0, total |-> 0]
    BY <1>1 DEF frame
  <2> QED BY <2>1, <2>2
<1>4. 0 < AggregatedFrames
  BY HistogramAssumption
<1>5. DA00!wrap(t - t) = 0
  BY <1>1, ShownZero
<1> QED BY <1>1, <1>2, <1>3, <1>4, <1>5 DEF DA00!Stream!NewFrame, framesSoFar, frame, published

LEMMA HistStepRefines ==
  ASSUME HistInv, [DA00!Next]_(DA00!vars)
  PROVE  [DA00!Stream!Next]_(DA00!Stream!vars)
<1>1. CASE UNCHANGED DA00!vars
  BY <1>1 DEF DA00!vars, DA00!Stream!vars
<1>2. ASSUME NEW t \in Offsets, NEW v \in Values, DA00!addEvent(t, v),
             ReferenceTime # NoTime
      PROVE  DA00!Stream!Next \/ UNCHANGED DA00!Stream!vars
  BY <1>2, AddRefines DEF DA00!Stream!Next
<1>3. ASSUME NEW t \in ReferenceTimes, DA00!checkAndSetReferenceTime(t)
      PROVE  DA00!Stream!Next \/ UNCHANGED DA00!Stream!vars
  <2>1. CASE ReferenceTime = NoTime
    BY <2>1, <1>3, FirstFrameRefines DEF DA00!Stream!Next
  <2>2. CASE ReferenceTime # NoTime
    <3>1. UNCHANGED DA00!vars \/ DA00!nextFrame(t)
      BY <2>2, <1>3 DEF DA00!checkAndSetReferenceTime
    <3>2. CASE DA00!nextFrame(t)
      BY <3>2, <2>2, FrameRefines DEF DA00!Stream!Next
    <3> QED BY <3>1, <3>2, <1>1
  <2> QED BY <2>1, <2>2
<1> QED BY <1>1, <1>2, <1>3 DEF DA00!Next

\* The histogram serializer is a FrameStream: the values added in AggregatedFrames
\* frames leave as one histogram, none of them twice, in the bin of another time or
\* in the total of another frame, and each frame with its time since the first, as
\* far as the axis' type shows it.
THEOREM HistogramRefinement ==
  DA00!Spec => ImplementsFrameStream
<1>1. DA00!Init => HistInv
  BY InitHistInv
<1>2. HistInv /\ [DA00!Next]_(DA00!vars) => HistInv'
  BY NextHistInv
<1>3. DA00!Init => DA00!Stream!Init
  BY HistInitRefines
<1>4. HistInv /\ [DA00!Next]_(DA00!vars) => [DA00!Stream!Next]_(DA00!Stream!vars)
  BY HistStepRefines
<1> QED BY <1>1, <1>2, <1>3, <1>4, PTL DEF DA00!Spec, ImplementsFrameStream, DA00!Stream!Spec
-----------------------------------------------------------------------------
(***************************************************************************)
(* The processing thread.                                                  *)
(***************************************************************************)
\* What the two serializers can be given: any time of flight, value and pixel.
AllCanBeAdded ==
  /\ [time : Nat, pixel : Int] \subseteq Events
  /\ Offsets = Nat /\ Values = Nat

\* An entry of a topology that was not refused.
SoundEntries ==
  {e \in Entries : /\ e.schema \in {"DA00", "EV44"}
                   /\ e.type = "EVENT_2D" => /\ e.schema = "EV44"
                                             /\ e.width \in Nat /\ e.height \in Nat}

\* Readouts are processed under the pulse of their packet.
CbmInv ==
  /\ \A n \in DOMAIN monitors : monitors[n] \in SoundEntries
  /\ todo \in Seq(Readouts)
  /\ reference \in [time : Nat, prev : Nat]
  /\ todo # <<>> => ReferenceTime # NoTime

LEMMA GoodType ==
  ASSUME NEW data \in Seq(Readouts)
  PROVE  good(data) \in Seq(Readouts)
<1> DEFINE bad == {i \in DOMAIN data : data[i].flaw # None}
<1>1. CASE bad = {}
  BY <1>1 DEF good
<1>2. CASE bad # {}
  <2>1. bad \in SUBSET Nat
    OBVIOUS
  <2> HIDE DEF bad
  <2>2. Min(bad) \in bad
    BY <1>2, <2>1, MinIsSmallest
  <2>3. Min(bad) \in 1 .. Len(data)
    BY <2>2 DEF bad
  <2>4. SubSeq(data, 1, Min(bad) - 1) \in Seq(Readouts)
    BY <2>3
  <2> QED BY <2>4, <1>2 DEF good, bad
<1> QED BY <1>1, <1>2

\* A time of flight that is valid is a number.
LEMMA TofType ==
  ASSUME CbmInv, NEW r \in Readouts, tofOf(r).tof # InvalidTof
  PROVE  tofOf(r).tof \in Nat
<1>1. /\ r.time \in Nat /\ reference.time \in Nat /\ reference.prev \in Nat
      /\ MaxTOF \in Nat
  BY CbmAssumption DEF CbmInv, Readouts
<1>2. \A pulse \in Nat : \A names \in {TofNames, PrevTofNames} :
          LET o == outcome(r.time, pulse, MaxTOF, names)
          IN  o = names[3] => r.time - pulse \in Nat
  BY <1>1 DEF outcome, TofNames, PrevTofNames
<1> QED BY <1>1, <1>2 DEF tofOf, getTOF, getPrevTOF, TofNames, PrevTofNames

\* A readout that no check failed is one of the monitor that is looked up for it.
LEMMA PassedChecks ==
  ASSUME NEW r, failures(r) = {}
  PROVE  /\ Known(r) /\ r.type = monitor(r).type
         /\ r.type = "EVENT_2D" => r.x < monitor(r).width /\ r.y < monitor(r).height
<1>1. DOMAIN checks(r) = 1 .. 7
  BY DEF checks
<1>2. \A n \in 1 .. 7 : checks(r)[n].ok
  BY <1>1 DEF failures
<1>3. checks(r)[4].ok /\ checks(r)[5].ok /\ checks(r)[6].ok /\ checks(r)[7].ok
  BY <1>2
<1> QED BY <1>3 DEF checks

LEMMA ValueType ==
  ASSUME NEW r \in Readouts
  PROVE  normADC(r) \in Nat
<1>1. r.adc \in Nat /\ r.sum \in Nat
  BY DEF Readouts
<1>2. CASE r.sum = 0
  BY <1>1, <1>2 DEF normADC
<1>3. CASE r.sum # 0
  BY <1>1, <1>3, DivisionBounds DEF normADC
<1> QED BY <1>2, <1>3

LEMMA PixelType ==
  ASSUME CbmInv, NEW r \in Readouts, failures(r) = {}
  PROVE  calcPixel(r) \in Int
<1>1. /\ monitor(r) \in SoundEntries
      /\ r.type = monitor(r).type
  BY PassedChecks DEF CbmInv, Known, monitor
<1>2. /\ monitor(r).offset \in Int
      /\ r.type = "EVENT_2D" => monitor(r).width \in Nat
  BY <1>1 DEF SoundEntries, Entries
<1>3. r.x \in Nat /\ r.y \in Nat
  BY DEF Readouts
<1>4. CASE r.type = "EVENT_2D"
  <2>1. r.y * monitor(r).width \in Nat
    BY <1>2, <1>3, <1>4
  <2> QED BY <2>1, <1>2, <1>3, <1>4 DEF calcPixel
<1>5. CASE r.type # "EVENT_2D"
  BY <1>2, <1>5 DEF calcPixel
<1> QED BY <1>4, <1>5

LEMMA InitCbmInv == CbmInit => CbmInv
<1> SUFFICES ASSUME CbmInit PROVE CbmInv
  OBVIOUS
<1>1. PICK entries \in Configurations : accepted(entries) /\ monitors = monitorMap(entries)
  BY DEF CbmInit
<1>2. entries \in Seq(Entries)
  BY CbmAssumption
<1>3. \A e \in ToSet(entries) : e \in SoundEntries
  BY <1>1, <1>2 DEF accepted, ToSet, SoundEntries
<1>4. \A n \in DOMAIN monitors : monitors[n] \in SoundEntries
  BY <1>1, <1>3 DEF monitorMap
<1> QED BY <1>4 DEF CbmInit, CbmInv

\* A pulse is given to both serializers, ...
LEMMA ReceiveComposes ==
  ASSUME NEW p \in Packets, ReceivePacket(p)
  PROVE  /\ [Next]_vars /\ [DA00!Next]_(DA00!vars)
         /\ ReferenceTime' # NoTime
<1>1. p.time \in Times /\ p.time \in ReferenceTimes /\ NoTime \notin ReferenceTimes
  BY CbmAssumption, HistogramAssumption
<1>2. [DA00!Next]_(DA00!vars)
  BY <1>1 DEF ReceivePacket, DA00!Next
<1>3. [Next]_vars
  BY <1>1 DEF ReceivePacket, Next
<1>4. ReferenceTime' = p.time
  BY DEF ReceivePacket, DA00!checkAndSetReferenceTime, DA00!nextFrame, DA00!vars
<1> QED BY <1>1, <1>2, <1>3, <1>4

\* ... a readout to one of them, ...
LEMMA AddComposes ==
  ASSUME CbmInv, AllCanBeAdded, NEW r \in Readouts, Add(r), ReferenceTime # NoTime
  PROVE  [Next]_vars /\ [DA00!Next]_(DA00!vars)
<1>1. tofOf(r).tof \in Nat /\ normADC(r) \in Nat /\ calcPixel(r) \in Int
  BY TofType, ValueType, PixelType DEF Add
<1>2. CASE monitor(r).schema = "DA00"
  <2> DEFINE v == IF r.type = "IBM" THEN normADC(r) ELSE 1
  <2>1. DA00!addEvent(tofOf(r).tof, v) /\ UNCHANGED vars
    BY <1>2 DEF Add
  <2>2. tofOf(r).tof \in Offsets /\ v \in Values
    BY <1>1 DEF AllCanBeAdded
  <2> HIDE DEF v
  <2> QED BY <2>1, <2>2 DEF DA00!Next
<1>3. CASE monitor(r).schema # "DA00"
  <2> DEFINE e == [time |-> tofOf(r).tof,
                   pixel |-> IF r.type = "IBM" THEN normADC(r) ELSE calcPixel(r)]
  <2>1. addEvent(e) /\ UNCHANGED DA00!vars
    BY <1>3 DEF Add, da00Vars, DA00!vars
  <2>2. e \in Events
    BY <1>1 DEF AllCanBeAdded
  <2> HIDE DEF e
  <2> QED BY <2>1, <2>2 DEF Next
<1> QED BY <1>2, <1>3

LEMMA CbmComposes ==
  ASSUME CbmInv, AllCanBeAdded, [CbmNext]_cbmVars
  PROVE  [Next]_vars /\ [DA00!Next]_(DA00!vars)
<1>1. ASSUME NEW p \in Packets, ReceivePacket(p)
      PROVE  [Next]_vars /\ [DA00!Next]_(DA00!vars)
  BY <1>1, ReceiveComposes
<1>2. CASE ProcessReadout
  <2>1. Head(todo) \in Readouts /\ ReferenceTime # NoTime
    BY <1>2 DEF ProcessReadout, CbmInv
  <2>2. CASE Drop(Head(todo))
    BY <2>2 DEF Drop, da00Vars, DA00!vars
  <2>3. CASE Add(Head(todo))
    BY <2>1, <2>3, AddComposes
  <2> QED BY <1>2, <2>2, <2>3 DEF ProcessReadout
\* ... and the timer looks at the events only.
<1>3. CASE ProduceTimeout
  BY <1>3 DEF ProduceTimeout, Next, da00Vars, DA00!vars
<1>4. CASE UNCHANGED cbmVars
  BY <1>4 DEF cbmVars, da00Vars, DA00!vars
<1> QED BY <1>1, <1>2, <1>3, <1>4 DEF CbmNext

LEMMA NextCbmInv ==
  ASSUME CbmInv, [CbmNext]_cbmVars
  PROVE  CbmInv'
<1>1. ASSUME NEW p \in Packets, ReceivePacket(p)
      PROVE  CbmInv'
  <2>1. p \in [time : Times, prev : Nat, whole : BOOLEAN, data : Seq(Readouts)]
        /\ p.time \in Nat
    BY CbmAssumption, HistogramAssumption
  <2>2. todo' \in Seq(Readouts)
    BY <1>1, <2>1, GoodType DEF ReceivePacket
  <2>3. ReferenceTime' # NoTime
    BY <1>1, ReceiveComposes
  <2> QED BY <1>1, <2>1, <2>2, <2>3 DEF ReceivePacket, CbmInv
<1>2. CASE ProcessReadout
  <2>1. todo' \in Seq(Readouts) /\ UNCHANGED <<monitors, reference>> /\ ReferenceTime # NoTime
    BY <1>2 DEF ProcessReadout, CbmInv
  <2>2. UNCHANGED ReferenceTime
    BY <1>2 DEF ProcessReadout, Drop, Add, da00Vars, DA00!addEvent
  <2> QED BY <2>1, <2>2 DEF CbmInv
<1>3. CASE ProduceTimeout
  BY <1>3 DEF ProduceTimeout, CbmInv, da00Vars
<1>4. CASE UNCHANGED cbmVars
  BY <1>4 DEF cbmVars, CbmInv, da00Vars
<1> QED BY <1>1, <1>2, <1>3, <1>4 DEF CbmNext

LEMMA CbmInvariance == CbmSpec => []CbmInv
<1>1. CbmInit => CbmInv
  BY InitCbmInv
<1>2. CbmInv /\ [CbmNext]_cbmVars => CbmInv'
  BY NextCbmInv
<1> QED BY <1>1, <1>2, PTL DEF CbmSpec

\* Whatever the packets, the readouts in them and the topology, each step of the
\* beam monitors is one of the event serializer: its events leave once, in
\* order and under the time of their pulse.
THEOREM EventsStream ==
  ASSUME AllCanBeAdded
  PROVE  CbmSpec => ImplementsEventStream
<1>1. CbmInit => Init
  BY DEF CbmInit
<1>2. CbmInv /\ [CbmNext]_cbmVars => [Next]_vars
  BY CbmComposes
<1>3. CbmSpec => Spec
  BY <1>1, <1>2, CbmInvariance, PTL DEF CbmSpec, Spec
<1> QED BY <1>3, Refinement

\* ... and of the histogram serializer, which is never given a value before its
\* first reference time: no value is counted twice, in another bin or in another
\* frame, and each frame bears its time since the first of all.
THEOREM FramesStream ==
  ASSUME AllCanBeAdded
  PROVE  CbmSpec => ImplementsFrameStream
<1>1. CbmInit => DA00!Init
  BY DEF CbmInit
<1>2. CbmInv /\ [CbmNext]_cbmVars => [DA00!Next]_(DA00!vars)
  BY CbmComposes
<1>3. CbmSpec => DA00!Spec
  BY <1>1, <1>2, CbmInvariance, PTL DEF CbmSpec, DA00!Spec
<1> QED BY <1>3, HistogramRefinement
-----------------------------------------------------------------------------
\* The monitor with events has them in the buffer, and there is no other.
PixelInv ==
  /\ CbmInv
  /\ EventCount \in Nat
  /\ \A m, n \in DOMAIN monitors :
       monitors[m].schema = "EV44" /\ monitors[n].schema = "EV44" => monitors[m] = monitors[n]
  /\ EventsHavePixels

\* Row by row, the pixels of a monitor are numbered without holes or overlaps.
LEMMA PixelInArea ==
  ASSUME NEW w \in Nat, NEW h \in Nat, NEW x \in Nat, NEW y \in Nat, x < w, y < h
  PROVE  y * w + x + 1 \in 1 .. w * h
<1>1. (y + 1) * w <= h * w
  BY y + 1 <= h
<1>2. (y + 1) * w = y * w + w /\ h * w = w * h
  OBVIOUS
<1>3. y * w \in Nat /\ w * h \in Nat
  OBVIOUS
<1> DEFINE a == y * w
           b == w * h
<1>4. a \in Nat /\ b \in Nat /\ a + w <= b
  BY <1>1, <1>2, <1>3
<1> HIDE DEF a, b
<1>5. a + x + 1 \in 1 .. b
  BY <1>4
<1> QED BY <1>5 DEF a, b

LEMMA PixelOfMonitor ==
  ASSUME CbmInv, NEW r \in Readouts, failures(r) = {}, r.type # "IBM"
  PROVE  pixelOf(calcPixel(r), monitor(r))
<1>1. /\ monitor(r) \in SoundEntries /\ r.type = monitor(r).type
      /\ r.type = "EVENT_2D" => r.x < monitor(r).width /\ r.y < monitor(r).height
  BY PassedChecks DEF CbmInv, Known, monitor
<1>2. r.x \in Nat /\ r.y \in Nat /\ monitor(r).offset \in Int
  BY <1>1 DEF Readouts, SoundEntries, Entries
<1>3. CASE r.type = "EVENT_2D"
  <2> DEFINE n == r.y * monitor(r).width + r.x + 1
             area == monitor(r).width * monitor(r).height
  <2>1. monitor(r).width \in Nat /\ monitor(r).height \in Nat
    BY <1>1, <1>3 DEF SoundEntries
  <2>2. n \in 1 .. area
    BY <1>1, <1>2, <1>3, <2>1, PixelInArea
  <2>3. calcPixel(r) = monitor(r).offset + n
    <3>1. r.y * monitor(r).width \in Int
      BY <1>2, <2>1
    <3> QED BY <3>1, <1>2, <1>3 DEF calcPixel
  <2> HIDE DEF n, area
  <2>4. n \in Int
    BY <2>2
  <2>5. calcPixel(r) - monitor(r).offset = n
    BY <2>3, <2>4, <1>2
  <2> QED BY <2>2, <2>5, <1>1, <1>3 DEF pixelOf, area
<1>4. CASE r.type # "EVENT_2D"
  BY <1>1, <1>4 DEF calcPixel, pixelOf
<1> QED BY <1>3, <1>4

LEMMA InitPixelInv == CbmInit => PixelInv
<1> SUFFICES ASSUME CbmInit PROVE PixelInv
  OBVIOUS
<1>1. PICK entries \in Configurations : accepted(entries) /\ monitors = monitorMap(entries)
  BY DEF CbmInit
<1>2. \A n \in DOMAIN monitors : monitors[n] \in ToSet(entries)
  BY <1>1 DEF monitorMap
<1>3. \A m, n \in DOMAIN monitors :
        monitors[m].schema = monitors[n].schema => monitors[m] = monitors[n]
  BY <1>1, <1>2, MonitorsAssumption
<1>4. EventCount = 0
  BY DEF CbmInit, Init
<1> QED BY <1>3, <1>4, InitCbmInv DEF PixelInv, EventsHavePixels

\* Steps that add no event leave the buffer as it is or empty it.
LEMMA NoNewEvent ==
  ASSUME PixelInv, UNCHANGED <<monitors, events>>, EventCount' \in {0, EventCount}, CbmInv'
  PROVE  PixelInv'
<1>1. EventCount' \in Nat /\ 1 .. EventCount' \subseteq 1 .. EventCount
  BY DEF PixelInv
<1> QED BY <1>1 DEF PixelInv, EventsHavePixels

LEMMA AddPixelInv ==
  ASSUME PixelInv, CbmInv', EventInv, NEW r \in Readouts, Add(r), UNCHANGED monitors
  PROVE  PixelInv'
<1>1. CASE monitor(r).schema = "DA00"
  BY <1>1, NoNewEvent DEF Add, vars
<1>2. CASE monitor(r).schema # "DA00"
  <2> DEFINE pixel == IF r.type = "IBM" THEN normADC(r) ELSE calcPixel(r)
             n == EventCount + 1
  <2>1. addEvent([time |-> tofOf(r).tof, pixel |-> pixel])
    BY <1>2 DEF Add
  <2>2. EventCount \in 0 .. MaxEvents - 1 /\ DOMAIN events = 1 .. MaxEvents
    BY DEF EventInv, TypeOK
  <2>3. n \in 1 .. MaxEvents /\ EventCount' \in {0, n}
    BY <2>1, <2>2, SerializerAssumption DEF addEvent, Produce
  <2>4. events' = [events EXCEPT ![n] = [time |-> tofOf(r).tof, pixel |-> pixel]]
    BY <2>1 DEF addEvent
  <2>5. events'[n].pixel = pixel /\ \A i \in 1 .. EventCount : events'[i] = events[i]
    BY <2>2, <2>3, <2>4
  <2>6. monitor(r) \in SoundEntries /\ monitor(r).schema = "EV44" /\ Known(r)
    BY <1>2, PassedChecks DEF Add, PixelInv, CbmInv, Known, monitor, SoundEntries
  <2>7. pixelOf(pixel, monitor(r))
    <3>1. CASE r.type = "IBM"
      BY <3>1, PassedChecks DEF Add, pixelOf
    <3>2. CASE r.type # "IBM"
      BY <3>2, PixelOfMonitor DEF Add, PixelInv
    <3> QED BY <3>1, <3>2
  <2> HIDE DEF pixel
  <2>8. ASSUME NEW k \in DOMAIN monitors, monitors[k].schema = "EV44"
        PROVE  monitors[k] = monitor(r)
    BY <2>6, <2>8 DEF PixelInv, Known, monitor
  <2>9. ASSUME NEW k \in DOMAIN monitors, NEW i \in 1 .. EventCount',
               monitors[k].schema = "EV44"
        PROVE  pixelOf(events'[i].pixel, monitors[k])
    <3>1. i \in 1 .. EventCount \/ i = n
      BY <2>2, <2>3
    <3>2. CASE i = n
      BY <3>2, <2>5, <2>7, <2>8, <2>9
    <3>3. CASE i \in 1 .. EventCount
      BY <3>3, <2>5, <2>9 DEF PixelInv, EventsHavePixels
    <3> QED BY <3>1, <3>2, <3>3
  <2>10. EventCount' \in Nat
    BY <2>2, <2>3
  <2> QED BY <2>9, <2>10 DEF PixelInv, EventsHavePixels
<1> QED BY <1>1, <1>2

LEMMA NextPixelInv ==
  ASSUME PixelInv, EventInv, [CbmNext]_cbmVars
  PROVE  PixelInv'
<1>0. CbmInv'
  BY NextCbmInv DEF PixelInv
<1>1. ASSUME NEW p \in Packets, ReceivePacket(p)
      PROVE  PixelInv'
  <2>1. UNCHANGED <<monitors, events>> /\ EventCount' \in {0, EventCount}
    BY <1>1 DEF ReceivePacket, checkAndSetReferenceTime, Produce, vars
  <2> QED BY <2>1, <1>0, NoNewEvent
<1>2. CASE ProcessReadout
  <2>1. Head(todo) \in Readouts /\ UNCHANGED monitors
    BY <1>2 DEF ProcessReadout, PixelInv, CbmInv
  <2>2. CASE Drop(Head(todo))
    BY <2>1, <2>2, <1>0, NoNewEvent DEF Drop, vars
  <2>3. CASE Add(Head(todo))
    BY <2>1, <2>3, <1>0, AddPixelInv
  <2> QED BY <1>2, <2>2, <2>3 DEF ProcessReadout
<1>3. CASE ProduceTimeout
  BY <1>3, <1>0, NoNewEvent DEF ProduceTimeout, produce, Produce
<1>4. CASE UNCHANGED cbmVars
  BY <1>4, <1>0, NoNewEvent DEF cbmVars, vars
<1> QED BY <1>1, <1>2, <1>3, <1>4 DEF CbmNext

\* A readout becomes an event with a pixel of its monitor only: each check of the
\* geometry is made, and against the monitor the event is sent for.
THEOREM PixelsOfMonitor ==
  ASSUME AllCanBeAdded
  PROVE  CbmSpec => []EventsHavePixels
<1>1. CbmInit => PixelInv /\ EventInv
  BY InitPixelInv, InitEventInv DEF CbmInit
<1>2. PixelInv /\ EventInv /\ [CbmNext]_cbmVars => PixelInv' /\ EventInv'
  BY NextPixelInv, CbmComposes, StepEventInv DEF PixelInv
<1>3. PixelInv => EventsHavePixels
  BY DEF PixelInv
<1> QED BY <1>1, <1>2, <1>3, PTL DEF CbmSpec
-----------------------------------------------------------------------------
(***************************************************************************)
(* The accounts of the readouts.                                           *)
(***************************************************************************)
\* Counters of the readouts that are lost after the geometry, or before it.
Unused == ParserErrors \cup {"TofHigh", "PrevTofNegative", "PrevTofHigh"}
Parsed == ParserErrors \cup Range(ReadoutsOf)

AccountInv == CbmInv /\ counters \in [Counters -> Nat] /\ ReadoutsAccounted

LEMMA CounterSets ==
  /\ \A A \in {Unused, Validations, Range(EventsOf), Parsed} :
       IsFiniteSet(A) /\ A \subseteq Counters
  /\ Range(ReadoutsOf) = {"Readouts0D", "Readouts2D", "ReadoutsIBM"}
  /\ Range(EventsOf) = {"Event0DEvents", "Event2DEvents", "IBMEvents"}
<1>1. /\ Range(ReadoutsOf) = {"Readouts0D", "Readouts2D", "ReadoutsIBM"}
      /\ Range(EventsOf) = {"Event0DEvents", "Event2DEvents", "IBMEvents"}
  BY DEF Range, ReadoutsOf, EventsOf
<1>2. IsFiniteSet(Unused)
  <2> DEFINE t == <<"ErrorFiber", "ErrorFEN", "ErrorDataLength", "ErrorTimeFrac",
                    "ErrorType", "TofHigh", "PrevTofNegative", "PrevTofHigh">>
  <2>1. IsFiniteSet({t[i] : i \in 1 .. 8})
    BY FiniteTuple, Zenon
  <2>2. Unused = {t[i] : i \in 1 .. 8}
    BY DEF Unused, ParserErrors
  <2> QED BY <2>1, <2>2
<1>3. IsFiniteSet(Validations)
  <2> DEFINE t == <<"RingErrors", "MonitorRingMismatchErrors", "FENErrors",
                    "TopologyError", "TypeMismatchErrors", "XPosErrors", "YPosErrors">>
  <2>1. IsFiniteSet({t[i] : i \in 1 .. 7})
    BY FiniteTuple, Zenon
  <2>2. Validations = {t[i] : i \in 1 .. 7}
    BY DEF Validations
  <2> QED BY <2>1, <2>2
<1>4. IsFiniteSet(Range(EventsOf))
  <2> DEFINE t == <<"Event0DEvents", "Event2DEvents", "IBMEvents">>
  <2>1. IsFiniteSet({t[i] : i \in 1 .. 3})
    BY FiniteTuple, Zenon
  <2>2. Range(EventsOf) = {t[i] : i \in 1 .. 3}
    BY <1>1
  <2> QED BY <2>1, <2>2
<1>5. IsFiniteSet(Parsed)
  <2> DEFINE t == <<"ErrorFiber", "ErrorFEN", "ErrorDataLength", "ErrorTimeFrac",
                    "ErrorType", "Readouts0D", "Readouts2D", "ReadoutsIBM">>
  <2>1. IsFiniteSet({t[i] : i \in 1 .. 8})
    BY FiniteTuple, Zenon
  <2>2. Parsed = {t[i] : i \in 1 .. 8}
    BY <1>1 DEF Parsed, ParserErrors
  <2> QED BY <2>1, <2>2
<1>6. {"TofHigh", "PrevTofNegative", "PrevTofHigh"} \subseteq TofCounters
  BY DEF TofCounters, TofNames, PrevTofNames
<1> QED BY <1>1, <1>2, <1>3, <1>4, <1>5, <1>6 DEF Counters, Unused, Parsed

\* Incrementing adds to a sum what it increments of it.
LEMMA Incremented ==
  ASSUME NEW c \in [Counters -> Nat], NEW A, IsFiniteSet(A), A \subseteq Counters, NEW S
  PROVE  /\ increment(c, S) \in [Counters -> Nat]
         /\ A \cap S = {} => SumFunctionOnSet(increment(c, S), A) = SumFunctionOnSet(c, A)
         /\ \A x : A \cap S = {x} =>
              SumFunctionOnSet(increment(c, S), A) = SumFunctionOnSet(c, A) + 1
<1> DEFINE h == increment(c, S)
<1>1. h \in [Counters -> Nat]
  BY DEF increment
<1>2. \A y \in A : c[y] \in Int /\ h[y] = (IF y \in S THEN c[y] + 1 ELSE c[y])
  BY DEF increment
<1> HIDE DEF h
<1>3. ASSUME A \cap S = {}
      PROVE  SumFunctionOnSet(h, A) = SumFunctionOnSet(c, A)
  <2>1. \A y \in A : h[y] = c[y]
    BY <1>2, <1>3
  <2> QED BY <1>2, <2>1, SumSame
<1>4. ASSUME NEW x, A \cap S = {x}
      PROVE  SumFunctionOnSet(h, A) = SumFunctionOnSet(c, A) + 1
  <2>1. x \in A /\ h[x] = c[x] + 1 /\ \A y \in A \ {x} : h[y] = c[y]
    BY <1>2, <1>4
  <2> QED BY <1>2, <2>1, SumChange
<1> QED BY <1>1, <1>3, <1>4 DEF h

\* What a time of flight counts.
LEMMA TofCounted ==
  ASSUME CbmInv, NEW r \in Readouts
  PROVE  /\ tofOf(r).tof = InvalidTof =>
              \E x \in {"TofHigh", "PrevTofNegative", "PrevTofHigh"} :
                tofOf(r).counters \in {{x}, {x, "TofNegative"}}
         /\ tofOf(r).tof # InvalidTof =>
              tofOf(r).counters \in {{"TofCount"}, {"PrevTofCount", "TofNegative"}}
<1>1. /\ r.time \in Nat /\ reference.time \in Nat /\ reference.prev \in Nat
      /\ MaxTOF \in Nat /\ InvalidTof \notin Nat
  BY CbmAssumption, ESSTimeAssumption DEF CbmInv, Readouts
<1> DEFINE o == outcome(r.time, reference.time, MaxTOF, TofNames)
           p == outcome(r.time, reference.prev, MaxTOF, PrevTofNames)
           prev == getPrevTOF(r.time, reference, MaxTOF)
<1>2. /\ o \in {"TofNegative", "TofHigh", "TofCount"}
      /\ o = "TofCount" => r.time - reference.time \in Nat
      /\ p \in {"PrevTofNegative", "PrevTofHigh", "PrevTofCount"}
      /\ p = "PrevTofCount" => r.time - reference.prev \in Nat
  BY <1>1 DEF outcome, TofNames, PrevTofNames
<1>3. prev = [tof |-> IF p = "PrevTofCount" THEN r.time - reference.prev ELSE InvalidTof,
              counters |-> {p}]
  BY DEF getPrevTOF
<1>4. CASE o = "TofNegative"
  <2>1. tofOf(r) = [prev EXCEPT !.counters = @ \cup {o}]
    BY <1>4 DEF tofOf, getTOF
  <2> HIDE DEF o, p, prev
  <2>2. tofOf(r).tof = prev.tof /\ tofOf(r).counters = {p, "TofNegative"}
    BY <2>1, <1>3, <1>4
  <2> QED BY <1>1, <1>2, <1>3, <2>2
<1>5. CASE o # "TofNegative"
  <2>1. tofOf(r) = [tof |-> IF o = "TofCount" THEN r.time - reference.time ELSE InvalidTof,
                    counters |-> {o}]
    BY <1>5 DEF tofOf, getTOF
  <2> HIDE DEF o
  <2> QED BY <1>1, <1>2, <1>5, <2>1
<1> QED BY <1>4, <1>5

\* The accounts of an increment.
AccountSets == {Unused, Validations, Range(EventsOf), Parsed}

Adds(A, n) == /\ SumFunctionOnSet(counters, A) \in Int
              /\ SumFunctionOnSet(counters', A) = SumFunctionOnSet(counters, A) + n

LEMMA StepSums ==
  ASSUME counters \in [Counters -> Nat], NEW S, counters' = increment(counters, S),
         NEW A \in AccountSets
  PROVE  /\ counters' \in [Counters -> Nat]
         /\ A \cap S = {} => Adds(A, 0)
         /\ \A x : A \cap S = {x} => Adds(A, 1)
<1>1. IsFiniteSet(A) /\ A \subseteq Counters
  BY CounterSets DEF AccountSets
<1>2. \A x \in A : counters[x] \in Int
  BY <1>1
<1>3. SumFunctionOnSet(counters, A) \in Int
  BY <1>1, <1>2, SumType
<1> DEFINE h == increment(counters, S)
<1>4. /\ h \in [Counters -> Nat]
      /\ A \cap S = {} => SumFunctionOnSet(h, A) = SumFunctionOnSet(counters, A)
      /\ \A x : A \cap S = {x} =>
           SumFunctionOnSet(h, A) = SumFunctionOnSet(counters, A) + 1
  BY <1>1, Incremented
<1> HIDE DEF h
<1>5. counters' = h
  BY DEF h
<1> QED BY <1>3, <1>4, <1>5 DEF Adds

\* What of a step with counters that matters to the accounts.
Accounts(readouts, unused, validations, added, parsing) ==
  /\ counters'["Readouts"] = counters["Readouts"] + readouts
  /\ counters'["ValidationErrors"] = counters["ValidationErrors"] + validations
  /\ counters'["CbmCounts"] = counters["CbmCounts"] + added
  /\ Adds(Unused, unused) /\ Adds(Validations, validations)
  /\ Adds(Range(EventsOf), added) /\ Adds(Parsed, parsing)

LEMMA Balanced ==
  ASSUME AccountInv, CbmInv', counters' \in [Counters -> Nat],
         NEW r \in Int, NEW u \in Int, NEW v \in Int, NEW e \in Int, NEW p \in Int,
         Accounts(r, u, v, e, p), r = p, r = Len(todo') - Len(todo) + v + e + u
  PROVE  AccountInv'
<1>1. /\ counters["Readouts"] \in Nat /\ counters["ValidationErrors"] \in Nat
      /\ counters["CbmCounts"] \in Nat
  BY DEF AccountInv, Counters
<1>2. Len(todo) \in Nat /\ Len(todo') \in Nat
  BY DEF AccountInv, CbmInv
<1>3. /\ counters["Readouts"] = Len(todo) + counters["ValidationErrors"] +
             counters["CbmCounts"] + SumFunctionOnSet(counters, Unused)
      /\ counters["ValidationErrors"] = SumFunctionOnSet(counters, Validations)
      /\ counters["CbmCounts"] = SumFunctionOnSet(counters, Range(EventsOf))
      /\ counters["Readouts"] = SumFunctionOnSet(counters, Parsed)
  BY DEF AccountInv, ReadoutsAccounted, count, Unused, Parsed
<1>4. /\ counters'["Readouts"] = Len(todo') + counters'["ValidationErrors"] +
             counters'["CbmCounts"] + SumFunctionOnSet(counters', Unused)
      /\ counters'["ValidationErrors"] = SumFunctionOnSet(counters', Validations)
      /\ counters'["CbmCounts"] = SumFunctionOnSet(counters', Range(EventsOf))
      /\ counters'["Readouts"] = SumFunctionOnSet(counters', Parsed)
  <2>1. /\ counters'["Readouts"] = counters["Readouts"] + r
        /\ counters'["ValidationErrors"] = counters["ValidationErrors"] + v
        /\ counters'["CbmCounts"] = counters["CbmCounts"] + e
    BY DEF Accounts
  <2>2. /\ SumFunctionOnSet(counters', Unused) = SumFunctionOnSet(counters, Unused) + u
        /\ SumFunctionOnSet(counters', Validations) = SumFunctionOnSet(counters, Validations) + v
        /\ SumFunctionOnSet(counters', Range(EventsOf)) = SumFunctionOnSet(counters, Range(EventsOf)) + e
        /\ SumFunctionOnSet(counters', Parsed) = SumFunctionOnSet(counters, Parsed) + p
        /\ SumFunctionOnSet(counters, Unused) \in Int
    BY DEF Accounts, Adds
  <2>3. counters'["Readouts"] = Len(todo') + counters'["ValidationErrors"] +
             counters'["CbmCounts"] + SumFunctionOnSet(counters', Unused)
    <3> DEFINE R == counters["Readouts"]
               V == counters["ValidationErrors"]
               E == counters["CbmCounts"]
               U == SumFunctionOnSet(counters, Unused)
               m == Len(todo)
               n == Len(todo')
    <3>1. /\ R \in Int /\ V \in Int /\ E \in Int /\ U \in Int /\ m \in Int /\ n \in Int
          /\ R = m + V + E + U /\ r = n - m + v + e + u
      BY <1>1, <1>2, <1>3, <2>2
    <3> HIDE DEF R, V, E, U, m, n
    <3>2. R + r = n + (V + v) + (E + e) + (U + u)
      BY <3>1
    <3> QED BY <3>2, <2>1, <2>2 DEF R, V, E, U, m, n
  <2>4. /\ counters'["ValidationErrors"] = SumFunctionOnSet(counters', Validations)
        /\ counters'["CbmCounts"] = SumFunctionOnSet(counters', Range(EventsOf))
        /\ counters'["Readouts"] = SumFunctionOnSet(counters', Parsed)
    BY <1>3, <2>1, <2>2
  <2> QED BY <2>3, <2>4
<1>5. ReadoutsAccounted'
  BY <1>4 DEF ReadoutsAccounted, count, Unused, Parsed
<1> QED BY <1>5 DEF AccountInv

\* A readout is dropped for one reason, ...
LEMMA DroppedAccounts ==
  ASSUME AccountInv, CbmInv', NEW r \in Readouts, Drop(r), todo # <<>>, todo' = Tail(todo)
  PROVE  AccountInv'
<1> DEFINE S == dropped(r)
<1>1. counters \in [Counters -> Nat] /\ counters' = increment(counters, S)
  BY DEF Drop, AccountInv
<1>2. Len(todo) \in Nat /\ Len(todo') = Len(todo) - 1
  BY DEF AccountInv, CbmInv
<1>3. \A x \in {"Readouts", "ValidationErrors", "CbmCounts"} :
        counters[x] \in Nat /\ counters'[x] = counters[x] + (IF x \in S THEN 1 ELSE 0)
  BY <1>1 DEF increment, Counters
<1> HIDE DEF S
<1>4. \A A \in AccountSets : /\ counters' \in [Counters -> Nat]
                             /\ A \cap S = {} => Adds(A, 0)
                             /\ \A x : A \cap S = {x} => Adds(A, 1)
  BY <1>1, StepSums
<1>5. CASE failures(r) # {}
  <2>1. failures(r) \in SUBSET Nat /\ DOMAIN checks(r) = 1 .. 7
    BY DEF failures, checks
  <2>2. Min(failures(r)) \in failures(r)
    BY <1>5, <2>1, MinIsSmallest
  <2>3. Min(failures(r)) \in 1 .. 7
    BY <2>1, <2>2 DEF failures
  <2>4. checks(r)[Min(failures(r))].counter \in Validations
    <3>1. \A n \in 1 .. 7 : checks(r)[n].counter \in Validations
      BY DEF checks, Validations
    <3> QED BY <2>3, <3>1
  <2> PICK x \in Validations : S = {x, "ValidationErrors"}
    BY <2>4, <1>5 DEF dropped, S
  <2>5. /\ Unused \cap S = {} /\ Range(EventsOf) \cap S = {} /\ Parsed \cap S = {}
        /\ Validations \cap S = {x}
    BY CounterSets DEF Unused, Parsed, ParserErrors, Validations
  <2>6. "Readouts" \notin S /\ "CbmCounts" \notin S /\ "ValidationErrors" \in S
    BY DEF Validations
  <2>7. Accounts(0, 0, 1, 0, 0)
    BY <1>3, <1>4, <2>5, <2>6 DEF Accounts, AccountSets
  <2>8. counters' \in [Counters -> Nat]
    BY <1>4 DEF AccountSets
  <2> QED BY <1>2, <2>7, <2>8, Balanced
<1>6. CASE failures(r) = {}
  <2>1. tofOf(r).tof = InvalidTof /\ S = tofOf(r).counters
    BY <1>6 DEF Drop, dropped, S
  <2> PICK x \in {"TofHigh", "PrevTofNegative", "PrevTofHigh"} : S \in {{x}, {x, "TofNegative"}}
    BY <2>1, TofCounted DEF AccountInv
  <2>5. /\ Unused \cap S = {x} /\ Range(EventsOf) \cap S = {} /\ Parsed \cap S = {}
        /\ Validations \cap S = {}
    BY CounterSets DEF Unused, Parsed, ParserErrors, Validations
  <2>6. "Readouts" \notin S /\ "CbmCounts" \notin S /\ "ValidationErrors" \notin S
    OBVIOUS
  <2>7. Accounts(0, 1, 0, 0, 0)
    BY <1>3, <1>4, <2>5, <2>6 DEF Accounts, AccountSets
  <2>8. counters' \in [Counters -> Nat]
    BY <1>4 DEF AccountSets
  <2> QED BY <1>2, <2>7, <2>8, Balanced
<1> QED BY <1>5, <1>6

\* ... or is an event of one kind, ...
LEMMA AddedAccounts ==
  ASSUME AccountInv, CbmInv', NEW r \in Readouts, Add(r), todo # <<>>, todo' = Tail(todo)
  PROVE  AccountInv'
<1> DEFINE S == {EventsOf[r.type], "CbmCounts"} \cup tofOf(r).counters
           c == increment(counters, S)
<1>1. Len(todo) \in Nat /\ Len(todo') = Len(todo) - 1
  BY DEF AccountInv, CbmInv
<1>2. /\ counters \in [Counters -> Nat] /\ c \in [Counters -> Nat]
      /\ counters' = IF r.type = "IBM" THEN [c EXCEPT !["NPOSCount"] = @ + normADC(r)] ELSE c
  <2>1. c \in [Counters -> Nat]
    BY DEF AccountInv, increment
  <2> QED BY <2>1 DEF Add, AccountInv
<1>3. \A x \in Counters \ {"NPOSCount"} :
        counters'[x] = IF x \in S THEN counters[x] + 1 ELSE counters[x]
  BY <1>2 DEF increment
<1>4. counters' \in [Counters -> Nat]
  <2>1. normADC(r) \in Nat /\ "NPOSCount" \in Counters
    BY ValueType DEF Counters
  <2> HIDE DEF c
  <2>2. c["NPOSCount"] + normADC(r) \in Nat
    BY <1>2, <2>1
  <2> QED BY <1>2, <2>2
<1>5. PICK x \in Range(EventsOf) : S \in {{x, "CbmCounts", "TofCount"},
                                         {x, "CbmCounts", "PrevTofCount", "TofNegative"}}
  <2>1. EventsOf[r.type] \in Range(EventsOf)
    BY DEF Range, EventsOf, Readouts, Types
  <2>2. tofOf(r).counters \in {{"TofCount"}, {"PrevTofCount", "TofNegative"}}
    BY TofCounted DEF Add, AccountInv
  <2> QED BY <2>1, <2>2
<1> HIDE DEF S, c
<1>6. /\ Unused \cap S = {} /\ Range(EventsOf) \cap S = {x} /\ Parsed \cap S = {}
      /\ Validations \cap S = {}
  BY <1>5, CounterSets DEF Unused, Parsed, ParserErrors, Validations
<1>7. /\ counters'["Readouts"] = counters["Readouts"]
      /\ counters'["ValidationErrors"] = counters["ValidationErrors"]
      /\ counters'["CbmCounts"] = counters["CbmCounts"] + 1
  <2>1. "Readouts" \notin S /\ "ValidationErrors" \notin S /\ "CbmCounts" \in S
    BY <1>5, CounterSets
  <2> QED BY <1>3, <2>1 DEF Counters
<1>8. ASSUME NEW A \in AccountSets
      PROVE  /\ A \cap S = {} => Adds(A, 0)
             /\ A \cap S = {x} => Adds(A, 1)
  <2>1. IsFiniteSet(A) /\ A \subseteq Counters /\ "NPOSCount" \notin A
    BY CounterSets DEF AccountSets, Unused, Parsed, ParserErrors, Validations
  <2>2. \A y \in A : /\ counters[y] \in Int
                     /\ counters'[y] = IF y \in S THEN counters[y] + 1 ELSE counters[y]
    BY <1>2, <1>3, <2>1
  <2>3. SumFunctionOnSet(counters, A) \in Int
    BY <2>1, <2>2, SumType
  <2>4. ASSUME A \cap S = {}
        PROVE  SumFunctionOnSet(counters', A) = SumFunctionOnSet(counters, A)
    <3>1. \A y \in A : counters'[y] = counters[y]
      BY <2>2, <2>4
    <3> QED BY <2>1, <2>2, <3>1, SumSame
  <2>5. ASSUME A \cap S = {x}
        PROVE  SumFunctionOnSet(counters', A) = SumFunctionOnSet(counters, A) + 1
    <3>1. x \in A /\ counters'[x] = counters[x] + 1
          /\ \A y \in A \ {x} : counters'[y] = counters[y]
      BY <2>2, <2>5
    <3> QED BY <2>1, <2>2, <3>1, SumChange
  <2> QED BY <2>3, <2>4, <2>5 DEF Adds
<1>9. Accounts(0, 0, 0, 1, 0)
  <2>1. /\ counters["Readouts"] \in Nat /\ counters["ValidationErrors"] \in Nat
    BY <1>2 DEF Counters
  <2> QED BY <1>6, <1>7, <1>8, <2>1 DEF Accounts, AccountSets
<1> QED BY <1>1, <1>4, <1>9, Balanced

\* The readouts before the first flaw, and the flaw behind them.
LEMMA GoodPrefix ==
  ASSUME NEW data \in Seq(Readouts)
  PROVE  /\ Len(good(data)) \in 0 .. Len(data)
         /\ Len(good(data)) < Len(data) => data[Len(good(data)) + 1].flaw \in ParserErrors
<1> DEFINE bad == {i \in DOMAIN data : data[i].flaw # None}
<1>1. CASE bad = {}
  BY <1>1 DEF good
<1>2. CASE bad # {}
  <2>1. bad \in SUBSET Nat
    OBVIOUS
  <2> HIDE DEF bad
  <2>2. Min(bad) \in bad
    BY <1>2, <2>1, MinIsSmallest
  <2>3. Min(bad) \in 1 .. Len(data) /\ data[Min(bad)].flaw # None
    BY <2>2 DEF bad
  <2>4. Len(good(data)) = Min(bad) - 1
    BY <2>3, <1>2 DEF good, bad
  <2>5. data[Min(bad)].flaw \in ParserErrors
    <3>1. data[Min(bad)] \in Readouts
      BY <2>3
    <3>2. data[Min(bad)].flaw \in ParserErrors \cup {None}
      BY <3>1 DEF Readouts
    <3> QED BY <2>3, <3>2
  <2> QED BY <2>3, <2>4, <2>5
<1> QED BY <1>1, <1>2

\* Each readout of a packet is counted once: by its type or as an error.
LEMMA ParsedAccounts ==
  ASSUME counters \in [Counters -> Nat], NEW p \in Packets, p.whole, p.data # <<>>,
         counters' = parsed(p)
  PROVE  /\ counters' \in [Counters -> Nat]
         /\ Accounts(Len(p.data), Len(p.data) - Len(good(p.data)), 0, 0, Len(p.data))
<1> DEFINE data == p.data
           N == Len(data)
           n == Len(good(data))
           tag == [i \in 1 .. N |-> readoutCounter(data, i)]
           times(c) == Cardinality(tagged(tag, {c}, N))
<1>1. data \in Seq(Readouts) /\ N \in Nat /\ DOMAIN data = 1 .. N
  BY CbmAssumption
<1>2. n \in 0 .. N /\ (n < N => data[n + 1].flaw \in ParserErrors)
  BY <1>1, GoodPrefix
<1>3. \A i \in 1 .. N : /\ i <= n => tag[i] \in Range(ReadoutsOf)
                        /\ i > n => tag[i] \in ParserErrors
  <2> SUFFICES ASSUME NEW i \in 1 .. N
               PROVE  /\ i <= n => tag[i] \in Range(ReadoutsOf)
                      /\ i > n => tag[i] \in ParserErrors
    OBVIOUS
  <2>1. data[i].type \in Types
    <3>1. data[i] \in Readouts
      BY <1>1
    <3> QED BY <3>1 DEF Readouts
  <2>2. ReadoutsOf[data[i].type] \in Range(ReadoutsOf)
    BY <2>1 DEF Range, ReadoutsOf, Types
  <2>3. i \in Nat /\ tag[i] = readoutCounter(data, i)
    OBVIOUS
  <2> HIDE DEF tag, data
  <2> QED BY <1>1, <1>2, <2>2, <2>3 DEF readoutCounter
<1>3a. \A i \in 1 .. N : /\ tag[i] \in Range(ReadoutsOf) \cup ParserErrors
                         /\ i <= n \/ i > n
  <2> HIDE DEF tag, N, n
  <2> QED BY <1>1, <1>2, <1>3
<1>4. counters' = [[c \in Counters |-> counters[c] + times(c)] EXCEPT !["Readouts"] = @ + N]
  <2>1. \A c : {i \in DOMAIN data : readoutCounter(data, i) = c}
                = tagged(tag, {c}, N)
    BY <1>1 DEF tagged
  <2> HIDE DEF tag
  <2> QED BY <2>1 DEF parsed
<1>5. \A c : times(c) \in Nat
  <2>1. IsFiniteSet(1 .. N)
    <3>1. N \in Int
      BY <1>1
    <3> HIDE DEF N
    <3> QED BY <3>1, FS_Interval
  <2>2. \A c : IsFiniteSet(tagged(tag, {c}, N))
    <3>1. \A c : tagged(tag, {c}, N) \subseteq 1 .. N
      BY DEF tagged
    <3> QED BY <2>1, <3>1, FS_Subset
  <2> QED BY <2>2, FS_CardinalityType
<1>6. counters' \in [Counters -> Nat]
  <2> HIDE DEF times, N
  <2>1. \A c \in Counters : counters[c] + times(c) \in Nat /\ counters[c] + times(c) + N \in Nat
    BY <1>1, <1>5
  <2> QED BY <1>4, <2>1
<1>7. \A c \in {"Readouts", "ValidationErrors", "CbmCounts"} : times(c) = 0
  <2>1. \A c \in {"Readouts", "ValidationErrors", "CbmCounts"} :
          c \notin Range(ReadoutsOf) /\ c \notin ParserErrors
    BY CounterSets DEF ParserErrors
  <2>2. \A c \in {"Readouts", "ValidationErrors", "CbmCounts"} :
          tagged(tag, {c}, N) = {}
    <3> HIDE DEF tag, N, n
    <3> QED BY <1>3a, <2>1 DEF tagged
  <2> QED BY <2>2, FS_EmptySet
<1>8. /\ counters'["Readouts"] = counters["Readouts"] + N
      /\ counters'["ValidationErrors"] = counters["ValidationErrors"] + 0
      /\ counters'["CbmCounts"] = counters["CbmCounts"] + 0
  <2> HIDE DEF times, N
  <2>1. {"Readouts", "ValidationErrors", "CbmCounts"} \subseteq Counters
    BY DEF Counters
  <2> QED BY <1>4, <1>7, <2>1
<1>9. ASSUME NEW A \in AccountSets
      PROVE  Adds(A, Cardinality(tagged(tag, A, N)))
  <2>1. IsFiniteSet(A) /\ A \subseteq Counters /\ "Readouts" \notin A
    BY CounterSets DEF AccountSets, Unused, Parsed, ParserErrors, Validations
  <2>2. \A c \in A : counters[c] \in Int
    BY <2>1
  <2> DEFINE g == tallied(counters, A, tag, N)
  <2>3. \A c \in A : g[c] \in Int /\ counters'[c] = g[c]
    <3>1. \A c \in A : g[c] = counters[c] + times(c)
      BY DEF tallied
    <3> HIDE DEF g, times, N
    <3> QED BY <3>1, <1>4, <1>5, <2>1, <2>2
  <2> HIDE DEF tag, N
  <2>4. SumFunctionOnSet(g, A) = SumFunctionOnSet(counters, A)
                                  + Cardinality(tagged(tag, A, N))
    BY <1>1, <2>1, <2>2, SumOfTags
  <2> HIDE DEF g
  <2>5. SumFunctionOnSet(counters', A) = SumFunctionOnSet(g, A)
    BY <2>1, <2>3, SumSame
  <2>6. SumFunctionOnSet(counters, A) \in Int
    BY <2>1, <2>2, SumType
  <2> QED BY <2>4, <2>5, <2>6 DEF Adds
<1>10. /\ \A A \in {Validations, Range(EventsOf)} : tagged(tag, A, N) = {}
       /\ tagged(tag, Parsed, N) = 1 .. N
       /\ tagged(tag, Unused, N) = (n + 1) .. N
  <2>1. \A i \in 1 .. N : tag[i] \in Parsed
    <3> HIDE DEF tag, N, n
    <3> QED BY <1>3a DEF Parsed
  <2>2. /\ Validations \cap Parsed = {} /\ Range(EventsOf) \cap Parsed = {}
        /\ Unused \cap Range(ReadoutsOf) = {} /\ ParserErrors \subseteq Unused
    BY CounterSets DEF Parsed, Unused, ParserErrors, Validations
  <2>3. \A i \in 1 .. N : tag[i] \in Unused <=> i > n
    <3> HIDE DEF tag, N, n
    <3>1. \A i \in 1 .. N : i <= n => ~(i > n)
      BY <1>1, <1>2
    <3> QED BY <1>3, <1>3a, <2>2, <3>1
  <2> HIDE DEF tag, N, n
  <2> QED BY <1>1, <1>2, <2>1, <2>2, <2>3 DEF tagged
<1>11. Cardinality(1 .. N) = N /\ Cardinality((n + 1) .. N) = N - n /\ Cardinality({}) = 0
  <2> HIDE DEF N, n
  <2>1. N \in Nat /\ n \in Nat /\ n <= N
    BY <1>1, <1>2
  <2>2. Cardinality(1 .. N) = N /\ Cardinality((n + 1) .. N) = IF n + 1 > N THEN 0 ELSE N - (n + 1) + 1
    BY <2>1, FS_Interval
  <2> QED BY <2>1, <2>2, FS_EmptySet
<1>12. /\ Adds(Validations, 0) /\ Adds(Range(EventsOf), 0)
       /\ Adds(Parsed, N) /\ Adds(Unused, N - n)
  <2> HIDE DEF tag, N, n
  <2> QED BY <1>9, <1>10, <1>11 DEF AccountSets
<1> QED BY <1>6, <1>8, <1>12 DEF Accounts

\* ... and a packet brings as many as it counts.
LEMMA ReceivedAccounts ==
  ASSUME AccountInv, CbmInv', NEW p \in Packets, ReceivePacket(p), todo = <<>>
  PROVE  AccountInv'
<1>1. counters \in [Counters -> Nat] /\ counters' = parsed(p) /\ Len(todo) = 0
  BY DEF AccountInv, ReceivePacket
<1>2. p.whole \in BOOLEAN /\ p.data \in Seq(Readouts)
  BY CbmAssumption
<1>3. CASE p.whole /\ p.data # <<>>
  <2> DEFINE N == Len(p.data)
             n == Len(good(p.data))
  <2>1. counters' \in [Counters -> Nat] /\ Accounts(N, N - n, 0, 0, N)
    BY <1>1, <1>3, ParsedAccounts
  <2>2. N \in Nat /\ n \in Nat /\ Len(todo') = n
    BY <1>2, <1>3, GoodPrefix DEF ReceivePacket
  <2> HIDE DEF N, n
  <2>3. N = Len(todo') - Len(todo) + 0 + 0 + (N - n)
    BY <1>1, <2>2
  <2> QED BY <2>1, <2>2, <2>3, Balanced
<1>4. CASE ~(p.whole /\ p.data # <<>>)
  <2>1. PICK x \in {"ErrorSize", "NoData"} : counters' = increment(counters, {x})
    BY <1>1, <1>2, <1>4 DEF parsed
  <2>2. Len(todo') = 0
    <3>1. CASE p.whole
      <4>1. Len(good(p.data)) \in 0 .. Len(p.data) /\ Len(p.data) = 0
        BY <1>2, <1>4, <3>1, GoodPrefix
      <4> QED BY <3>1, <4>1 DEF ReceivePacket
    <3>2. CASE ~p.whole
      BY <3>2 DEF ReceivePacket
    <3> QED BY <3>1, <3>2
  <2>3. \A A \in AccountSets : A \cap {x} = {}
    BY CounterSets DEF AccountSets, Unused, Parsed, ParserErrors, Validations
  <2>4. /\ counters' \in [Counters -> Nat]
        /\ \A A \in AccountSets : Adds(A, 0)
    BY <1>1, <2>1, <2>3, StepSums DEF AccountSets
  <2>5. \A y \in {"Readouts", "ValidationErrors", "CbmCounts"} :
          counters'[y] = counters[y] + 0
    BY <1>1, <2>1 DEF increment, Counters
  <2>6. Accounts(0, 0, 0, 0, 0)
    BY <2>4, <2>5 DEF Accounts, AccountSets
  <2> QED BY <1>1, <2>2, <2>4, <2>6, Balanced
<1> QED BY <1>3, <1>4

LEMMA TimeoutAccounts ==
  ASSUME AccountInv, CbmInv', ProduceTimeout
  PROVE  AccountInv'
<1>1. counters \in [Counters -> Nat] /\ counters' = increment(counters, {"ProduceCauseTimeout"})
      /\ todo' = todo /\ Len(todo) \in Nat
  BY DEF AccountInv, ProduceTimeout, CbmInv
<1>2. \A A \in AccountSets : A \cap {"ProduceCauseTimeout"} = {}
  BY CounterSets DEF AccountSets, Unused, Parsed, ParserErrors, Validations
<1>3. /\ counters' \in [Counters -> Nat]
      /\ \A A \in AccountSets : Adds(A, 0)
  BY <1>1, <1>2, StepSums DEF AccountSets
<1>4. \A y \in {"Readouts", "ValidationErrors", "CbmCounts"} : counters'[y] = counters[y] + 0
  BY <1>1 DEF increment, Counters
<1>5. Accounts(0, 0, 0, 0, 0)
  BY <1>3, <1>4 DEF Accounts, AccountSets
<1> QED BY <1>1, <1>3, <1>5, Balanced

LEMMA InitAccountInv == CbmInit => AccountInv
<1> SUFFICES ASSUME CbmInit PROVE AccountInv
  OBVIOUS
<1>1. counters = [c \in Counters |-> 0] /\ Len(todo) = 0
  BY DEF CbmInit
<1>2. ASSUME NEW A \in AccountSets
      PROVE  SumFunctionOnSet(counters, A) = 0
  <2>1. IsFiniteSet(A) /\ A \subseteq Counters
    BY CounterSets DEF AccountSets
  <2>2. \A c \in A : counters[c] = 0
    BY <1>1, <2>1
  <2> QED BY <2>1, <2>2, SumZero
<1>3. /\ counters["Readouts"] = 0 /\ counters["ValidationErrors"] = 0
      /\ counters["CbmCounts"] = 0
  BY <1>1 DEF Counters
<1>4. ReadoutsAccounted
  BY <1>1, <1>2, <1>3 DEF ReadoutsAccounted, count, AccountSets, Unused, Parsed
<1> QED BY <1>1, <1>4, InitCbmInv DEF AccountInv

\* Whatever the packets, none of the readouts of the monitors is lost from the
\* accounts or in two of them: each is an event or one error of the parser, the
\* geometry or the times, or still to be processed.
THEOREM Accounted == CbmSpec => []ReadoutsAccounted
<1>1. CbmInit => AccountInv
  BY InitAccountInv
<1>2. AccountInv /\ [CbmNext]_cbmVars => AccountInv'
  <2> SUFFICES ASSUME AccountInv, [CbmNext]_cbmVars PROVE AccountInv'
    OBVIOUS
  <2>0. CbmInv'
    BY NextCbmInv DEF AccountInv
  <2>1. ASSUME NEW p \in Packets, ReceivePacket(p), todo = <<>> PROVE AccountInv'
    BY <2>0, <2>1, ReceivedAccounts
  <2>2. CASE ProcessReadout
    <3>1. Head(todo) \in Readouts /\ todo # <<>> /\ todo' = Tail(todo)
      BY <2>2 DEF ProcessReadout, AccountInv, CbmInv
    <3> QED BY <2>0, <2>2, <3>1, DroppedAccounts, AddedAccounts DEF ProcessReadout
  <2>3. CASE ProduceTimeout
    BY <2>0, <2>3, TimeoutAccounts
  <2>4. CASE UNCHANGED cbmVars
    <3>1. counters' = counters /\ todo' = todo
      BY <2>4 DEF cbmVars
    <3> QED BY <2>0, <3>1 DEF AccountInv, ReadoutsAccounted, count
  <2> QED BY <2>1, <2>2, <2>3, <2>4 DEF CbmNext
<1>3. AccountInv => ReadoutsAccounted
  BY DEF AccountInv
<1> QED BY <1>1, <1>2, <1>3, PTL DEF CbmSpec
=============================================================================
