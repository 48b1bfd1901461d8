------------------------ MODULE CaenInstrumentProofs ------------------------
(***************************************************************************)
(* Proofs about the instruments with CAEN readouts: first about the checks *)
(* of a packet's header (ESSParser), for any use of them, then about the   *)
(* processing thread (CaenInstrument), of whose packets nothing is assumed *)
(* but that they are of Headers, and last about the packets that programs  *)
(* generate for it (UdpGenerator).                                         *)
(***************************************************************************)
EXTENDS UdpGenerator, CommonLemmas, SequenceTheorems

USE ESSTimeAssumption, ParserAssumption

-----------------------------------------------------------------------------
(***************************************************************************)
(* validate().                                                             *)
(***************************************************************************)
LEMMA NanosecondsNat == ASSUME NEW t \in ESSTimes PROVE toNS(t) \in Nat
<1>1. t.high \in Nat /\ t.low \in Nat /\ SecInNs \in Nat /\ ESSClockFreqHz \in Nat \ {0}
  BY DEF ESSTimes
<1>2. \A a, b \in Nat : a * b \in Nat
  OBVIOUS
<1>3. t.high * SecInNs \in Nat /\ t.low * SecInNs \in Nat
  BY <1>1, <1>2
<1>4. \A a \in Nat, b \in Nat \ {0} : a \div b \in Nat
  OBVIOUS
<1> QED
  BY <1>1, <1>3, <1>4 DEF toNS

\* A list of checks that does not pass has a first that fails.
LEMMA FailureIsOfCheck ==
  ASSUME NEW n \in Nat, NEW checks, DOMAIN checks = 1 .. n, ~pass(checks)
  PROVE  \E i \in 1 .. n : failure(checks) = checks[i].counter
<1> DEFINE F == {i \in 1 .. n : ~checks[i].ok}
<1>1. PICK i \in F : \A k \in F : i <= k
  <2>1. F \in SUBSET Nat /\ F # {}
    BY DEF pass
  <2> HIDE DEF F
  <2> QED BY <2>1, Smallest
<1>2. \A j \in 1 .. i - 1 : checks[j].ok
  BY <1>1
<1> DEFINE P(k) == ~checks[k].ok /\ \A j \in 1 .. k - 1 : checks[j].ok
<1>3. \E k \in 1 .. n : P(k)
  BY <1>1, <1>2
<1>4. (CHOOSE k \in 1 .. n : P(k)) \in 1 .. n
  <2> HIDE DEF P
  <2> QED BY <1>3
<1> QED
  BY <1>4 DEF failure

LEMMA HeaderFailure ==
  ASSUME NEW p, ~pass(HeaderChecks(p))
  PROVE  failure(HeaderChecks(p)) \in RejectCounters
<1>1. DOMAIN HeaderChecks(p) = 1 .. 6
  BY DEF HeaderChecks
<1>2. \A i \in 1 .. 6 : HeaderChecks(p)[i].counter \in RejectCounters
  BY DEF HeaderChecks, RejectCounters
<1>3. 6 \in Nat
  OBVIOUS
<1>4. \E i \in 1 .. 6 : failure(HeaderChecks(p)) = HeaderChecks(p)[i].counter
  BY <1>1, <1>3, FailureIsOfCheck, Zenon
<1> QED
  BY <1>2, <1>4

LEMMA ContentFailure ==
  ASSUME NEW p, ~pass(ContentChecks(p))
  PROVE  failure(ContentChecks(p)) \in RejectCounters
<1>1. DOMAIN ContentChecks(p) = 1 .. 3
  BY DEF ContentChecks
<1>2. \A i \in 1 .. 3 : ContentChecks(p)[i].counter \in RejectCounters
  BY DEF ContentChecks, RejectCounters
<1>3. 3 \in Nat
  OBVIOUS
<1>4. \E i \in 1 .. 3 : failure(ContentChecks(p)) = ContentChecks(p)[i].counter
  BY <1>1, <1>3, FailureIsOfCheck, Zenon
<1> QED
  BY <1>2, <1>4

\* What a packet in sequence has been found to be.
LEMMA ContentPasses ==
  ASSUME NEW p \in Headers, pass(HeaderChecks(p)), pass(ContentChecks(p))
  PROVE  /\ p.queue \in Queues /\ p.size = p.length /\ p.seq \in Nat
         /\ HeaderSize(p) \in Nat /\ p.length - HeaderSize(p) \in Nat
<1>1. DOMAIN ContentChecks(p) = 1 .. 3
  BY DEF ContentChecks
<1>2. ContentChecks(p)[1].ok /\ ContentChecks(p)[3].ok
  BY <1>1 DEF pass
<1>3. /\ p.size = p.length /\ p.length >= HeaderSize(p) /\ p.queue \in Queues
  BY <1>2 DEF ContentChecks
<1>4. p.length \in Nat /\ HeaderSize(p) \in Nat /\ p.seq \in Nat
  BY DEF Headers, HeaderSize
<1> QED
  BY <1>3, <1>4

\* Counters only grow, those of the set by one.
LEMMA CountTyped ==
  ASSUME ESSHeaderStats \in [Counters -> Nat], NEW S, Count(S)
  PROVE  /\ ESSHeaderStats' \in [Counters -> Nat]
         /\ \A c \in Counters : ESSHeaderStats'[c] =
              IF c \in S THEN ESSHeaderStats[c] + 1 ELSE ESSHeaderStats[c]
BY DEF Count

LEMMA ValidateTyped ==
  ASSUME TypeOK, NEW p \in Headers, validate(p)
  PROVE  TypeOK'
<1> USE DEF TypeOK
<1>0. calls' \in Nat
  BY DEF validate
<1>1. toNS(p.pulse) \in Nat /\ toNS(p.prev) \in Nat
  BY NanosecondsNat DEF Headers
<1>2. ASSUME Sequenced(p)
      PROVE  /\ NextSeqNum' \in [Queues -> Nat] /\ OQRxPackets' \in [Queues -> Nat]
             /\ Packet' \in Headers \cup {None} /\ DataLength' \in Nat
             /\ seen' \in [Queues -> Seq(0 .. SeqModulus - 1)]
  <2>1. /\ p.queue \in Queues /\ p.seq \in Nat /\ p.length - HeaderSize(p) \in Nat
        /\ p.seq \in 0 .. SeqModulus - 1
    BY <1>2, ContentPasses DEF Sequenced, Headers
  <2>2. Append(seen[p.queue], p.seq) \in Seq(0 .. SeqModulus - 1)
    BY <2>1
  <2>3. OQRxPackets[p.queue] + 1 \in Nat /\ p.seq + 1 \in Nat
    BY <2>1
  <2> QED
    BY <1>2, <2>1, <2>2, <2>3 DEF Sequenced
<1>3. CASE NoHeader(p)
  BY <1>0, <1>3, CountTyped DEF NoHeader
<1>4. CASE Misaddressed(p)
  BY <1>0, <1>4, CountTyped DEF Misaddressed
<1>5. CASE BadTime(p)
  <2>1. Sequenced(p) /\ Time' = Time /\ Res' = "error"
        /\ ESSHeaderStats' \in [Counters -> Nat]
    BY <1>5, CountTyped DEF BadTime
  <2> QED
    BY <1>0, <1>2, <2>1
<1>6. CASE TimeTaken(p)
  <2>1. /\ Sequenced(p) /\ Time' \in [time : Nat, prev : Nat] /\ Res' \in {"OK", "error"}
        /\ ESSHeaderStats' \in [Counters -> Nat]
    BY <1>1, <1>6, CountTyped DEF TimeTaken
  <2> QED
    BY <1>0, <1>2, <2>1
<1> QED
  BY <1>3, <1>4, <1>5, <1>6 DEF validate

LEMMA ParserInit == Init => TypeOK
<1> SUFFICES ASSUME Init PROVE TypeOK
  OBVIOUS
<1>1. <<>> \in Seq(0 .. SeqModulus - 1)
  OBVIOUS
<1> QED
  BY <1>1 DEF Init, TypeOK

\* Every packet of the specification is a header.
LEMMA ParserStep ==
  ASSUME [Next]_parser
  PROVE  UNCHANGED parser \/ \E p \in Headers : validate(p)
BY PacketsAssumption DEF Next

\* What the parser keeps has its type, whatever it is given.
THEOREM ParserTyped == Spec => []TypeOK
<1>1. TypeOK /\ [Next]_parser => TypeOK'
  <2> SUFFICES ASSUME TypeOK, [Next]_parser PROVE TypeOK'
    OBVIOUS
  <2>1. CASE UNCHANGED parser
    BY <2>1 DEF parser, TypeOK
  <2>2. ASSUME NEW p \in Headers, validate(p) PROVE TypeOK'
    BY <2>2, ValidateTyped
  <2> QED
    BY <2>1, <2>2, ParserStep
<1> QED
  BY <1>1, ParserInit, PTL DEF Spec

LEMMA ValidateSound ==
  ASSUME NEW p \in Headers, validate(p)
  PROVE  AcceptedIsSound'
<1> SUFFICES ASSUME Res' = "OK"
             PROVE  /\ HeaderSize(Packet') + DataLength' = Packet'.size
                    /\ Time' = [time |-> toNS(Packet'.pulse), prev |-> toNS(Packet'.prev)]
                    /\ fracOk(Packet') /\ Time'.time - Time'.prev <= MaxPulseTimeDiffNS
  BY DEF AcceptedIsSound, HeaderSize, fracOk, toNS
<1>1. TimeTaken(p) /\ ~pulsesApart(p)
  BY DEF validate, NoHeader, Misaddressed, BadTime, TimeTaken
<1>2. /\ Packet' = p /\ DataLength' = p.length - HeaderSize(p) /\ fracOk(p)
      /\ Time' = [time |-> toNS(p.pulse), prev |-> toNS(p.prev)]
      /\ p.size = p.length /\ HeaderSize(p) \in Nat /\ p.length \in Nat
  BY <1>1, ContentPasses DEF TimeTaken, Sequenced, Headers
<1>3. toNS(p.pulse) \in Nat /\ toNS(p.prev) \in Nat
  BY NanosecondsNat DEF Headers
<1>4. toNS(p.pulse) - toNS(p.prev) <= MaxPulseTimeDiffNS
  BY <1>1, <1>3 DEF pulsesApart
<1> QED
  BY <1>2, <1>4

\* After OK the parsers of the instruments are given what is in the packet
\* received, whatever came before it.
THEOREM ParserSound == Spec => []AcceptedIsSound
<1>1. Init => AcceptedIsSound
  BY DEF Init, AcceptedIsSound
<1>2. AcceptedIsSound /\ [Next]_parser => AcceptedIsSound'
  <2> SUFFICES ASSUME AcceptedIsSound, [Next]_parser PROVE AcceptedIsSound'
    OBVIOUS
  <2>1. CASE UNCHANGED parser
    BY <2>1 DEF parser, AcceptedIsSound, HeaderSize, fracOk, toNS
  <2>2. ASSUME NEW p \in Headers, validate(p) PROVE AcceptedIsSound'
    BY <2>2, ValidateSound
  <2> QED
    BY <2>1, <2>2, ParserStep
<1> QED
  BY <1>1, <1>2, PTL DEF Spec

\* The step of RejectionsCounted.
countsRejection ==
  (Res' = "OK") <=> \A c \in RejectCounters : ESSHeaderStats'[c] = ESSHeaderStats[c]

LEMMA ValidateCounts ==
  ASSUME TypeOK, NEW p \in Headers, validate(p)
  PROVE  countsRejection
<1>0. ESSHeaderStats \in [Counters -> Nat]
  BY DEF TypeOK
<1>1. ASSUME NEW S, Count(S), NEW c \in RejectCounters, c \in S
      PROVE  ~ \A d \in RejectCounters : ESSHeaderStats'[d] = ESSHeaderStats[d]
  <2>1. c \in Counters /\ ESSHeaderStats[c] \in Nat
    BY <1>0, <1>1 DEF Counters
  <2>2. ESSHeaderStats'[c] = ESSHeaderStats[c] + 1
    BY <1>0, <1>1, <2>1, CountTyped
  <2> QED
    BY <1>1, <2>1, <2>2
<1>2. CASE NoHeader(p)
  BY <1>1, <1>2, HeaderFailure DEF NoHeader, countsRejection
<1>3. CASE Misaddressed(p)
  BY <1>1, <1>3, ContentFailure DEF Misaddressed, countsRejection
<1>4. CASE BadTime(p)
  <2> DEFINE errors == IF sourceErrors(p) # {} THEN sourceErrors(p) ELSE {"ErrorTimeFrac"}
  <2>1. Res' = "error" /\ Count(sequence(p) \cup errors)
    BY <1>4 DEF BadTime
  <2>2. \E c \in RejectCounters : c \in sequence(p) \cup errors
    BY DEF sourceErrors, RejectCounters
  <2> HIDE DEF errors
  <2> QED
    BY <1>1, <2>1, <2>2 DEF countsRejection
<1>5. CASE TimeTaken(p) /\ pulsesApart(p)
  <2>1. Res' = "error" /\ Count(sequence(p) \cup {"ErrorTimeHigh"})
    BY <1>5 DEF TimeTaken
  <2> QED
    BY <1>1, <2>1 DEF countsRejection, RejectCounters
<1>6. CASE TimeTaken(p) /\ ~pulsesApart(p)
  <2> DEFINE S == sequence(p) \cup (IF heartbeat(p) THEN {"HeartBeats"} ELSE {})
  <2>1. Res' = "OK" /\ Count(S)
    BY <1>6 DEF TimeTaken
  <2>2. \A c \in RejectCounters : c \in Counters /\ c \notin S
    BY DEF sequence, VersionCounter, RejectCounters, SourceCounters, Counters
  <2> HIDE DEF S
  <2> QED
    BY <1>0, <2>1, <2>2, CountTyped DEF countsRejection
<1> QED
  BY <1>2, <1>3, <1>4, <1>5, <1>6 DEF validate

\* A rejected packet is seen in the statistics, an accepted one counts as no
\* error but a gap in its sequence.
THEOREM ParserRejectionsCounted == Spec => RejectionsCounted
<1>1. TypeOK /\ [Next]_parser => [countsRejection]_parser
  BY ParserStep, ValidateCounts
<1> QED
  BY <1>1, ParserTyped, PTL DEF Spec, RejectionsCounted, countsRejection

-----------------------------------------------------------------------------
(***************************************************************************)
(* The sequence of a queue.  What is expected next is one more than the    *)
(* last number, and ErrorSeqNum is the number of times that it did not     *)
(* come.  Where the numbers wrap this is not what SeqErrorsExact says.     *)
(***************************************************************************)
following(s, i) == IF i = 1 THEN 0 ELSE s[i - 1] + 1

isGap(s) == [i \in 1 .. Len(s) |-> s[i] # following(s, i)]

gaps(s) == Cardinality(marked(isGap(s), Len(s)))

GapsCounted ==
  /\ \A q \in Queues : NextSeqNum[q] = following(seen[q], Len(seen[q]) + 1)
  /\ ESSHeaderStats["ErrorSeqNum"] =
       SumFunctionOnSet([q \in Queues |-> gaps(seen[q])], Queues)

LEMMA GapsOfAppend ==
  ASSUME NEW s \in Seq(Nat), NEW x \in Nat
  PROVE  /\ gaps(s) \in Nat
         /\ gaps(Append(s, x)) =
              gaps(s) + (IF x # following(s, Len(s) + 1) THEN 1 ELSE 0)
         /\ following(Append(s, x), Len(Append(s, x)) + 1) = x + 1
<1> DEFINE a == Append(s, x)  m == Len(s)  f == isGap(a)
<1>1. m \in Nat /\ Len(a) = m + 1 /\ a[m + 1] = x /\ \A i \in 1 .. m : a[i] = s[i]
  OBVIOUS
<1>2. \A i \in 1 .. m + 1 : following(a, i) = following(s, i)
  <2>1. \A i \in 1 .. m + 1 : i = 1 \/ i - 1 \in 1 .. m
    BY <1>1
  <2> QED
    BY <1>1, <2>1 DEF following
<1>3. (\A i \in 1 .. m : f[i] = isGap(s)[i]) /\ f[m + 1] = (x # following(s, m + 1))
  <2> HIDE DEF a, m
  <2> QED
    BY <1>1, <1>2 DEF isGap, m
<1>4. following(a, Len(a) + 1) = x + 1
  <2> HIDE DEF a, m
  <2> QED
    BY <1>1 DEF following
<1>5. marked(f, m) = marked(isGap(s), m)
  BY <1>3 DEF marked
<1> HIDE DEF a, m, f
<1>6. /\ Cardinality(marked(f, m)) \in Nat
      /\ Cardinality(marked(f, m + 1)) =
           Cardinality(marked(f, m)) + (IF f[m + 1] THEN 1 ELSE 0)
  BY <1>1, MarkedOneMore
<1>7. gaps(s) \in Nat
      /\ gaps(a) = gaps(s) + (IF x # following(s, m + 1) THEN 1 ELSE 0)
  BY <1>1, <1>3, <1>5, <1>6 DEF gaps, m, f
<1> QED
  BY <1>4, <1>7 DEF a, m

LEMMA ValidateGaps ==
  ASSUME TypeOK, GapsCounted, NEW p \in Headers, validate(p)
  PROVE  GapsCounted'
<1>0. ESSHeaderStats \in [Counters -> Nat] /\ "ErrorSeqNum" \in Counters
      /\ NextSeqNum \in [Queues -> Nat]
  BY DEF TypeOK, Counters
<1>1. ASSUME UNCHANGED <<NextSeqNum, seen>>,
             ESSHeaderStats'["ErrorSeqNum"] = ESSHeaderStats["ErrorSeqNum"]
      PROVE  GapsCounted'
  BY <1>1 DEF GapsCounted
<1>2. ASSUME Sequenced(p), NEW S, Count(sequence(p) \cup S), "ErrorSeqNum" \notin S
      PROVE  GapsCounted'
  <2> DEFINE q == p.queue
             d == IF p.seq # following(seen[q], Len(seen[q]) + 1) THEN 1 ELSE 0
             f == [r \in Queues |-> gaps(seen[r])]
             h == [r \in Queues |-> gaps(seen'[r])]
  <2>1. /\ q \in Queues /\ p.seq \in Nat /\ seen \in [Queues -> Seq(Nat)]
        /\ seen' = [seen EXCEPT ![q] = Append(@, p.seq)]
        /\ NextSeqNum' = [NextSeqNum EXCEPT ![q] = p.seq + 1]
    <3>1. p.queue \in Queues /\ p.seq \in Nat
      BY <1>2, ContentPasses DEF Sequenced
    <3>2. \A s \in Seq(0 .. SeqModulus - 1) : s \in Seq(Nat)
      OBVIOUS
    <3> QED
      BY <1>2, <3>1, <3>2 DEF Sequenced, TypeOK
  <2>2. \A r \in Queues : gaps(seen[r]) \in Nat
    <3>1. 0 \in Nat
      OBVIOUS
    <3> QED
      BY <2>1, <3>1, GapsOfAppend
  <2>3. /\ gaps(seen'[q]) = gaps(seen[q]) + d
        /\ following(seen'[q], Len(seen'[q]) + 1) = p.seq + 1
    <3>1. seen[q] \in Seq(Nat) /\ seen'[q] = Append(seen[q], p.seq)
      BY <2>1
    <3> QED
      BY <2>1, <3>1, GapsOfAppend
  <2>4. \A r \in Queues \ {q} : seen'[r] = seen[r] /\ NextSeqNum'[r] = NextSeqNum[r]
    BY <2>1
  <2>5. \A r \in Queues : NextSeqNum'[r] = following(seen'[r], Len(seen'[r]) + 1)
    <3>1. NextSeqNum'[q] = p.seq + 1
      BY <1>0, <2>1
    <3> HIDE DEF q, d, f, h
    <3> QED
      BY <2>3, <2>4, <3>1 DEF GapsCounted
  <2>6. SumFunctionOnSet(h, Queues) = SumFunctionOnSet(f, Queues) + d
    <3>1. IsFiniteSet(Queues)
      <4>1. 0 \in Int /\ MaxOutputQueues - 1 \in Int
        OBVIOUS
      <4> QED
        BY <4>1, FS_Interval DEF Queues
    <3>2. d \in Int /\ \A r \in Queues : f[r] \in Int
      BY <2>2
    <3>3. h[q] = f[q] + d /\ \A r \in Queues \ {q} : h[r] = f[r]
      BY <2>1, <2>3, <2>4
    <3>4. q \in Queues
      BY <2>1
    <3> HIDE DEF d, f, h, q
    <3> QED
      BY <3>1, <3>2, <3>3, <3>4, SumChange
  <2>7. ESSHeaderStats'["ErrorSeqNum"] = ESSHeaderStats["ErrorSeqNum"] + d
    <3>1. ("ErrorSeqNum" \in sequence(p) \cup S) <=> NextSeqNum[q] # p.seq
      BY <1>2 DEF sequence, VersionCounter
    <3>2. NextSeqNum[q] = following(seen[q], Len(seen[q]) + 1)
      BY <2>1 DEF GapsCounted
    <3>3. ESSHeaderStats'["ErrorSeqNum"] =
            IF "ErrorSeqNum" \in sequence(p) \cup S
            THEN ESSHeaderStats["ErrorSeqNum"] + 1 ELSE ESSHeaderStats["ErrorSeqNum"]
      BY <1>0, <1>2, CountTyped
    <3>4. ESSHeaderStats["ErrorSeqNum"] \in Nat
      BY <1>0
    <3> QED
      BY <3>1, <3>2, <3>3, <3>4
  <2> QED
    BY <2>5, <2>6, <2>7 DEF GapsCounted
<1>3. CASE NoHeader(p)
  <2>1. failure(HeaderChecks(p)) # "ErrorSeqNum"
    BY <1>3, HeaderFailure DEF NoHeader, RejectCounters, SourceCounters
  <2> QED
    BY <1>0, <1>1, <1>3, <2>1, CountTyped DEF NoHeader
<1>4. CASE Misaddressed(p)
  <2>1. "ErrorSeqNum" \notin {VersionCounter(p), failure(ContentChecks(p))}
    BY <1>4, ContentFailure DEF Misaddressed, RejectCounters, SourceCounters, VersionCounter
  <2> QED
    BY <1>0, <1>1, <1>4, <2>1, CountTyped DEF Misaddressed
<1>5. CASE BadTime(p)
  <2> DEFINE S == IF sourceErrors(p) # {} THEN sourceErrors(p) ELSE {"ErrorTimeFrac"}
  <2>1. "ErrorSeqNum" \notin S
    BY DEF sourceErrors, SourceCounters
  <2>2. Sequenced(p) /\ Count(sequence(p) \cup S)
    BY <1>5 DEF BadTime
  <2> HIDE DEF S
  <2> QED
    BY <1>2, <2>1, <2>2
<1>6. CASE TimeTaken(p)
  <2>1. \E S : Count(sequence(p) \cup S) /\ "ErrorSeqNum" \notin S
    BY <1>6 DEF TimeTaken
  <2>2. Sequenced(p)
    BY <1>6 DEF TimeTaken
  <2> QED
    BY <1>2, <2>1, <2>2
<1> QED
  BY <1>3, <1>4, <1>5, <1>6 DEF validate

\* ErrorSeqNum is what the counts of the queues' gaps add up to.
THEOREM SequenceErrors == Spec => []GapsCounted
<1>1. Init => GapsCounted
  <2> SUFFICES ASSUME Init PROVE GapsCounted
    OBVIOUS
  <2>1. \A q \in Queues : seen[q] = <<>> /\ NextSeqNum[q] = 0
    BY DEF Init
  <2>2. gaps(<<>>) = 0
    <3>1. marked(isGap(<<>>), Len(<<>>)) = {}
      BY DEF marked
    <3> QED
      BY <3>1, FS_EmptySet DEF gaps
  <2>3. SumFunctionOnSet([q \in Queues |-> gaps(seen[q])], Queues) = 0
    <3> DEFINE f == [q \in Queues |-> gaps(seen[q])]
    <3>1. IsFiniteSet(Queues)
      <4>1. 0 \in Int /\ MaxOutputQueues - 1 \in Int
        OBVIOUS
      <4> QED
        BY <4>1, FS_Interval DEF Queues
    <3>2. \A q \in Queues : f[q] = 0
      BY <2>1, <2>2
    <3> HIDE DEF f
    <3>3. SumFunctionOnSet(f, Queues) = 0
      BY <3>1, <3>2, SumZero
    <3> QED
      BY <3>3 DEF f
  <2>4. ESSHeaderStats["ErrorSeqNum"] = 0
    BY DEF Init, Counters
  <2> QED
    BY <2>1, <2>3, <2>4 DEF GapsCounted, following
<1>2. TypeOK /\ GapsCounted /\ [Next]_parser => GapsCounted'
  <2> SUFFICES ASSUME TypeOK, GapsCounted, [Next]_parser PROVE GapsCounted'
    OBVIOUS
  <2>1. CASE UNCHANGED parser
    BY <2>1 DEF parser, GapsCounted
  <2>2. ASSUME NEW p \in Headers, validate(p) PROVE GapsCounted'
    BY <2>2, ValidateGaps
  <2> QED
    BY <2>1, <2>2, ParserStep
<1> QED
  BY <1>1, <1>2, ParserTyped, PTL DEF Spec

\* The numbers received stay below the last one.
NumbersDoNotWrap == \A p \in Packets : p.seq + 1 < SeqModulus

SeenInRange ==
  \A q \in Queues : \A i \in 1 .. Len(seen[q]) :
    seen[q][i] \in Nat /\ seen[q][i] + 1 < SeqModulus

LEMMA SeenStep ==
  ASSUME TypeOK, SeenInRange, NEW p \in Headers, p.seq + 1 < SeqModulus, validate(p)
  PROVE  SeenInRange'
<1>1. CASE seen' = seen
  BY <1>1 DEF SeenInRange
<1>2. CASE Sequenced(p)
  <2>1. p.queue \in Queues /\ p.seq \in Nat /\ seen \in [Queues -> Seq(0 .. SeqModulus - 1)]
    BY <1>2, ContentPasses DEF Sequenced, TypeOK
  <2>2. \A q \in Queues \ {p.queue} : seen'[q] = seen[q]
    BY <1>2, <2>1 DEF Sequenced
  <2> DEFINE s == seen[p.queue]  a == seen'[p.queue]
  <2>3. a = Append(s, p.seq) /\ s \in Seq(0 .. SeqModulus - 1)
    BY <1>2, <2>1 DEF Sequenced
  <2>4. Len(a) = Len(s) + 1 /\ a[Len(s) + 1] = p.seq /\ \A i \in 1 .. Len(s) : a[i] = s[i]
    BY <2>3
  <2>5. \A i \in 1 .. Len(s) : s[i] \in Nat /\ s[i] + 1 < SeqModulus
    BY <2>1 DEF SeenInRange
  <2>6. \A i \in 1 .. Len(a) : a[i] \in Nat /\ a[i] + 1 < SeqModulus
    <3>1. Len(s) \in Nat
      BY <2>3
    <3> HIDE DEF a, s
    <3>2. \A i \in 1 .. Len(a) : i \in 1 .. Len(s) \/ i = Len(s) + 1
      BY <2>4, <3>1
    <3> QED
      BY <2>1, <2>4, <2>5, <3>2
  <2> QED
    BY <2>2, <2>6 DEF SeenInRange
<1> QED
  BY <1>1, <1>2 DEF validate, NoHeader, Misaddressed, BadTime, TimeTaken

\* As long as its numbers do not wrap, the count of sequence errors is exact
\* for every queue, whatever is lost, repeated or overtaken.
THEOREM ParserSeqErrors ==
  ASSUME NumbersDoNotWrap
  PROVE  Spec => []SeqErrorsExact
<1>1. Init => SeenInRange
  BY DEF Init, SeenInRange
<1>2. TypeOK /\ SeenInRange /\ [Next]_parser => SeenInRange'
  <2> SUFFICES ASSUME TypeOK, SeenInRange, [Next]_parser PROVE SeenInRange'
    OBVIOUS
  <2>1. CASE UNCHANGED parser
    BY <2>1 DEF parser, SeenInRange
  <2>2. ASSUME NEW p \in Packets, validate(p) PROVE SeenInRange'
    BY <2>2, SeenStep, PacketsAssumption DEF NumbersDoNotWrap
  <2> QED
    BY <2>1, <2>2 DEF Next
<1>3. TypeOK /\ GapsCounted /\ SeenInRange => SeqErrorsExact
  <2> SUFFICES ASSUME TypeOK, GapsCounted, SeenInRange PROVE SeqErrorsExact
    OBVIOUS
  <2>1. ASSUME NEW q \in Queues PROVE gaps(seen[q]) = breaks(seen[q])
    <3> DEFINE s == seen[q]  m == Len(s)
    <3>1. s \in Seq(0 .. SeqModulus - 1) /\ m \in Nat
      BY DEF TypeOK
    <3>2. \A k \in Nat : k < SeqModulus => k % SeqModulus = k
      OBVIOUS
    <3>3. \A i \in 1 .. m : s[i] \in Nat /\ s[i] + 1 < SeqModulus
      BY DEF SeenInRange
    <3>4. DOMAIN s = 1 .. m
      BY <3>1
    <3> HIDE DEF s, m
    <3>5. \A i \in 1 .. m : following(s, i) = IF i = 1 THEN 0 ELSE (s[i - 1] + 1) % SeqModulus
      <4>1. \A i \in 1 .. m : i = 1 \/ i - 1 \in 1 .. m
        BY <3>1
      <4> QED
        BY <3>2, <3>3, <4>1 DEF following
    <3>6. marked(isGap(s), m) =
            {i \in DOMAIN s : s[i] # (IF i = 1 THEN 0 ELSE (s[i - 1] + 1) % SeqModulus)}
      BY <3>4, <3>5 DEF marked, isGap, m
    <3> QED
      BY <3>6 DEF gaps, breaks, s, m
  <2>2. [q \in Queues |-> breaks(seen[q])] = [q \in Queues |-> gaps(seen[q])]
    BY <2>1
  <2> QED
    BY <2>2 DEF GapsCounted, SeqErrorsExact, SumFunction
<1> QED
  BY <1>1, <1>2, <1>3, SequenceErrors, ParserTyped, PTL DEF Spec

-----------------------------------------------------------------------------
(***************************************************************************)
(* The processing thread.  Its parser is the one above, so all that is     *)
(* proved of that holds of it.                                             *)
(***************************************************************************)
LEMMA RunsParser == CaenSpec => Spec
<1>1. CaenInit => Init
  BY DEF CaenInit
<1>2. [CaenNext]_vars => [Next]_parser
  BY DEF CaenNext, ProcessPacket, Timeout, Next, vars
<1> QED
  BY <1>1, <1>2, PTL DEF CaenSpec, Spec

\* The instruments parse what is in the packet they have received.
THEOREM Sound == CaenSpec => []AcceptedIsSound
  BY RunsParser, ParserSound, PTL

\* The instruments see every rejected packet in the statistics.
THEOREM Rejections == CaenSpec => RejectionsCounted
  BY RunsParser, ParserRejectionsCounted, PTL

\* The instruments count every break in the sequence of a queue.
THEOREM SeqErrors ==
  ASSUME NumbersDoNotWrap
  PROVE  CaenSpec => []SeqErrorsExact
BY RunsParser, ParserSeqErrors, PTL

USE CaenAssumption

-----------------------------------------------------------------------------
(***************************************************************************)
(* The data of a packet is split into readouts: as many as there are good  *)
(* sections before the first bad one.                                      *)
(***************************************************************************)
stops(data, size, n) == n = Len(data) \/ ~good(data, size, n + 1)

LEMMA ParsedReadoutsExist ==
  ASSUME NEW data \in Seq(SectionRecords), NEW size
  PROVE  /\ ParsedReadouts(data, size) \in 0 .. Len(data)
         /\ \A i \in 1 .. ParsedReadouts(data, size) : good(data, size, i)
         /\ stops(data, size, ParsedReadouts(data, size))
<1> DEFINE m == Len(data)
           F == {n \in 0 .. m : stops(data, size, n)}
           P(n) == /\ \A i \in 1 .. n : good(data, size, i)
                   /\ n = Len(data) \/ ~good(data, size, n + 1)
<1>1. m \in Nat
  OBVIOUS
<1>2. PICK n \in F : \A k \in F : n <= k
  <2>1. F \in SUBSET Nat /\ m \in F
    BY <1>1 DEF stops
  <2> HIDE DEF F
  <2> QED BY <2>1, Smallest
<1>3. \A i \in 1 .. n : good(data, size, i)
  <2> SUFFICES ASSUME NEW i \in 1 .. n, ~good(data, size, i) PROVE FALSE
    OBVIOUS
  <2>1. i - 1 \in 0 .. m /\ (i - 1) + 1 = i /\ i - 1 < n
    BY <1>1, <1>2
  <2>2. i - 1 \in F
    BY <2>1 DEF stops
  <2> QED
    BY <1>2, <2>1, <2>2
<1>4. \E k \in 0 .. m : P(k)
  BY <1>2, <1>3 DEF stops
<1>5. ParsedReadouts(data, size) = CHOOSE k \in 0 .. m : P(k)
  BY DEF ParsedReadouts
<1>6. P(ParsedReadouts(data, size)) /\ ParsedReadouts(data, size) \in 0 .. m
  <2> HIDE DEF P
  <2> QED BY <1>4, <1>5
<1> QED
  BY <1>6 DEF stops

\* What is not parsed is one error of the parser, or nothing.
LEMMA ParseErrorsKnown ==
  ASSUME NEW data \in Seq(SectionRecords), NEW size \in Nat,
         size <= Len(data) * CaenReadoutSize
  PROVE  parseErrors(data, size) \subseteq ParseErrors
<1> DEFINE n == ParsedReadouts(data, size)  checks == sectionChecks(data[n + 1], left(size, n))
<1>1. n \in 0 .. Len(data) /\ Len(data) \in Nat /\ (\A i \in 1 .. n : good(data, size, i))
      /\ stops(data, size, n)
  BY ParsedReadoutsExist
<1>2. CaenReadoutSize \in Nat
  BY DEF CaenAssumption
<1> SUFFICES ASSUME left(size, n) # 0 PROVE failure(checks) \in ParseErrors
  BY DEF parseErrors
<1>3. left(size, n) >= 0 /\ left(size, n) \in Int
  <2>1. CASE n = 0
    BY <1>2, <2>1 DEF left
  <2>2. CASE n # 0
    <3>1. n \in 1 .. n /\ n \in Nat
      BY <1>1, <2>2
    <3>2. good(data, size, n)
      BY <1>1, <3>1
    <3> DEFINE before == sectionChecks(data[n], left(size, n - 1))
    <3>3. before[2].ok /\ before[4].ok
      <4>1. DOMAIN before = 1 .. 4
        BY DEF sectionChecks
      <4> QED
        BY <3>2, <4>1 DEF good, pass
    <3>4. left(size, n - 1) >= CaenReadoutSize
      BY <3>3 DEF sectionChecks
    <3>5. left(size, n) = left(size, n - 1) - CaenReadoutSize /\ left(size, n - 1) \in Int
          /\ left(size, n) \in Int
      <4> HIDE DEF n
      <4>1. n * CaenReadoutSize \in Int /\ (n - 1) * CaenReadoutSize = n * CaenReadoutSize - CaenReadoutSize
        BY <1>2, <3>1
      <4> QED
        BY <1>2, <4>1 DEF left
    <3> QED
      BY <1>2, <3>4, <3>5
  <2> QED
    BY <2>1, <2>2
<1>4. n # Len(data)
  <2> SUFFICES ASSUME n = Len(data) PROVE FALSE
    OBVIOUS
  <2>1. left(size, n) = size - Len(data) * CaenReadoutSize
    BY DEF left
  <2>2. Len(data) * CaenReadoutSize \in Nat
    BY <1>1, <1>2
  <2> HIDE DEF n
  <2> QED
    BY <1>3, <2>1, <2>2
<1>5. ~good(data, size, n + 1)
  BY <1>1, <1>4 DEF stops
<1>6. ~pass(checks)
  <2>1. (n + 1) - 1 = n
    BY <1>1
  <2>2. left(size, (n + 1) - 1) > 0
    BY <1>3, <2>1
  <2> QED
    BY <1>5, <2>1, <2>2 DEF good
<1>7. DOMAIN checks = 1 .. 4 /\ \A i \in 1 .. 4 : checks[i].counter \in ParseErrors
  BY DEF sectionChecks, ParseErrors
<1> HIDE DEF checks
<1>8. \E i \in 1 .. 4 : failure(checks) = checks[i].counter
  <2>1. 4 \in Nat
    OBVIOUS
  <2> QED
    BY <1>6, <1>7, <2>1, FailureIsOfCheck
<1> QED
  BY <1>7, <1>8

-----------------------------------------------------------------------------
(***************************************************************************)
(* A serializer: no event is lost between what waits and what is sent, and *)
(* an event stays under the reference time it was added under.             *)
(***************************************************************************)
EventRecords == [tof : Nat, time : Nat, packet : Headers]
Batches == [referenceTime : Nat, events : Seq(EventRecords)]
SerializerRecords == [referenceTime : Nat, events : Seq(EventRecords), sent : Seq(Batches)]

\* What EventsTrue says of an event under reference time t.
isTrue(t, e) ==
  LET pulse == toNS(e.packet.pulse)
  IN  /\ t = pulse
      /\ e.tof = e.time - (IF e.time >= pulse THEN pulse ELSE toNS(e.packet.prev))
      /\ e.tof \in 0 .. MaxTOF
      /\ sourceErrors(e.packet) = {} /\ ~pulsesApart(e.packet)

batchTrue(b) == \A k \in 1 .. Len(b.events) : isTrue(b.referenceTime, b.events[k])

serializerTrue(s) == batchTrue(s) /\ \A k \in 1 .. Len(s.sent) : batchTrue(s.sent[k])

LEMMA ProduceKeeps ==
  ASSUME NEW s \in SerializerRecords
  PROVE  /\ produce(s) \in SerializerRecords
         /\ inBatches(s) \in Int /\ inBatches(produce(s)) = inBatches(s)
         /\ produce(s).referenceTime = s.referenceTime /\ produce(s).events = <<>>
         /\ serializerTrue(s) => serializerTrue(produce(s))
<1> DEFINE m == Len(s.sent)
           b == [referenceTime |-> s.referenceTime, events |-> s.events]
           f == [i \in DOMAIN s.sent |-> Len(s.sent[i].events)]
<1>1. /\ s.sent \in Seq(Batches) /\ m \in Nat /\ DOMAIN s.sent = 1 .. m
      /\ s.events \in Seq(EventRecords) /\ Len(s.events) \in Nat /\ b \in Batches
  BY DEF SerializerRecords, Batches
<1>2. \A i \in 1 .. m : f[i] \in Int
  <2> SUFFICES ASSUME NEW i \in 1 .. m PROVE f[i] \in Int
    OBVIOUS
  <2>1. s.sent[i] \in Batches
    BY <1>1
  <2>2. s.sent[i].events \in Seq(EventRecords)
    BY <2>1 DEF Batches
  <2>3. Len(s.sent[i].events) \in Nat
    BY <2>2
  <2> QED
    BY <1>1, <2>3
<1>3. SumFunctionOnSet(f, 1 .. m) \in Int
  <2>1. IsFiniteSet(1 .. m)
    BY <1>1, FS_Interval
  <2> HIDE DEF f, m
  <2> QED
    BY <1>2, <2>1, SumType
<1>4. inBatches(s) = Len(s.events) + SumFunctionOnSet(f, 1 .. m)
  BY <1>1 DEF inBatches
<1>5. CASE s.events = <<>>
  <2>1. produce(s) = s
    BY <1>5 DEF produce
  <2> HIDE DEF f, m
  <2> QED
    BY <1>1, <1>3, <1>4, <1>5, <2>1
<1>6. CASE s.events # <<>>
  <2> DEFINE r == produce(s)
             h == [i \in DOMAIN r.sent |-> Len(r.sent[i].events)]
  <2>1. r = [s EXCEPT !.events = <<>>, !.sent = Append(s.sent, b)]
    BY <1>6 DEF produce
  <2>2. r.events = <<>> /\ r.referenceTime = s.referenceTime /\ r.sent = Append(s.sent, b)
    BY <2>1 DEF SerializerRecords
  <2>3. r \in SerializerRecords
    <3>1. r = [referenceTime |-> s.referenceTime, events |-> <<>>, sent |-> Append(s.sent, b)]
      BY <2>1 DEF SerializerRecords
    <3>2. Append(s.sent, b) \in Seq(Batches) /\ <<>> \in Seq(EventRecords)
      BY <1>1
    <3>3. s.referenceTime \in Nat
      BY DEF SerializerRecords
    <3> HIDE DEF r, b
    <3> QED
      BY <3>1, <3>2, <3>3 DEF SerializerRecords
  <2>4. /\ DOMAIN r.sent = 1 .. m + 1 /\ Len(r.sent) = m + 1
        /\ r.sent[m + 1] = b /\ \A i \in 1 .. m : r.sent[i] = s.sent[i]
    BY <1>1, <2>2
  <2>5. h[m + 1] = Len(s.events) /\ \A i \in 1 .. m : h[i] = f[i]
    <3> HIDE DEF r, m
    <3>1. m + 1 \in 1 .. m + 1 /\ \A i \in 1 .. m : i \in 1 .. m + 1
      BY <1>1
    <3> QED
      BY <1>1, <2>4, <3>1
  <2>6. SumFunctionOnSet(h, 1 .. m + 1) = SumFunctionOnSet(f, 1 .. m) + Len(s.events)
    <3> HIDE DEF h, f, m
    <3>1. Len(s.events) \in Int
      BY <1>1
    <3> QED
      BY <1>1, <1>2, <2>5, <3>1, SumOneMore
  <2>7. inBatches(r) = SumFunctionOnSet(h, 1 .. m + 1)
    <3>1. inBatches(r) = Len(r.events) + SumFunctionOnSet(h, DOMAIN r.sent)
      BY DEF inBatches
    <3>2. Len(r.events) = 0
      BY <2>2
    <3>3. SumFunctionOnSet(h, 1 .. m + 1) \in Int
      <4> HIDE DEF h, f, m
      <4> QED
        BY <1>1, <1>3, <2>6
    <3> HIDE DEF h, r, m
    <3> QED
      BY <2>4, <3>1, <3>2, <3>3
  <2>8. serializerTrue(s) => serializerTrue(r)
    <3> SUFFICES ASSUME serializerTrue(s) PROVE serializerTrue(r)
      OBVIOUS
    <3>1. batchTrue(r)
      BY <2>2 DEF batchTrue
    <3>2. batchTrue(b)
      BY DEF serializerTrue, batchTrue
    <3>3. \A k \in 1 .. m : batchTrue(s.sent[k])
      BY DEF serializerTrue
    <3> HIDE DEF r, m, b
    <3>4. \A k \in 1 .. m + 1 : k \in 1 .. m \/ k = m + 1
      BY <1>1
    <3>5. \A k \in 1 .. Len(r.sent) : batchTrue(r.sent[k])
      BY <2>4, <3>2, <3>3, <3>4
    <3> QED
      BY <3>1, <3>5 DEF serializerTrue
  <2> HIDE DEF f, m, h, r
  <2>9. inBatches(s) \in Int /\ inBatches(r) = inBatches(s)
    BY <1>1, <1>3, <1>4, <2>6, <2>7
  <2> QED
    BY <2>2, <2>3, <2>8, <2>9 DEF r
<1> QED
  BY <1>5, <1>6

LEMMA ReferenceKeeps ==
  ASSUME NEW s \in SerializerRecords, NEW t \in Nat
  PROVE  /\ checkAndSetReferenceTime(s, t) \in SerializerRecords
         /\ inBatches(checkAndSetReferenceTime(s, t)) = inBatches(s)
         /\ checkAndSetReferenceTime(s, t).referenceTime = t
         /\ serializerTrue(s) => serializerTrue(checkAndSetReferenceTime(s, t))
<1>1. CASE t = s.referenceTime
  BY <1>1 DEF checkAndSetReferenceTime
<1>2. CASE t # s.referenceTime
  <2> DEFINE p == produce(s)  r == checkAndSetReferenceTime(s, t)
  <2>1. /\ p \in SerializerRecords /\ inBatches(p) = inBatches(s) /\ p.events = <<>>
        /\ serializerTrue(s) => serializerTrue(p)
    BY ProduceKeeps
  <2>2. r = [p EXCEPT !.referenceTime = t]
    BY <1>2 DEF checkAndSetReferenceTime
  <2> HIDE DEF p, r
  <2>3. r.events = <<>> /\ r.events = p.events /\ r.sent = p.sent /\ r.referenceTime = t
        /\ r \in SerializerRecords
    BY <2>1, <2>2 DEF SerializerRecords
  <2>4. inBatches(r) = inBatches(p)
    BY <2>3 DEF inBatches
  <2>5. batchTrue(r)
    BY <2>3 DEF batchTrue
  <2>6. serializerTrue(p) => serializerTrue(r)
    BY <2>3, <2>5 DEF serializerTrue
  <2> QED
    BY <2>1, <2>3, <2>4, <2>6 DEF r
<1> QED
  BY <1>1, <1>2

LEMMA AddEventKeeps ==
  ASSUME NEW s \in SerializerRecords, NEW e \in EventRecords
  PROVE  /\ addEvent(s, e) \in SerializerRecords
         /\ inBatches(addEvent(s, e)) = inBatches(s) + 1
         /\ addEvent(s, e).referenceTime = s.referenceTime
         /\ serializerTrue(s) /\ isTrue(s.referenceTime, e) => serializerTrue(addEvent(s, e))
<1> DEFINE more == [s EXCEPT !.events = Append(@, e)]
<1>1. /\ s.events \in Seq(EventRecords) /\ more.events = Append(s.events, e)
      /\ more.sent = s.sent /\ more.referenceTime = s.referenceTime
      /\ more \in SerializerRecords
  <2>1. more = [referenceTime |-> s.referenceTime, events |-> Append(s.events, e),
                sent |-> s.sent]
    <3>1. s = [referenceTime |-> s.referenceTime, events |-> s.events, sent |-> s.sent]
      BY DEF SerializerRecords
    <3> DEFINE a == Append(s.events, e)
    <3>2. more = [s EXCEPT !.events = a]
      OBVIOUS
    <3> HIDE DEF a, more
    <3>3. more = [referenceTime |-> s.referenceTime, events |-> a, sent |-> s.sent]
      BY <3>1, <3>2
    <3> QED
      BY <3>3 DEF a
  <2>2. /\ s.events \in Seq(EventRecords) /\ s.sent \in Seq(Batches)
        /\ s.referenceTime \in Nat
    BY DEF SerializerRecords
  <2>3. Append(s.events, e) \in Seq(EventRecords)
    BY <2>2
  <2> HIDE DEF more
  <2> QED
    BY <2>1, <2>2, <2>3 DEF SerializerRecords
<1>2. Len(more.events) = Len(s.events) + 1 /\ Len(s.events) \in Nat
      /\ more.events[Len(s.events) + 1] = e
      /\ \A k \in 1 .. Len(s.events) : more.events[k] = s.events[k]
  <2> DEFINE q == s.events
  <2>1. q \in Seq(EventRecords) /\ more.events = Append(q, e)
    BY <1>1
  <2> HIDE DEF q, more
  <2>2. Len(Append(q, e)) = Len(q) + 1 /\ Len(q) \in Nat /\ Append(q, e)[Len(q) + 1] = e
        /\ \A k \in 1 .. Len(q) : Append(q, e)[k] = q[k]
    BY <2>1
  <2> QED
    BY <2>1, <2>2 DEF q
<1> HIDE DEF more
<1>3. inBatches(more) = inBatches(s) + 1 /\ inBatches(s) \in Int
  <2> DEFINE d == SumFunctionOnSet([i \in DOMAIN s.sent |-> Len(s.sent[i].events)],
                                   DOMAIN s.sent)
  <2>1. inBatches(s) = Len(s.events) + d /\ inBatches(more) = Len(more.events) + d
    BY <1>1 DEF inBatches
  <2>2. inBatches(s) \in Int
    BY ProduceKeeps
  <2>3. d \in Int
    <3>1. /\ s.sent \in Seq(Batches) /\ Len(s.sent) \in Nat /\ DOMAIN s.sent = 1 .. Len(s.sent)
      BY DEF SerializerRecords
    <3>2. IsFiniteSet(DOMAIN s.sent)
      BY <3>1, FS_Interval
    <3>3. \A i \in DOMAIN s.sent : Len(s.sent[i].events) \in Int
      <4> SUFFICES ASSUME NEW i \in DOMAIN s.sent PROVE Len(s.sent[i].events) \in Int
        OBVIOUS
      <4>1. s.sent[i] \in Batches
        BY <3>1
      <4>2. s.sent[i].events \in Seq(EventRecords)
        BY <4>1 DEF Batches
      <4> QED
        BY <4>2
    <3> DEFINE f == [i \in DOMAIN s.sent |-> Len(s.sent[i].events)]
    <3>4. \A i \in DOMAIN s.sent : f[i] \in Int
      BY <3>3
    <3>5. SumFunctionOnSet(f, DOMAIN s.sent) \in Int
      <4> HIDE DEF f
      <4> QED
        BY <3>2, <3>4, SumType
    <3> QED
      BY <3>5
  <2> HIDE DEF d
  <2> QED
    BY <1>2, <2>1, <2>2, <2>3
<1>4. serializerTrue(s) /\ isTrue(s.referenceTime, e) => serializerTrue(more)
  <2> SUFFICES ASSUME serializerTrue(s), isTrue(s.referenceTime, e)
               PROVE  serializerTrue(more)
    OBVIOUS
  <2>1. \A k \in 1 .. Len(more.events) : k \in 1 .. Len(s.events) \/ k = Len(s.events) + 1
    BY <1>2
  <2>2. batchTrue(more)
    BY <1>1, <1>2, <2>1 DEF serializerTrue, batchTrue
  <2> QED
    BY <1>1, <2>2 DEF serializerTrue
<1>5. addEvent(s, e) = IF Len(more.events) < MaxEvents THEN more ELSE produce(more)
  BY DEF addEvent, more
<1> QED
  BY <1>1, <1>3, <1>4, <1>5, ProduceKeeps

-----------------------------------------------------------------------------
(***************************************************************************)
(* One readout: it is counted under exactly one fate, and becomes at most  *)
(* one event.                                                              *)
(***************************************************************************)
Fates == {"ValidationErrors", "TofHigh", "PrevTofNegative", "PrevTofHigh",
          "PixelErrors", "SerializerErrors", "Events"}

References == [time : Nat, prev : Nat]

ReadoutRecords == [readout : SectionRecords, packet : Headers]

Indices == 1 .. numSerializers

\* What processReadout works on.
Works == [counters : [CaenCounters -> Nat], serializers : [Indices -> SerializerRecords]]

held(serializers) == [i \in Indices |-> inBatches(serializers[i])]

\* The events counted are those in the serializers.
balanced(w) == w.counters["Events"] = SumFunctionOnSet(held(w.serializers), Indices)

\* The serializers stand at time t, and have held to their reference times.
allTrue(w, t) ==
  \A i \in Indices : serializerTrue(w.serializers[i]) /\ w.serializers[i].referenceTime = t

LEMMA TofFates ==
  ASSUME NEW n \in Nat, NEW reference \in References
  PROVE  LET t == getTOF(n, reference, MaxTOF)
         IN  /\ "Readouts" \notin t.counters
             /\ \/ /\ t.tof = InvalidTof
                   /\ \E x \in {"TofHigh", "PrevTofNegative", "PrevTofHigh"} :
                        t.counters \cap Fates = {x}
                \/ /\ t.tof \in 0 .. MaxTOF /\ t.counters \cap Fates = {}
                   /\ t.tof = n - (IF n >= reference.time THEN reference.time
                                                          ELSE reference.prev)
<1> DEFINE t == getTOF(n, reference, MaxTOF)
<1>1. /\ reference.time \in Nat /\ reference.prev \in Nat /\ MaxTOF \in Nat
      /\ InvalidTof \notin Nat
  BY DEF References, ESSTimeAssumption, CaenAssumption
<1>2. CASE n < reference.time /\ n < reference.prev
  <2>1. t.tof = InvalidTof /\ t.counters = {"TofNegative", "PrevTofNegative"}
    BY <1>1, <1>2 DEF getTOF, getPrevTOF, outcome, TofNames, PrevTofNames
  <2> QED BY <2>1 DEF Fates
<1>3. CASE n < reference.time /\ ~(n < reference.prev) /\ n - reference.prev > MaxTOF
  <2>1. t.tof = InvalidTof /\ t.counters = {"TofNegative", "PrevTofHigh"}
    BY <1>1, <1>3 DEF getTOF, getPrevTOF, outcome, TofNames, PrevTofNames
  <2> QED BY <2>1 DEF Fates
<1>4. CASE n < reference.time /\ ~(n < reference.prev) /\ ~(n - reference.prev > MaxTOF)
  <2>1. t.tof = n - reference.prev /\ t.counters = {"TofNegative", "PrevTofCount"}
    BY <1>1, <1>4 DEF getTOF, getPrevTOF, outcome, TofNames, PrevTofNames
  <2>2. n - reference.prev \in 0 .. MaxTOF /\ ~(n >= reference.time)
    BY <1>1, <1>4
  <2> HIDE DEF t
  <2> QED BY <2>1, <2>2 DEF Fates, t
<1>5. CASE ~(n < reference.time) /\ n - reference.time > MaxTOF
  <2>1. t.tof = InvalidTof /\ t.counters = {"TofHigh"}
    BY <1>1, <1>5 DEF getTOF, getPrevTOF, outcome, TofNames, PrevTofNames
  <2> QED BY <2>1 DEF Fates
<1>6. CASE ~(n < reference.time) /\ ~(n - reference.time > MaxTOF)
  <2>1. t.tof = n - reference.time /\ t.counters = {"TofCount"}
    BY <1>1, <1>6 DEF getTOF, getPrevTOF, outcome, TofNames, PrevTofNames
  <2>2. n - reference.time \in 0 .. MaxTOF /\ n >= reference.time
    BY <1>1, <1>6
  <2> HIDE DEF t
  <2> QED BY <2>1, <2>2 DEF Fates, t
<1> QED
  BY <1>2, <1>3, <1>4, <1>5, <1>6

LEMMA FatesAreCounters ==
  /\ Fates \subseteq CaenCounters /\ IsFiniteSet(Fates)
  /\ {"Readouts", "Events"} \subseteq CaenCounters /\ ParseErrors \subseteq CaenCounters
  /\ Fates \cap ParseErrors = {} /\ "Readouts" \notin Fates \cup ParseErrors
  /\ "Events" \notin ParseErrors
<1> DEFINE s == <<"ValidationErrors", "TofHigh", "PrevTofNegative", "PrevTofHigh",
                  "PixelErrors", "SerializerErrors", "Events">>
<1>1. Fates = {s[i] : i \in 1 .. 7}
  BY DEF Fates
<1>2. IsFiniteSet({s[i] : i \in 1 .. 7})
  <2> HIDE DEF s
  <2>1. 7 \in Nat
    OBVIOUS
  <2> QED BY <2>1, FiniteTuple
<1>3. {"TofHigh", "PrevTofNegative", "PrevTofHigh"} \subseteq TofCounters
  BY DEF TofCounters, TofNames, PrevTofNames
<1>4. Fates \subseteq CaenCounters
  BY <1>3 DEF Fates, CaenCounters
<1> QED
  BY <1>1, <1>2, <1>4 DEF Fates, CaenCounters, ParseErrors

LEMMA Incremented ==
  ASSUME NEW c \in [CaenCounters -> Nat], NEW S
  PROVE  /\ increment(c, S) \in [CaenCounters -> Nat]
         /\ SumFunctionOnSet(c, Fates) \in Int
         /\ Fates \cap S = {} =>
              SumFunctionOnSet(increment(c, S), Fates) = SumFunctionOnSet(c, Fates)
         /\ \A x : Fates \cap S = {x} =>
              SumFunctionOnSet(increment(c, S), Fates) = SumFunctionOnSet(c, Fates) + 1
         /\ \A x \in CaenCounters :
              increment(c, S)[x] = IF x \in S THEN c[x] + 1 ELSE c[x]
<1> DEFINE h == increment(c, S)
<1>1. /\ h \in [CaenCounters -> Nat]
      /\ \A x \in CaenCounters : h[x] = IF x \in S THEN c[x] + 1 ELSE c[x]
  BY DEF increment
<1> HIDE DEF h
<1>2. \A y \in Fates : c[y] \in Int
  BY FatesAreCounters
<1>3. \A y \in Fates : h[y] = IF y \in S THEN c[y] + 1 ELSE c[y]
  BY <1>1, FatesAreCounters
<1>4. /\ SumFunctionOnSet(c, Fates) \in Int
      /\ Fates \cap S = {} => SumFunctionOnSet(h, Fates) = SumFunctionOnSet(c, Fates)
      /\ \A x : Fates \cap S = {x} =>
           SumFunctionOnSet(h, Fates) = SumFunctionOnSet(c, Fates) + 1
  <2>1. IsFiniteSet(Fates)
    BY FatesAreCounters
  <2> QED
    BY ONLY <1>2, <1>3, <2>1, SumIncremented
<1> QED
  BY <1>1, <1>4 DEF h

LEMMA RoundKeeps ==
  ASSUME NEW w \in Works, NEW d \in ReadoutRecords, NEW reference \in References
  PROVE  LET after == processReadout(w, d, reference)
         IN  /\ after \in Works
             /\ SumFunctionOnSet(after.counters, Fates) =
                  SumFunctionOnSet(w.counters, Fates) + 1
             /\ after.counters["Readouts"] = w.counters["Readouts"]
             /\ balanced(w) => balanced(after)
             /\ (/\ allTrue(w, reference.time)
                 /\ reference = [time |-> toNS(d.packet.pulse), prev |-> toNS(d.packet.prev)]
                 /\ sourceErrors(d.packet) = {} /\ ~pulsesApart(d.packet))
                  => allTrue(after, reference.time)
<1> DEFINE after == processReadout(w, d, reference)
           r == d.readout
           n == toNS(r.time)
           tof == getTOF(n, reference, MaxTOF)
           v == verdict(r, tof)
           event == [tof |-> tof.tof, time |-> n, packet |-> d.packet]
           S == tof.counters \cup {v}
<1>t. /\ r \in SectionRecords /\ d.packet \in Headers /\ n \in Nat
      /\ w.counters \in [CaenCounters -> Nat]
      /\ w.serializers \in [Indices -> SerializerRecords]
      /\ numSerializers \in Nat /\ MaxTOF \in Nat /\ InvalidTof \notin Nat
  <2>1. r \in SectionRecords /\ d.packet \in Headers
    BY DEF ReadoutRecords
  <2>2. r.time \in ESSTimes
    BY <2>1 DEF SectionRecords
  <2> QED
    BY <2>1, <2>2, NanosecondsNat DEF Works, CaenAssumption, ESSTimeAssumption
<1>f. /\ "Readouts" \notin tof.counters
      /\ \/ /\ tof.tof = InvalidTof
            /\ \E x \in {"TofHigh", "PrevTofNegative", "PrevTofHigh"} :
                 tof.counters \cap Fates = {x}
         \/ /\ tof.tof \in 0 .. MaxTOF /\ tof.counters \cap Fates = {}
            /\ tof.tof = n - (IF n >= reference.time THEN reference.time ELSE reference.prev)
  BY <1>t, TofFates
<1>1. ~r.valid => after = [w EXCEPT !.counters = increment(w.counters, {"ValidationErrors"})]
  BY DEF processReadout
<1>2. r.valid => after =
        [counters |-> increment(w.counters, S),
         serializers |-> IF v = "Events"
                         THEN [w.serializers EXCEPT ![r.serializer] =
                                 addEvent(w.serializers[r.serializer], event)]
                         ELSE w.serializers]
  BY DEF processReadout
<1>3. ASSUME NEW T, NEW x, Fates \cap T = {x}, "Readouts" \notin T, x # "Events",
             after.counters = increment(w.counters, T), after.serializers = w.serializers,
             after = [counters |-> after.counters, serializers |-> after.serializers]
      PROVE  /\ after \in Works
             /\ SumFunctionOnSet(after.counters, Fates) =
                  SumFunctionOnSet(w.counters, Fates) + 1
             /\ after.counters["Readouts"] = w.counters["Readouts"]
             /\ balanced(w) => balanced(after)
             /\ allTrue(w, reference.time) => allTrue(after, reference.time)
  <2> HIDE DEF after
  <2>1. after.counters \in [CaenCounters -> Nat]
        /\ SumFunctionOnSet(after.counters, Fates) = SumFunctionOnSet(w.counters, Fates) + 1
    <3>1. /\ increment(w.counters, T) \in [CaenCounters -> Nat]
          /\ SumFunctionOnSet(increment(w.counters, T), Fates) =
               SumFunctionOnSet(w.counters, Fates) + 1
      <4>1. w.counters \in [CaenCounters -> Nat]
        BY <1>t
      <4>2. /\ increment(w.counters, T) \in [CaenCounters -> Nat]
            /\ \A y : Fates \cap T = {y} =>
                 SumFunctionOnSet(increment(w.counters, T), Fates) =
                   SumFunctionOnSet(w.counters, Fates) + 1
        BY ONLY <4>1, Incremented
      <4> QED
        BY <1>3, <4>2
    <3> QED
      BY <1>3, <3>1
  <2>2. after.counters["Readouts"] = w.counters["Readouts"]
    BY <1>t, <1>3, Incremented, FatesAreCounters
  <2>3. after.counters["Events"] = w.counters["Events"]
    <3>1. "Events" \notin T
      BY <1>3 DEF Fates
    <3> QED
      BY <1>t, <1>3, <3>1, Incremented, FatesAreCounters
  <2>4. after \in Works
    BY <1>t, <1>3, <2>1 DEF Works
  <2> QED
    BY <1>3, <2>1, <2>2, <2>3, <2>4 DEF balanced, allTrue
<1>4. CASE ~r.valid
  <2>1. Fates \cap {"ValidationErrors"} = {"ValidationErrors"}
    BY DEF Fates
  <2>2. /\ after.counters = increment(w.counters, {"ValidationErrors"})
        /\ after.serializers = w.serializers
        /\ after = [counters |-> after.counters, serializers |-> after.serializers]
    <3>1. w = [counters |-> w.counters, serializers |-> w.serializers]
      BY DEF Works
    <3> HIDE DEF after
    <3> QED
      BY <1>1, <1>4, <3>1
  <2> HIDE DEF after, r
  <2> QED
    BY <1>3, <2>1, <2>2 DEF after
<1>5. CASE r.valid /\ tof.tof = InvalidTof
  <2>1. v = "no time of flight"
    BY <1>5 DEF verdict
  <2>2. PICK x \in {"TofHigh", "PrevTofNegative", "PrevTofHigh"} : tof.counters \cap Fates = {x}
    BY <1>f, <1>t, <1>5
  <2>3. Fates \cap S = {x} /\ "Readouts" \notin S /\ x # "Events"
    BY <1>f, <2>1, <2>2 DEF Fates
  <2>4. after = [counters |-> increment(w.counters, S), serializers |-> w.serializers]
    <3> HIDE DEF after, S, v
    <3> QED
      BY <1>2, <1>5, <2>1
  <2> HIDE DEF after, r, S, tof
  <2> QED
    BY <1>3, <2>3, <2>4 DEF after
<1>6. CASE r.valid /\ tof.tof # InvalidTof /\ v # "Events"
  <2>1. v \in {"PixelErrors", "SerializerErrors"}
    <3> HIDE DEF tof
    <3> QED
      BY <1>6, <1>t DEF verdict, SectionRecords
  <2>2. Fates \cap S = {v} /\ "Readouts" \notin S /\ v # "Events"
    <3> HIDE DEF tof, v
    <3> QED
      BY <1>f, <1>6, <2>1 DEF Fates
  <2>3. after = [counters |-> increment(w.counters, S), serializers |-> w.serializers]
    <3> HIDE DEF after, S, v
    <3> QED
      BY <1>2, <1>6
  <2> HIDE DEF after, r, S, tof, v
  <2> QED
    BY <1>3, <2>2, <2>3 DEF after
<1>7. CASE r.valid /\ tof.tof # InvalidTof /\ v = "Events"
  <2> DEFINE k == r.serializer
             s == w.serializers[k]
             more == addEvent(s, event)
  <2>1. k \in Indices /\ s \in SerializerRecords /\ event \in EventRecords
    <3>1. k \in Nat \ {0} /\ k <= numSerializers
      <4> HIDE DEF tof
      <4>1. r.serializer \in Nat \ {0}
        BY <1>t DEF SectionRecords
      <4>2. ~(r.serializer > numSerializers)
        BY <1>7 DEF verdict
      <4> QED
        BY <1>t, <4>1, <4>2
    <3>2. tof.tof \in Nat
      BY <1>f, <1>t, <1>7
    <3>3. event \in EventRecords
      <4> HIDE DEF tof, n
      <4> QED
        BY <1>t, <3>2 DEF EventRecords
    <3> QED
      BY <1>t, <3>1, <3>3 DEF Indices
  <2> HIDE DEF k, s, event
  <2>2. /\ more \in SerializerRecords /\ inBatches(more) = inBatches(s) + 1
        /\ more.referenceTime = s.referenceTime
        /\ serializerTrue(s) /\ isTrue(s.referenceTime, event) => serializerTrue(more)
    BY <2>1, AddEventKeeps
  <2>3. /\ after.counters = increment(w.counters, S)
        /\ after.serializers = [w.serializers EXCEPT ![k] = more]
        /\ after = [counters |-> after.counters, serializers |-> after.serializers]
    <3> HIDE DEF after, S, v
    <3> QED
      BY <1>2, <1>7 DEF k, s
  <2>4. Fates \cap S = {"Events"} /\ "Readouts" \notin S /\ "Events" \in S
    <3> HIDE DEF tof, v
    <3> QED
      BY <1>f, <1>t, <1>7 DEF Fates
  <2> HIDE DEF after, S, more
  <2>5. /\ after.counters \in [CaenCounters -> Nat]
        /\ SumFunctionOnSet(after.counters, Fates) = SumFunctionOnSet(w.counters, Fates) + 1
    <3>1. /\ increment(w.counters, S) \in [CaenCounters -> Nat]
          /\ SumFunctionOnSet(increment(w.counters, S), Fates) =
               SumFunctionOnSet(w.counters, Fates) + 1
      BY <1>t, <2>4, Incremented
    <3> QED
      BY <2>3, <3>1
  <2>6. /\ after.counters["Readouts"] = w.counters["Readouts"]
        /\ after.counters["Events"] = w.counters["Events"] + 1
    BY <1>t, <2>3, <2>4, Incremented, FatesAreCounters
  <2>7. /\ after.serializers \in [Indices -> SerializerRecords]
        /\ after.serializers[k] = more
        /\ \A i \in Indices \ {k} : after.serializers[i] = w.serializers[i]
    BY <1>t, <2>1, <2>2, <2>3
  <2>8. after \in Works
    BY <2>3, <2>5, <2>7 DEF Works
  <2>9. balanced(w) => balanced(after)
    <3> DEFINE f == held(w.serializers)  h == held(after.serializers)
    <3>1. IsFiniteSet(Indices) /\ \A i \in Indices : f[i] \in Int
      <4>1. IsFiniteSet(Indices)
        BY <1>t, FS_Interval DEF Indices
      <4>2. \A i \in Indices : inBatches(w.serializers[i]) \in Int
        BY <1>t, ProduceKeeps
      <4> QED
        BY <4>1, <4>2 DEF held
    <3>2. h[k] = f[k] + 1 /\ \A i \in Indices \ {k} : h[i] = f[i]
      BY <2>1, <2>2, <2>7 DEF held, s
    <3>3. 1 \in Int
      OBVIOUS
    <3> HIDE DEF f, h
    <3>4. SumFunctionOnSet(h, Indices) = SumFunctionOnSet(f, Indices) + 1
      BY <2>1, <3>1, <3>2, <3>3, SumChange
    <3> QED
      BY <2>6, <3>4 DEF balanced, f, h
  <2>10. (/\ allTrue(w, reference.time)
          /\ reference = [time |-> toNS(d.packet.pulse), prev |-> toNS(d.packet.prev)]
          /\ sourceErrors(d.packet) = {} /\ ~pulsesApart(d.packet))
           => allTrue(after, reference.time)
    <3> SUFFICES ASSUME allTrue(w, reference.time),
                        reference = [time |-> toNS(d.packet.pulse), prev |-> toNS(d.packet.prev)],
                        sourceErrors(d.packet) = {}, ~pulsesApart(d.packet)
                 PROVE  allTrue(after, reference.time)
      OBVIOUS
    <3>1. serializerTrue(s) /\ s.referenceTime = reference.time
      BY <2>1 DEF allTrue, s
    <3>2. reference.time = toNS(d.packet.pulse) /\ reference.prev = toNS(d.packet.prev)
      OBVIOUS
    <3>3. event.tof = tof.tof /\ event.time = n /\ event.packet = d.packet
      BY DEF event
    <3>4. /\ tof.tof \in 0 .. MaxTOF
          /\ tof.tof = n - (IF n >= reference.time THEN reference.time ELSE reference.prev)
      BY <1>f, <1>7
    <3>5. isTrue(s.referenceTime, event)
      <4> HIDE DEF tof, n
      <4> QED
        BY <3>1, <3>2, <3>3, <3>4 DEF isTrue
    <3>6. serializerTrue(more) /\ more.referenceTime = reference.time
      BY <2>2, <3>1, <3>5
    <3> QED
      BY <2>7, <3>6 DEF allTrue
  <2> QED
    BY <2>5, <2>6, <2>8, <2>9, <2>10 DEF after
<1> HIDE DEF r, tof, v, after
<1> QED
  BY <1>4, <1>5, <1>6, <1>7 DEF after

\* A readout that is an event, at a time after the pulse.
OnTime(r, reference) ==
  /\ r.valid /\ r.pixel # 0 /\ r.serializer <= numSerializers
  /\ toNS(r.time) - reference.time \in 0 .. MaxTOF

\* What such readouts do not count.
Unneeded == CaenCounters \ {"TofCount", "Events"}

LEMMA RoundOnTime ==
  ASSUME NEW w \in Works, NEW d \in ReadoutRecords, NEW reference \in References,
         OnTime(d.readout, reference)
  PROVE  \A x \in Unneeded :
           processReadout(w, d, reference).counters[x] = w.counters[x]
<1> DEFINE r == d.readout
           n == toNS(r.time)
           tof == getTOF(n, reference, MaxTOF)
           v == verdict(r, tof)
<1>1. r \in SectionRecords /\ n \in Nat /\ reference.time \in Nat /\ MaxTOF \in Nat
      /\ InvalidTof \notin Nat /\ w.counters \in [CaenCounters -> Nat]
  <2>1. r \in SectionRecords
    BY DEF ReadoutRecords
  <2>2. r.time \in ESSTimes
    BY <2>1 DEF SectionRecords
  <2> QED
    BY <2>1, <2>2, NanosecondsNat DEF Works, References, CaenAssumption, ESSTimeAssumption
<1>2. n >= reference.time /\ n - reference.time <= MaxTOF
  <2> HIDE DEF n
  <2> QED BY <1>1 DEF OnTime, n
<1>3. tof.tof = n - reference.time /\ tof.counters = {"TofCount"}
  BY <1>1, <1>2 DEF getTOF, getPrevTOF, outcome, TofNames, PrevTofNames
<1>4. tof.tof # InvalidTof
  <2> HIDE DEF tof, n
  <2> QED BY <1>1, <1>2, <1>3
<1>5. v = "Events"
  <2>1. r.serializer \in Nat /\ numSerializers \in Nat
    BY <1>1 DEF SectionRecords, CaenAssumption
  <2>2. r.pixel # 0 /\ ~(r.serializer > numSerializers)
    BY <2>1 DEF OnTime
  <2> HIDE DEF tof
  <2> QED BY <1>4, <2>2 DEF verdict
<1>6. processReadout(w, d, reference).counters =
        increment(w.counters, tof.counters \cup {v})
  BY DEF processReadout, OnTime
<1> HIDE DEF tof, v
<1>7. tof.counters \cup {v} = {"TofCount", "Events"}
  BY <1>3, <1>5
<1> QED
  BY <1>1, <1>6, <1>7 DEF increment, Unneeded

-----------------------------------------------------------------------------
(***************************************************************************)
(* All readouts of a packet, in their order.                               *)
(***************************************************************************)
\* What processing the n readouts of packet p makes of base.
Processed(base, w, n, readouts, reference, p) ==
  /\ w \in Works /\ balanced(w) /\ w.counters["Readouts"] = base.counters["Readouts"]
  /\ SumFunctionOnSet(w.counters, Fates) = SumFunctionOnSet(base.counters, Fates) + n
  /\ (/\ allTrue(base, reference.time)
      /\ reference = [time |-> toNS(p.pulse), prev |-> toNS(p.prev)]
      /\ sourceErrors(p) = {} /\ ~pulsesApart(p))
       => allTrue(w, reference.time)
  /\ (\A i \in 1 .. n : OnTime(readouts[i].readout, reference)) =>
       \A x \in Unneeded : w.counters[x] = base.counters[x]

LEMMA ProcessReadouts ==
  ASSUME NEW n \in Nat, NEW p \in Headers,
         NEW readouts \in [1 .. n -> [readout : SectionRecords, packet : {p}]],
         NEW reference \in References, NEW c \in [CaenCounters -> Nat],
         NEW base, base = [counters |-> c,
                           serializers |-> referenced(Serializers, reference.time)],
         base \in Works, balanced(base)
  PROVE  Processed(base, processReadouts(readouts, reference, c), n, readouts,
                   reference, p)
<1> DEFINE D == 1 .. n
           round(w, i) == processReadout(w, readouts[i], reference)
           truly == /\ allTrue(base, reference.time)
                    /\ reference = [time |-> toNS(p.pulse), prev |-> toNS(p.prev)]
                    /\ sourceErrors(p) = {} /\ ~pulsesApart(p)
           timely == \A i \in D : OnTime(readouts[i].readout, reference)
           S == {w \in Works : /\ balanced(w)
                               /\ w.counters["Readouts"] = base.counters["Readouts"]
                               /\ truly => allTrue(w, reference.time)
                               /\ timely => \A x \in Unneeded :
                                               w.counters[x] = base.counters[x]}
           pick == [s \in SUBSET D |-> Max(s)]
           step == [q \in D \X S |-> round(q[2], q[1])]
           P(g) == g = [s \in SUBSET D |-> IF s = {} THEN base
                                           ELSE round(g[s \ {Max(s)}], Max(s))]
           iter == CHOOSE g : P(g)
<1>1. ASSUME NEW w \in S, NEW i \in D
      PROVE  /\ round(w, i) \in S
             /\ SumFunctionOnSet(round(w, i).counters, Fates) =
                  SumFunctionOnSet(w.counters, Fates) + 1
  <2>1. /\ w \in Works /\ balanced(w) /\ w.counters["Readouts"] = base.counters["Readouts"]
        /\ truly => allTrue(w, reference.time)
        /\ timely => \A x \in Unneeded : w.counters[x] = base.counters[x]
    OBVIOUS
  <2> DEFINE d == readouts[i]
  <2>2. d \in ReadoutRecords /\ d.packet = p /\ (timely => OnTime(d.readout, reference))
    <3>1. d \in [readout : SectionRecords, packet : {p}]
      OBVIOUS
    <3>2. timely => OnTime(d.readout, reference)
      OBVIOUS
    <3> HIDE DEF d, timely
    <3> QED
      BY <3>1, <3>2 DEF ReadoutRecords
  <2> DEFINE after == processReadout(w, d, reference)
  <2>3. /\ after \in Works
        /\ SumFunctionOnSet(after.counters, Fates) = SumFunctionOnSet(w.counters, Fates) + 1
        /\ after.counters["Readouts"] = w.counters["Readouts"]
        /\ balanced(w) => balanced(after)
        /\ (/\ allTrue(w, reference.time)
            /\ reference = [time |-> toNS(d.packet.pulse), prev |-> toNS(d.packet.prev)]
            /\ sourceErrors(d.packet) = {} /\ ~pulsesApart(d.packet))
             => allTrue(after, reference.time)
    <3> HIDE DEF d
    <3> QED
      BY <2>1, <2>2, RoundKeeps
  <2>4. round(w, i) = after
    OBVIOUS
  <2>6. timely => \A x \in Unneeded : after.counters[x] = base.counters[x]
    <3> HIDE DEF d, timely
    <3>1. timely => \A x \in Unneeded : after.counters[x] = w.counters[x]
      BY <2>1, <2>2, RoundOnTime
    <3> HIDE DEF after
    <3> QED
      BY <2>1, <3>1
  <2> HIDE DEF after, d, round, timely
  <2>5. truly => allTrue(after, reference.time)
    BY <2>1, <2>2, <2>3
  <2> QED
    BY <2>1, <2>3, <2>4, <2>5, <2>6
<1>2. base \in S
  OBVIOUS
<1>3. IsFiniteSet(D)
  BY FS_Interval
<1>4. \A s \in SUBSET D : s # {} => Max(s) \in s /\ pick[s] = Max(s)
  BY MaxIsLargest
<1>5. step \in [D \X S -> S]
  <2> HIDE DEF round, S, D
  <2> QED
    BY <1>1
<1>6. \A i \in D, w \in S : step[<<i, w>>] = round(w, i)
  <2> HIDE DEF round, S, D
  <2> QED
    OBVIOUS
<1>7. \A s \in SUBSET D : s # {} => pick[s] \in s
  BY <1>4
<1> HIDE DEF round, S, pick, step
<1>8. PICK g \in [SUBSET D -> S] : Folding(g, D, base, pick, step)
  <2> HIDE DEF D
  <2> QED
    BY <1>2, <1>3, <1>5, <1>7, FoldExists
<1>9. P(g)
  <2> HIDE DEF D
  <2>1. ASSUME NEW s \in SUBSET D
        PROVE  g[s] = IF s = {} THEN base ELSE round(g[s \ {Max(s)}], Max(s))
    <3>1. CASE s = {}
      BY <1>8, <3>1 DEF Folding
    <3>2. CASE s # {}
      <4>1. Max(s) \in D /\ s \ {Max(s)} \in SUBSET D /\ pick[s] = Max(s)
        BY <1>4, <3>2
      <4>2. step[<<Max(s), g[s \ {Max(s)}]>>] = round(g[s \ {Max(s)}], Max(s))
        BY <1>6, <4>1
      <4> QED
        BY <1>8, <3>2, <4>1, <4>2 DEF Folding
    <3> QED
      BY <3>1, <3>2
  <2> QED
    BY <2>1
<1>10. P(iter)
  <2> HIDE DEF P
  <2> QED
    BY <1>9
<1>11. processReadouts(readouts, reference, c) = iter[D]
  BY DEF processReadouts, FoldLeft, MapThenFoldSet, round
<1>12. \A s \in SUBSET D : iter[s] = IF s = {} THEN base ELSE round(iter[s \ {Max(s)}], Max(s))
  <2> HIDE DEF iter, D
  <2> QED
    BY <1>10
<1> HIDE DEF iter
<1>13. (\A s \in SUBSET D : iter[s] \in S) /\ Folding(iter, D, base, pick, step)
  <2> HIDE DEF D
  <2>1. iter[{}] = base
    BY <1>12
  <2>2. \A s \in SUBSET D : (s # {} /\ iter[s \ {pick[s]}] \in S) =>
           iter[s] = step[<<pick[s], iter[s \ {pick[s]}]>>]
    <3> SUFFICES ASSUME NEW s \in SUBSET D, s # {}, iter[s \ {pick[s]}] \in S
                 PROVE  iter[s] = step[<<pick[s], iter[s \ {pick[s]}]>>]
      OBVIOUS
    <3>1. pick[s] = Max(s) /\ Max(s) \in D
      BY <1>4
    <3>2. step[<<Max(s), iter[s \ {Max(s)}]>>] = round(iter[s \ {Max(s)}], Max(s))
      BY <1>6, <3>1
    <3> QED
      BY <1>12, <3>1, <3>2
  <2> QED
    BY <1>2, <1>3, <1>5, <1>7, <2>1, <2>2, FoldTyped
<1> DEFINE sumOf(k) == SumFunctionOnSet(iter[1 .. k].counters, Fates)
           OK == {k \in 0 .. n : sumOf(k) = SumFunctionOnSet(base.counters, Fates) + k}
<1>14. 0 \in OK
  <2>1. iter[{}] = base /\ 1 .. 0 = {}
    <3>1. {} \in SUBSET D /\ 1 .. 0 = {}
      OBVIOUS
    <3> HIDE DEF D
    <3> QED
      BY <1>12, <3>1
  <2>2. SumFunctionOnSet(base.counters, Fates) \in Int
    BY Incremented DEF Works
  <2> QED
    BY <2>1, <2>2
<1>15. ASSUME NEW k \in OK, k < n PROVE k + 1 \in OK
  <2>1. /\ k \in Nat /\ k + 1 \in 1 .. n /\ 1 .. k + 1 \in SUBSET D /\ 1 .. k \in SUBSET D
        /\ 1 .. k + 1 # {} /\ (1 .. k + 1) \ {k + 1} = 1 .. k
    <3>1. k \in Nat /\ k + 1 \in 1 .. n
      BY <1>15
    <3> HIDE DEF OK
    <3>2. 1 .. k + 1 \in SUBSET (1 .. n) /\ 1 .. k \in SUBSET (1 .. n)
      BY <3>1
    <3>3. k + 1 \in 1 .. k + 1
      BY <3>1
    <3>4. (1 .. k + 1) \ {k + 1} = 1 .. k
      BY <3>1
    <3> QED
      BY <3>1, <3>2, <3>3, <3>4
  <2>2. Max(1 .. k + 1) = k + 1
    <3>1. k + 1 \in Nat \ {0}
      BY <2>1
    <3> QED
      BY <3>1, MaxOfInterval
  <2>3. iter[1 .. k] \in S /\ iter[1 .. k + 1] = round(iter[1 .. k], k + 1)
    <3> HIDE DEF D
    <3> QED
      BY <1>12, <1>13, <2>1, <2>2
  <2>4. sumOf(k + 1) = sumOf(k) + 1
    BY <1>1, <2>1, <2>3
  <2>5. SumFunctionOnSet(base.counters, Fates) \in Int
    BY Incremented DEF Works
  <2>6. sumOf(k) = SumFunctionOnSet(base.counters, Fates) + k
    OBVIOUS
  <2> HIDE DEF sumOf
  <2> QED
    BY <2>1, <2>4, <2>5, <2>6
<1>16. n \in OK
  <2>1. OK \in SUBSET (0 .. n)
    OBVIOUS
  <2> HIDE DEF OK
  <2>2. OK = 0 .. n
    BY <1>14, <1>15, <2>1, NumbersUpTo
  <2> QED
    BY <2>2
<1>17. iter[D] \in S
  BY <1>13
<1> QED
  <2>1. SumFunctionOnSet(iter[D].counters, Fates) = SumFunctionOnSet(base.counters, Fates) + n
    BY <1>16
  <2>2. timely <=> \A i \in 1 .. n : OnTime(readouts[i].readout, reference)
    OBVIOUS
  <2>3. /\ iter[D] \in Works /\ balanced(iter[D])
        /\ iter[D].counters["Readouts"] = base.counters["Readouts"]
        /\ truly => allTrue(iter[D], reference.time)
        /\ timely => \A x \in Unneeded : iter[D].counters[x] = base.counters[x]
    <3> HIDE DEF D, timely
    <3> QED BY <1>17 DEF S
  <2> HIDE DEF D, timely
  <2> QED
    BY <1>11, <2>1, <2>2, <2>3 DEF Processed

-----------------------------------------------------------------------------
(***************************************************************************)
(* The invariant of the processing thread.                                 *)
(***************************************************************************)
ThreadTyped ==
  /\ counters \in [CaenCounters -> Nat]
  /\ Serializers \in [Indices -> SerializerRecords]

ReadoutsHaveFates == counters["Readouts"] = SumFunctionOnSet(counters, Fates)

EventsHeld == counters["Events"] = SumFunctionOnSet(held(Serializers), Indices)

AllEventsTrue == \A i \in Indices : serializerTrue(Serializers[i])

CaenInv ==
  TypeOK /\ ThreadTyped /\ ReadoutsHaveFates /\ EventsHeld /\ AllEventsTrue

LEMMA InitCaenInv == CaenInit => CaenInv
<1> SUFFICES ASSUME CaenInit PROVE CaenInv
  OBVIOUS
<1>1. TypeOK
  BY ParserInit DEF CaenInit
<1>2. PICK t \in {0, 1} : Serializers =
        [i \in Indices |-> [referenceTime |-> t, events |-> <<>>, sent |-> <<>>]]
  BY DEF CaenInit, Indices
<1> DEFINE new == [referenceTime |-> t, events |-> <<>>, sent |-> <<>>]
<1>3. new \in SerializerRecords /\ new.sent = <<>> /\ new.events = <<>>
  <2>1. <<>> \in Seq(EventRecords) /\ <<>> \in Seq(Batches) /\ t \in Nat
    OBVIOUS
  <2> QED
    BY <2>1 DEF SerializerRecords
<1>4. \A i \in Indices : Serializers[i] = new
  BY <1>2
<1>5. ThreadTyped
  BY <1>2, <1>3 DEF ThreadTyped, CaenInit
<1> HIDE DEF new
<1>6. inBatches(new) = 0
  <2> DEFINE f == [i \in DOMAIN new.sent |-> Len(new.sent[i].events)]
  <2>1. DOMAIN new.sent = {} /\ Len(new.events) = 0
    BY <1>3
  <2>2. SumFunctionOnSet(f, {}) = 0
    <3> HIDE DEF f
    <3> QED
      BY SumEmpty
  <2> QED
    BY <2>1, <2>2 DEF inBatches
<1>7. AllEventsTrue
  BY <1>3, <1>4 DEF AllEventsTrue, serializerTrue, batchTrue
<1>8. ReadoutsHaveFates
  <2>1. counters = [c \in CaenCounters |-> 0]
    BY DEF CaenInit
  <2>2. SumFunctionOnSet(counters, Fates) = 0
    <3>1. \A c \in Fates : counters[c] = 0
      BY <2>1, FatesAreCounters
    <3> QED
      BY <3>1, FatesAreCounters, SumZero
  <2> QED
    BY <2>1, <2>2, FatesAreCounters DEF ReadoutsHaveFates
<1>9. EventsHeld
  <2>1. SumFunctionOnSet(held(Serializers), Indices) = 0
    <3> DEFINE f == held(Serializers)
    <3>1. \A i \in Indices : f[i] = 0
      BY <1>4, <1>6 DEF held
    <3>2. IsFiniteSet(Indices)
      BY FS_Interval DEF Indices, CaenAssumption
    <3> HIDE DEF f
    <3>3. SumFunctionOnSet(f, Indices) = 0
      BY <3>1, <3>2, SumZero
    <3> QED
      BY <3>3 DEF f
  <2> QED
    BY <2>1, FatesAreCounters DEF EventsHeld, CaenInit
<1> QED
  BY <1>1, <1>5, <1>7, <1>8, <1>9 DEF CaenInv

\* What has been found of a packet that is accepted.
LEMMA AcceptedFacts ==
  ASSUME NEW p \in Headers, validate(p), Res' = "OK"
  PROVE  /\ DataLength' = p.length - HeaderSize(p) /\ DataLength' \in Nat
         /\ Time' = [time |-> toNS(p.pulse), prev |-> toNS(p.prev)] /\ Time' \in References
         /\ sourceErrors(p) = {} /\ ~pulsesApart(p)
<1>1. TimeTaken(p) /\ ~pulsesApart(p)
  BY DEF validate, NoHeader, Misaddressed, BadTime, TimeTaken
<1>2. toNS(p.pulse) \in Nat /\ toNS(p.prev) \in Nat
  BY NanosecondsNat DEF Headers
<1> QED
  BY <1>1, <1>2, ContentPasses DEF TimeTaken, Sequenced, References

\* The serializers, each treated alike in a way that keeps its events.
LEMMA SameEventsHeld ==
  ASSUME NEW a \in [Indices -> SerializerRecords], NEW b,
         \A i \in Indices : inBatches(b[i]) = inBatches(a[i])
  PROVE  SumFunctionOnSet(held(b), Indices) = SumFunctionOnSet(held(a), Indices)
<1> DEFINE f == held(a)  h == held(b)
<1>1. \A i \in Indices : f[i] \in Int /\ h[i] = f[i]
  BY ProduceKeeps DEF held
<1>2. IsFiniteSet(Indices)
  BY FS_Interval DEF Indices, CaenAssumption
<1> HIDE DEF f, h
<1>3. SumFunctionOnSet(h, Indices) = SumFunctionOnSet(f, Indices)
  BY <1>1, <1>2, SumSame
<1> QED
  BY <1>3 DEF f, h

LEMMA RejectedKeeps ==
  ASSUME ThreadTyped, ReadoutsHaveFates, EventsHeld, AllEventsTrue, Rejected
  PROVE  ThreadTyped' /\ ReadoutsHaveFates' /\ EventsHeld' /\ AllEventsTrue'
<1>1. /\ counters' = increment(counters, {"ErrorESSHeaders"}) /\ Serializers' = Serializers
      /\ counters \in [CaenCounters -> Nat]
  BY DEF Rejected, ThreadTyped
<1>2. Fates \cap {"ErrorESSHeaders"} = {}
  BY DEF Fates
<1>3. /\ counters' \in [CaenCounters -> Nat]
      /\ SumFunctionOnSet(counters', Fates) = SumFunctionOnSet(counters, Fates)
  BY <1>1, <1>2, Incremented
<1>4. counters'["Readouts"] = counters["Readouts"] /\ counters'["Events"] = counters["Events"]
  BY <1>1, Incremented, FatesAreCounters
<1> QED
  BY <1>1, <1>3, <1>4 DEF ThreadTyped, ReadoutsHaveFates, EventsHeld, AllEventsTrue

LEMMA AcceptedKeeps ==
  ASSUME ThreadTyped, ReadoutsHaveFates, EventsHeld, AllEventsTrue,
         NEW p \in Headers, validate(p),
         NEW data \in Seq(SectionRecords), fills(data, p), Accepted(p, data)
  PROVE  /\ ThreadTyped' /\ ReadoutsHaveFates' /\ EventsHeld' /\ AllEventsTrue'
         /\ (\A i \in 1 .. ParsedReadouts(data, DataLength') : OnTime(data[i], Time')) =>
              \A x \in Unneeded \ {"Readouts"} :
                counters'[x] = increment(counters, parseErrors(data, DataLength'))[x]
<1> DEFINE size == DataLength'
           reference == Time'
           n == ParsedReadouts(data, size)
           errors == parseErrors(data, size)
           readouts == parse(p, data, size)
           c == [increment(counters, errors) EXCEPT !["Readouts"] = @ + n]
           base == [counters |-> c, serializers |-> referenced(Serializers, reference.time)]
           w == processReadouts(readouts, reference, c)
<1>1. /\ size = p.length - HeaderSize(p) /\ size \in Nat
      /\ reference = [time |-> toNS(p.pulse), prev |-> toNS(p.prev)]
      /\ reference \in References /\ reference.time \in Nat
      /\ sourceErrors(p) = {} /\ ~pulsesApart(p)
  BY AcceptedFacts DEF Accepted, References
<1>2. counters' = w.counters /\ Serializers' = w.serializers
  BY DEF Accepted
<1>3. n \in Nat /\ n \in 0 .. Len(data) /\ Len(data) \in Nat
  <2> HIDE DEF size
  <2> QED
    BY ParsedReadoutsExist
<1>4. errors \subseteq ParseErrors
  <2>1. size <= Len(data) * CaenReadoutSize
    <3>1. p.length \in Nat /\ HeaderSize(p) \in Nat
      BY DEF Headers, HeaderSize
    <3>2. Len(data) * CaenReadoutSize \in Nat
      BY <1>3 DEF CaenAssumption
    <3> HIDE DEF size
    <3> QED
      BY <1>1, <3>1, <3>2 DEF fills
  <2> HIDE DEF size
  <2> QED
    BY <1>1, <2>1, ParseErrorsKnown
<1>5. /\ readouts \in [1 .. n -> [readout : SectionRecords, packet : {p}]]
      /\ \A i \in 1 .. n : readouts[i].readout = data[i]
  <2>1. \A i \in 1 .. n : data[i] \in SectionRecords
    BY <1>3
  <2> HIDE DEF size
  <2> QED
    BY <2>1 DEF parse, n
<1> HIDE DEF size, reference, n, errors, readouts
<1>6. /\ c \in [CaenCounters -> Nat]
      /\ c["Readouts"] = counters["Readouts"] + n /\ c["Events"] = counters["Events"]
      /\ SumFunctionOnSet(c, Fates) = SumFunctionOnSet(counters, Fates)
      /\ SumFunctionOnSet(counters, Fates) \in Int /\ counters["Readouts"] \in Nat
      /\ \A x \in CaenCounters : x # "Readouts" => c[x] = increment(counters, errors)[x]
  <2> DEFINE d == increment(counters, errors)
  <2>1. counters \in [CaenCounters -> Nat]
    BY DEF ThreadTyped
  <2>2. /\ d \in [CaenCounters -> Nat] /\ SumFunctionOnSet(counters, Fates) \in Int
        /\ d["Readouts"] = counters["Readouts"] /\ d["Events"] = counters["Events"]
    BY <1>4, <2>1, Incremented, FatesAreCounters
  <2>3. SumFunctionOnSet(d, Fates) = SumFunctionOnSet(counters, Fates)
    BY <1>4, <2>1, Incremented, FatesAreCounters
  <2>4. "Readouts" \in CaenCounters /\ "Events" \in CaenCounters /\ d["Readouts"] \in Nat
    BY <2>2, FatesAreCounters
  <2>5. c = [d EXCEPT !["Readouts"] = d["Readouts"] + n]
    OBVIOUS
  <2> HIDE DEF c, d
  <2>6. c \in [CaenCounters -> Nat] /\ c["Readouts"] = d["Readouts"] + n
    BY <1>3, <2>2, <2>4, <2>5
  <2>7. \A x \in CaenCounters : x # "Readouts" => c[x] = d[x]
    BY <2>2, <2>5
  <2>8. SumFunctionOnSet(c, Fates) = SumFunctionOnSet(d, Fates)
    <3>1. \A x \in Fates : d[x] \in Int
      BY <2>2, FatesAreCounters
    <3>2. \A x \in Fates : c[x] = d[x]
      BY <2>7, FatesAreCounters
    <3>3. IsFiniteSet(Fates)
      BY FatesAreCounters
    <3> QED
      BY ONLY <3>1, <3>2, <3>3, SumSame
  <2> QED
    BY <2>1, <2>2, <2>3, <2>4, <2>6, <2>7, <2>8 DEF d
<1> DEFINE ss == referenced(Serializers, reference.time)
<1>7. /\ ss \in [Indices -> SerializerRecords]
      /\ \A i \in Indices : /\ inBatches(ss[i]) = inBatches(Serializers[i])
                            /\ ss[i].referenceTime = reference.time
                            /\ serializerTrue(ss[i])
  <2>1. /\ Serializers \in [Indices -> SerializerRecords] /\ DOMAIN Serializers = Indices
        /\ \A i \in Indices : serializerTrue(Serializers[i])
    BY DEF ThreadTyped, AllEventsTrue
  <2>2. ss = [i \in Indices |-> checkAndSetReferenceTime(Serializers[i], reference.time)]
    BY <2>1 DEF referenced
  <2> HIDE DEF ss
  <2> QED
    BY <1>1, <2>1, <2>2, ReferenceKeeps
<1>8. base = [counters |-> c, serializers |-> ss]
  OBVIOUS
<1> HIDE DEF c, base, ss
<1>9. base \in Works /\ balanced(base) /\ allTrue(base, reference.time)
  <2>1. SumFunctionOnSet(held(ss), Indices) = SumFunctionOnSet(held(Serializers), Indices)
    BY <1>7, SameEventsHeld DEF ThreadTyped
  <2>2. base \in Works
    BY <1>6, <1>7, <1>8 DEF Works
  <2>3. balanced(base)
    BY <1>6, <1>8, <2>1 DEF balanced, EventsHeld
  <2> QED
    BY <1>7, <1>8, <2>2, <2>3 DEF allTrue
<1>10. Processed(base, w, n, readouts, reference, p)
  <2>1. base = [counters |-> c, serializers |-> referenced(Serializers, reference.time)]
    BY <1>8 DEF ss
  <2> QED
    BY <1>1, <1>3, <1>5, <1>6, <1>9, <2>1, ProcessReadouts
<1> HIDE DEF w
<1>11. /\ w.counters \in [CaenCounters -> Nat] /\ w.serializers \in [Indices -> SerializerRecords]
       /\ balanced(w) /\ w.counters["Readouts"] = counters["Readouts"] + n
       /\ SumFunctionOnSet(w.counters, Fates) = SumFunctionOnSet(counters, Fates) + n
       /\ allTrue(w, reference.time)
  BY <1>1, <1>6, <1>8, <1>9, <1>10 DEF Processed, Works
<1>12. ThreadTyped' /\ EventsHeld' /\ AllEventsTrue'
  BY <1>2, <1>11 DEF ThreadTyped, EventsHeld, AllEventsTrue, balanced, allTrue
<1>13. ReadoutsHaveFates'
  BY <1>2, <1>6, <1>11 DEF ReadoutsHaveFates
<1>14. ASSUME \A i \in 1 .. n : OnTime(data[i], reference), NEW x \in Unneeded \ {"Readouts"}
       PROVE  counters'[x] = increment(counters, errors)[x]
  <2>1. \A i \in 1 .. n : OnTime(readouts[i].readout, reference)
    BY <1>5, <1>14
  <2>2. w.counters[x] = base.counters[x]
    BY <1>10, <1>14, <2>1 DEF Processed
  <2>3. base.counters[x] = increment(counters, errors)[x]
    BY <1>6, <1>8, <1>14 DEF Unneeded
  <2> QED
    BY <1>2, <2>2, <2>3
<1> QED
  BY <1>12, <1>13, <1>14 DEF size, reference, n, errors

LEMMA TimeoutKeeps ==
  ASSUME ThreadTyped, ReadoutsHaveFates, EventsHeld, AllEventsTrue, Timeout
  PROVE  ThreadTyped' /\ ReadoutsHaveFates' /\ EventsHeld' /\ AllEventsTrue'
<1>1. /\ counters' = counters
      /\ Serializers \in [Indices -> SerializerRecords] /\ DOMAIN Serializers = Indices
      /\ Serializers' = [i \in Indices |-> produce(Serializers[i])]
  BY DEF Timeout, ThreadTyped
<1>2. /\ Serializers' \in [Indices -> SerializerRecords]
      /\ \A i \in Indices : inBatches(Serializers'[i]) = inBatches(Serializers[i])
      /\ AllEventsTrue'
  BY <1>1, ProduceKeeps DEF AllEventsTrue
<1>3. EventsHeld'
  <2> DEFINE after == Serializers'
  <2>1. \A i \in Indices : inBatches(after[i]) = inBatches(Serializers[i])
    BY <1>2
  <2> HIDE DEF after
  <2>2. SumFunctionOnSet(held(after), Indices) = SumFunctionOnSet(held(Serializers), Indices)
    BY <1>1, <2>1, SameEventsHeld
  <2> QED
    BY <1>1, <2>2 DEF EventsHeld, after
<1> QED
  BY <1>1, <1>2, <1>3 DEF ThreadTyped, ReadoutsHaveFates

\* One packet, with any data that fills it.
LEMMA PacketKeeps ==
  ASSUME CaenInv, NEW p \in Headers, validate(p),
         Rejected \/ \E data \in Seq(SectionRecords) : fills(data, p) /\ Accepted(p, data)
  PROVE  CaenInv'
<1>1. TypeOK'
  BY ValidateTyped DEF CaenInv
<1>2. ThreadTyped /\ ReadoutsHaveFates /\ EventsHeld /\ AllEventsTrue
  BY DEF CaenInv
<1>3. CASE Rejected
  BY <1>1, <1>2, <1>3, RejectedKeeps DEF CaenInv
<1>4. ASSUME NEW data \in Seq(SectionRecords), fills(data, p), Accepted(p, data)
      PROVE  CaenInv'
  BY <1>1, <1>2, <1>4, AcceptedKeeps DEF CaenInv
<1> QED
  BY <1>3, <1>4

LEMMA CaenStep == CaenInv /\ [CaenNext]_vars => CaenInv'
<1> SUFFICES ASSUME CaenInv, [CaenNext]_vars PROVE CaenInv'
  OBVIOUS
<1>1. ASSUME NEW p \in Packets, ProcessPacket(p) PROVE CaenInv'
  <2>1. p \in Headers /\ validate(p)
    BY <1>1, PacketsAssumption DEF ProcessPacket
  <2>2. \A data \in Data : data \in Seq(SectionRecords) /\ fills(data, p)
    BY SectionsAssumption
  <2> QED
    BY <1>1, <2>1, <2>2, PacketKeeps DEF ProcessPacket
<1>2. CASE Timeout
  BY <1>2, TimeoutKeeps DEF CaenInv, Timeout, parser, TypeOK
<1>3. CASE UNCHANGED vars
  BY <1>3 DEF vars, parser, CaenInv, TypeOK, ThreadTyped, ReadoutsHaveFates, EventsHeld,
     AllEventsTrue
<1> QED
  BY <1>1, <1>2, <1>3 DEF CaenNext

THEOREM CaenInvariance == CaenSpec => []CaenInv
  BY InitCaenInv, CaenStep, PTL DEF CaenSpec

LEMMA InvariantAccounts == CaenInv => EventsAccounted
<1> SUFFICES ASSUME CaenInv PROVE EventsAccounted
  OBVIOUS
<1>1. DOMAIN Serializers = Indices
  BY DEF CaenInv, ThreadTyped
<1>2. counters["Events"] =
        SumFunction([i \in DOMAIN Serializers |-> inBatches(Serializers[i])])
  BY <1>1 DEF CaenInv, EventsHeld, held, SumFunction, SumFunctionOnSet, FoldFunction
<1>3. counters["Readouts"] = sum(Fates)
  BY DEF CaenInv, ReadoutsHaveFates, sum
<1> QED
  BY <1>2, <1>3 DEF EventsAccounted, Fates

\* No readout is lost, and no event twice or in no message, for any packets,
\* any number of serializers and any message size.
THEOREM Accounted == CaenSpec => []EventsAccounted
  BY CaenInvariance, InvariantAccounts, PTL

LEMMA InvariantTrue == CaenInv => EventsTrue
<1> SUFFICES ASSUME CaenInv,
                    NEW i \in DOMAIN Serializers,
                    NEW b \in ToSet(batches(Serializers[i])), NEW e \in ToSet(b.events)
             PROVE  isTrue(b.referenceTime, e)
  BY DEF EventsTrue, isTrue
<1> DEFINE s == Serializers[i]
           last == [referenceTime |-> s.referenceTime, events |-> s.events]
<1>1. i \in Indices /\ s \in SerializerRecords /\ serializerTrue(s)
  BY DEF CaenInv, ThreadTyped, AllEventsTrue
<1> HIDE DEF s
<1>2. s.sent \in Seq(Batches) /\ s.events \in Seq(EventRecords)
  BY <1>1 DEF SerializerRecords
<1>3. batchTrue(last)
  BY <1>1 DEF serializerTrue, batchTrue
<1>4. last \in Batches
  BY <1>1 DEF SerializerRecords, Batches
<1>5. b \in Batches /\ batchTrue(b)
  <2>1. PICK k \in DOMAIN Append(s.sent, last) : b = Append(s.sent, last)[k]
    BY DEF ToSet, batches, s
  <2>2. Len(s.sent) \in Nat /\ DOMAIN Append(s.sent, last) = 1 .. Len(s.sent) + 1
    BY <1>2, <1>4
  <2>3. CASE k = Len(s.sent) + 1
    BY <1>2, <1>3, <1>4, <2>1, <2>3
  <2>4. CASE k \in 1 .. Len(s.sent)
    <3>1. b = s.sent[k]
      BY <1>2, <1>4, <2>1, <2>4
    <3> QED
      BY <1>1, <1>2, <2>4, <3>1 DEF serializerTrue
  <2> QED
    BY <2>1, <2>2, <2>3, <2>4
<1>6. PICK k \in 1 .. Len(b.events) : e = b.events[k]
  <2>1. b.events \in Seq(EventRecords)
    BY <1>5 DEF Batches
  <2> QED
    BY <2>1 DEF ToSet
<1> QED
  BY <1>5, <1>6 DEF batchTrue

\* Every event ever sent, or waiting, is under its own packet's pulse with its
\* time of flight from that pulse or the one before.
THEOREM EventsAreTrue == CaenSpec => []EventsTrue
  BY CaenInvariance, InvariantTrue, PTL

USE CaenAssumption

-----------------------------------------------------------------------------
(***************************************************************************)
(* The clock: a time in nanoseconds becomes ticks, and ticks nanoseconds.  *)
(***************************************************************************)
\* A quotient, by the products that bound it.
LEMMA Quotient ==
  ASSUME NEW a \in Int, NEW b \in Nat \ {0}
  PROVE  /\ a \div b \in Int /\ b * (a \div b) \in Int
         /\ b * (a \div b) <= a /\ a < b * (a \div b) + b
         /\ a >= 0 => a \div b \in Nat
<1>1. a \div b \in Int /\ a % b \in 0 .. b - 1 /\ a = b * (a \div b) + (a % b)
  OBVIOUS
<1>2. b * (a \div b) \in Int
  BY <1>1
<1>3. a >= 0 => a \div b \in Nat
  OBVIOUS
<1> QED BY <1>1, <1>2, <1>3

\* The factors of equal or unequal products.
LEMMA Factors ==
  ASSUME NEW f \in Nat \ {0}, NEW a \in Int, NEW b \in Int
  PROVE  /\ f * a \in Int /\ f * b \in Int
         /\ f * a < f * b + f => a <= b
         /\ f * a < f * b => a < b
         /\ a <= b => f * a <= f * b
         /\ f * (a + b) = f * a + f * b /\ f * (a - b) = f * a - f * b
<1>1. f * a \in Int /\ f * b \in Int
  OBVIOUS
<1>2. a <= b => f * a <= f * b
  <2> SUFFICES ASSUME a <= b PROVE f * (b - a) >= 0
    OBVIOUS
  <2>1. b - a \in Nat OBVIOUS
  <2> QED BY <2>1
<1>3. f * a < f * b => a < b
  <2> SUFFICES ASSUME b <= a PROVE f * b <= f * a
    BY <1>1
  <2>1. a - b \in Nat OBVIOUS
  <2>2. f * (a - b) \in Nat BY <2>1
  <2>3. f * (a - b) = f * a - f * b OBVIOUS
  <2> QED BY <1>1, <2>2, <2>3
<1>4. f * a < f * b + f => a <= b
  <2> SUFFICES ASSUME b + 1 <= a PROVE f * b + f <= f * a
    BY <1>1
  <2>1. a - (b + 1) \in Nat OBVIOUS
  <2>2. f * (a - (b + 1)) \in Nat BY <2>1
  <2>3. f * (a - (b + 1)) = f * a - f * b - f OBVIOUS
  <2> QED BY <1>1, <2>2, <2>3
<1>5. f * (a + b) = f * a + f * b /\ f * (a - b) = f * a - f * b
  OBVIOUS
<1> QED BY <1>1, <1>2, <1>3, <1>4, <1>5

\* The nanoseconds of a time, between products.
LEMMA NanosecondsBetween ==
  ASSUME NEW t \in ESSTimes
  PROVE  LET x == t.high * ESSClockFreqHz + t.low
         IN  /\ toNS(t) \in Nat /\ x \in Nat
             /\ ESSClockFreqHz * toNS(t) <= x * SecInNs
             /\ x * SecInNs < ESSClockFreqHz * toNS(t) + ESSClockFreqHz
<1> DEFINE F == ESSClockFreqHz  h == t.high  l == t.low  S == SecInNs  q == (l * S) \div F
<1>1. h \in Nat /\ l \in Nat /\ S \in Nat \ {0} /\ F \in Nat \ {0}
  BY DEF ESSTimes
<1>2. toNS(t) = h * S + q BY DEF toNS
<1>3. toNS(t) \in Nat BY NanosecondsNat
<1> HIDE DEF h, l, F, S
<1>4. l * S \in Nat /\ h * S \in Nat /\ h * F \in Nat BY <1>1
<1>5. q \in Nat /\ F * q \in Int /\ F * q <= l * S /\ l * S < F * q + F
  <2> DEFINE a == l * S
  <2>1. a \in Int /\ a >= 0 BY <1>4
  <2> HIDE DEF a
  <2>2. a \div F \in Nat /\ F * (a \div F) \in Int /\ F * (a \div F) <= a
        /\ a < F * (a \div F) + F
    BY <1>1, <2>1, Quotient
  <2> QED BY <2>2 DEF a
<1> HIDE DEF q
<1>6. F * (h * S + q) = (h * F) * S + F * q /\ (h * F + l) * S = (h * F) * S + l * S
  BY <1>1, <1>5
<1>7. (h * F) * S \in Int BY <1>1, <1>4
<1>8. F * (h * S + q) <= (h * F + l) * S /\ (h * F + l) * S < F * (h * S + q) + F
  <2> DEFINE u == F * (h * S + q)  v == (h * F + l) * S
             c == (h * F) * S  d == F * q  e == l * S
  <2>1. /\ u = c + d /\ v = c + e /\ c \in Int /\ d \in Int /\ e \in Int
        /\ d <= e /\ e < d + F
    BY <1>4, <1>5, <1>6, <1>7
  <2> HIDE DEF u, v, c, d, e
  <2>2. u <= v /\ v < u + F BY <1>1, <2>1
  <2> QED BY <2>2 DEF u, v
<1>9. h * F + l \in Nat BY <1>1, <1>4
<1> QED BY <1>2, <1>3, <1>8, <1>9 DEF F, h, l, S

\* A time that is a number of nanoseconds later.
LEMMA AddedNanoseconds ==
  ASSUME NEW t \in ESSTimes, NEW n \in Nat
  PROVE  /\ addNS(t, n) \in ESSTimes
         /\ toNS(t) <= toNS(addNS(t, n)) /\ toNS(addNS(t, n)) <= toNS(t) + n
<1> DEFINE F == ESSClockFreqHz  S == SecInNs  k == (n * F) \div S  r == addNS(t, n)
           low == t.low + (k % F)  high == t.high + (k \div F)
           x == t.high * F + t.low
<1>1. t.high \in Nat /\ t.low \in Nat /\ S \in Nat \ {0} /\ F \in Nat \ {0}
  BY DEF ESSTimes
<1>2. k \in Nat /\ S * k \in Int /\ S * k <= n * F
  <2> DEFINE a == n * F
  <2>1. a \in Int /\ a >= 0 BY <1>1
  <2> HIDE DEF a, S
  <2>2. a \div S \in Nat /\ S * (a \div S) \in Int /\ S * (a \div S) <= a
    BY <1>1, <2>1, Quotient
  <2> QED BY <2>2 DEF a
<1>3. r = IF low >= F THEN [high |-> high + 1, low |-> low - F] ELSE [high |-> high, low |-> low]
  BY DEF addNS, addTicks
<1> HIDE DEF k, F, S
<1>4. k % F \in 0 .. F - 1 /\ k \div F \in Nat /\ k = F * (k \div F) + (k % F)
  BY <1>1, <1>2
<1>5. r \in ESSTimes /\ r.high * F + r.low = x + k
  <2>1. low \in Nat /\ high \in Nat /\ high * F + low = x + k
    <3> DEFINE d == k \div F  m == k % F
    <3>1. d \in Nat /\ m \in Nat /\ k = F * d + m BY <1>1, <1>4
    <3> HIDE DEF d, m
    <3>2. (t.high + d) * F = t.high * F + F * d BY <1>1, <3>1
    <3>3. t.high * F \in Int /\ F * d \in Int BY <1>1, <3>1
    <3> DEFINE u == t.high * F  v == F * d  y == (t.high + d) * F
    <3>4. low = t.low + m /\ high = t.high + d /\ x = u + t.low BY DEF d, m
    <3>5. y = u + v /\ u \in Int /\ v \in Int /\ k = v + m BY <3>1, <3>2, <3>3
    <3> HIDE DEF u, v, y, low, high, x
    <3>6. y + low = x + k BY <1>1, <3>1, <3>4, <3>5
    <3>7. low \in Nat /\ high \in Nat BY <1>1, <3>1, <3>4
    <3>8. high * F = y BY <3>4 DEF y
    <3> QED BY <3>6, <3>7, <3>8
  <2> HIDE DEF low, high, x
  <2>2. CASE low >= F
    <3>1. r = [high |-> high + 1, low |-> low - F] BY <1>3, <2>2
    <3>2. (high + 1) * F + (low - F) = high * F + low BY <1>1, <2>1
    <3>3. low - F \in Nat /\ high + 1 \in Nat BY <1>1, <2>1, <2>2
    <3> QED BY <2>1, <3>1, <3>2, <3>3 DEF ESSTimes
  <2>3. CASE ~(low >= F)
    <3>1. r = [high |-> high, low |-> low] BY <1>3, <2>3
    <3> QED BY <2>1, <3>1 DEF ESSTimes
  <2> QED BY <2>2, <2>3
<1> HIDE DEF r, low, high
<1> DEFINE a == toNS(t)  b == toNS(r)
<1>6. /\ a \in Nat /\ x \in Nat /\ F * a <= x * S /\ x * S < F * a + F
      /\ b \in Nat /\ x + k \in Nat /\ F * b <= (x + k) * S /\ (x + k) * S < F * b + F
  <2> HIDE DEF x
  <2>1. /\ a \in Nat /\ t.high * F + t.low \in Nat
        /\ F * a <= (t.high * F + t.low) * S /\ (t.high * F + t.low) * S < F * a + F
    BY NanosecondsBetween DEF F, S
  <2>2. /\ b \in Nat /\ r.high * F + r.low \in Nat
        /\ F * b <= (r.high * F + r.low) * S /\ (r.high * F + r.low) * S < F * b + F
    BY <1>5, NanosecondsBetween DEF F, S
  <2> QED BY <1>5, <2>1, <2>2 DEF x
<1> HIDE DEF x, a, b
<1>7. (x + k) * S = x * S + S * k /\ x * S \in Int /\ S * k >= 0
  BY <1>1, <1>2, <1>6
<1>8. a <= b
  <2>1. F * a < F * b + F BY <1>1, <1>2, <1>6, <1>7
  <2> QED BY <1>1, <1>6, <2>1, Factors
<1>9. b <= a + n
  <2>1. F * (a + n) = F * a + n * F /\ F * a \in Int /\ n * F \in Int /\ F * b \in Int
    BY <1>1, <1>6
  <2>2. F * b < F * (a + n) + F BY <1>1, <1>2, <1>6, <1>7, <2>1
  <2>3. a + n \in Int /\ b \in Int BY <1>6
  <2> QED BY <1>1, <2>2, <2>3, Factors
<1> QED BY <1>5, <1>8, <1>9 DEF a, b, r

\* The ticks nearest to a number of nanoseconds are within half a tick of it, and
\* are truncated when they are read.
LEMMA Rounded ==
  ASSUME NEW n \in Nat
  PROVE  LET t == fromNS(n)
             r == toNS(t)
         IN  /\ t \in ESSTimes /\ t.low <= ESSClockFreqHz /\ r \in Nat
             /\ 2 * (ESSClockFreqHz * r) <= 2 * (ESSClockFreqHz * n) + SecInNs
             /\ 2 * (ESSClockFreqHz * n) < 2 * (ESSClockFreqHz * r) + SecInNs
                                           + 2 * ESSClockFreqHz
             /\ n >= SecInNs => r >= SecInNs
             /\ n <= SecInNs => r <= SecInNs
<1> DEFINE F == ESSClockFreqHz  S == SecInNs  h == n \div S  rem == n - h * S
           b == 2 * S  a == 2 * rem * F + S
           q == a \div b  t == fromNS(n)  r == toNS(t)
<1>1. S \in Nat \ {0} /\ F \in Nat \ {0} OBVIOUS
<1>2. t = [high |-> h, low |-> q] BY DEF fromNS
<1> HIDE DEF S, F, t, r
<1>3. h \in Nat /\ S * h <= n /\ n < S * h + S /\ rem \in 0 .. S - 1 /\ S * h \in Nat
      /\ h * S = S * h
  <2>1. h \in Nat /\ S * h <= n /\ n < S * h + S /\ S * h \in Int
    BY <1>1, Quotient
  <2> HIDE DEF h
  <2>2. h * S = S * h /\ S * h \in Nat BY <1>1, <2>1
  <2> DEFINE c == S * h
  <2>3. rem = n - c BY <2>2
  <2>4. c \in Nat /\ c <= n /\ n < c + S BY <2>1, <2>2
  <2> HIDE DEF c, rem
  <2>5. rem \in 0 .. S - 1 BY <1>1, <2>3, <2>4
  <2> QED BY <2>1, <2>2, <2>5
<1>4. n = S * h + rem /\ rem \in Nat
  <2> HIDE DEF h
  <2>1. rem = n - S * h /\ rem \in 0 .. S - 1 BY <1>3
  <2> QED BY <1>1, <1>3, <2>1
<1> HIDE DEF h, rem
<1>5. b \in Nat \ {0} /\ rem * F \in Nat /\ F * rem = rem * F /\ 2 * rem * F = 2 * (rem * F)
  BY <1>1, <1>4
<1>6. q \in Nat /\ b * q \in Int /\ b * q <= a /\ a < b * q + b
  <2>1. a \in Int /\ a >= 0 BY <1>1, <1>5
  <2> HIDE DEF a, b
  <2> QED BY <1>5, <2>1, Quotient
<1>7. b * q = 2 * (q * S) /\ q * S \in Nat
  <2> HIDE DEF q
  <2> QED BY <1>1, <1>6
<1>8. 2 * (q * S) <= 2 * (rem * F) + S /\ 2 * (rem * F) + S < 2 * (q * S) + 2 * S
  BY <1>5, <1>6, <1>7
<1> HIDE DEF q, a, b
<1>9. q <= F
  <2>1. rem * F <= (S - 1) * F
    <3>1. F * rem <= F * (S - 1) BY <1>1, <1>3, Factors
    <3> QED BY <1>1, <1>4, <3>1
  <2>2. (S - 1) * F = S * F - F /\ S * F \in Int BY <1>1
  <2>3. 2 * (q * S) <= 2 * (S * F) + S - 2 * F
    BY <1>1, <1>5, <1>7, <1>8, <2>1, <2>2
  <2>4. S * q < S * F + S
    <3>1. S * q = q * S BY <1>1, <1>6
    <3> QED BY <1>1, <1>7, <2>2, <2>3, <3>1
  <2> QED BY <1>1, <1>6, <2>4, Factors
<1>10. t \in ESSTimes /\ t.low <= F BY <1>2, <1>3, <1>6, <1>9 DEF ESSTimes
<1> DEFINE x == h * F + q
<1>11. r \in Nat /\ x \in Nat /\ F * r <= x * S /\ x * S < F * r + F
  <2> HIDE DEF x
  <2>1. /\ r \in Nat /\ t.high * F + t.low \in Nat
        /\ F * r <= (t.high * F + t.low) * S /\ (t.high * F + t.low) * S < F * r + F
    BY <1>10, NanosecondsBetween DEF F, S, r
  <2> QED BY <1>2, <2>1 DEF x
<1>12. x * S = (h * F) * S + q * S /\ (h * F) * S = F * (S * h) /\ F * (S * h) \in Int
  BY <1>1, <1>3, <1>6
<1>13. F * n = F * (S * h) + rem * F
  <2> DEFINE c == S * h
  <2>1. c \in Nat /\ n = c + rem BY <1>3, <1>4
  <2> HIDE DEF c
  <2>2. F * n = F * c + F * rem BY <1>1, <1>4, <2>1
  <2> QED BY <1>5, <2>2 DEF c
<1> DEFINE u == F * r  v == F * n  w == F * (S * h)  y == q * S  z == rem * F
<1>14. 2 * u <= 2 * v + S /\ 2 * v < 2 * u + S + 2 * F
  <2>1. /\ u \in Int /\ u <= w + y /\ w + y < u + F /\ v = w + z
        /\ w \in Int /\ y \in Int /\ z \in Int
        /\ 2 * y <= 2 * z + S /\ 2 * z + S < 2 * y + 2 * S
    BY <1>1, <1>5, <1>7, <1>8, <1>11, <1>12, <1>13
  <2> HIDE DEF u, v, w, y, z
  <2> QED BY <1>1, <2>1
<1> HIDE DEF x
<1>15. n >= S => r >= S
  <2> SUFFICES ASSUME n >= S PROVE r >= S OBVIOUS
  <2>1. h >= 1
    <3>1. h = 0 => S * h = 0 BY <1>1
    <3> QED BY <1>1, <1>3, <3>1
  <2>2. x >= F
    <3>1. h * F >= F
      <4>1. F * 1 <= F * h BY <1>1, <1>3, <2>1, Factors
      <4> QED BY <1>1, <1>3, <4>1
    <3> QED BY <1>1, <1>3, <1>6, <3>1 DEF x
  <2>3. F * S <= x * S
    <3>1. S * F <= S * x BY <1>1, <1>11, <2>2, Factors
    <3> QED BY <1>1, <1>11, <3>1
  <2>4. F * S < F * r + F
    <3>1. F * S \in Int /\ x * S \in Int /\ F * r \in Int BY <1>1, <1>11
    <3> QED BY <1>1, <1>11, <2>3, <3>1
  <2> QED BY <1>1, <1>11, <2>4, Factors
<1>16. n <= S => r <= S
  <2> SUFFICES ASSUME n <= S PROVE r <= S OBVIOUS
  <2>1. x <= F
    <3>1. CASE n = S
      <4>1. h = 1 /\ rem = 0
        <5>1. S * h <= S /\ S < S * h + S BY <1>3, <3>1
        <5>2. S * 1 < S * h + S /\ S * h < S * 1 + S BY <1>1, <1>3, <5>1
        <5>3. 1 <= h /\ h <= 1 BY <1>1, <1>3, <5>2, Factors
        <5>4. h = 1 BY <1>3, <5>3
        <5> QED BY <1>1, <1>4, <3>1, <5>4
      <4>2. rem * F = 0 BY <1>1, <4>1
      <4>3. 2 * (q * S) <= S BY <1>8, <1>1, <4>2
      <4>4. S * q < S * 1
        <5>1. S * q = q * S BY <1>1, <1>6
        <5> QED BY <1>1, <1>7, <4>3, <5>1
      <4>5. q < 1 BY <1>1, <1>6, <4>4, Factors
      <4> QED BY <1>1, <1>6, <4>1, <4>5 DEF x
    <3>2. CASE n < S
      <4>1. h = 0
        <5>1. S * h < S * 0 + S BY <1>1, <1>3, <3>2
        <5>2. h <= 0 BY <1>1, <1>3, <5>1, Factors
        <5> QED BY <1>3, <5>2
      <4> QED BY <1>1, <1>6, <1>9, <4>1 DEF x
    <3> QED BY <1>1, <3>1, <3>2
  <2>2. F * r <= F * S
    <3>1. S * x <= S * F BY <1>1, <1>11, <2>1, Factors
    <3>2. S * x = x * S /\ S * F = F * S /\ F * S \in Int /\ x * S \in Int BY <1>1, <1>11
    <3> QED BY <1>1, <1>11, <3>1, <3>2
  <2>3. F * r < F * S + F
    <3>1. F * S \in Int /\ F * r \in Int BY <1>1, <1>11
    <3> QED BY <1>1, <2>2, <3>1
  <2> QED BY <1>1, <1>11, <2>3, Factors
<1> QED BY <1>10, <1>11, <1>14, <1>15, <1>16 DEF F, S, t, r

\* A pulse and the one before it, as a generator writes them.
LEMMA PulseBefore ==
  ASSUME NEW n \in Nat, n >= SecInNs, NEW d \in 0 .. SecInNs
  PROVE  LET p == fromNS(n)
             before == minusNS(p, d)
         IN  /\ p \in ESSTimes /\ p.low <= ESSClockFreqHz
             /\ before \in ESSTimes /\ before.low <= ESSClockFreqHz
             /\ toNS(p) - toNS(before) <= d + SecInNs \div ESSClockFreqHz + 1
<1> DEFINE F == ESSClockFreqHz  S == SecInNs  p == fromNS(n)  before == minusNS(p, d)
           P == toNS(p)  a == toNS(fromNS(d))  m == P - a  b == toNS(before)
           k == S \div F
<1>1. S \in Nat \ {0} /\ F \in Nat \ {0} OBVIOUS
<1>2. p \in ESSTimes /\ p.low <= F /\ P \in Nat /\ P >= S
  BY Rounded
<1>3. d \in Nat /\ d <= S BY <1>1
<1>4. a \in Nat /\ a <= S /\ 2 * (F * a) <= 2 * (F * d) + S
  BY <1>3, Rounded
<1>5. before = fromNS(m) BY DEF minusNS
<1> HIDE DEF p, P, a, b, before
<1>6. m \in Nat BY <1>1, <1>2, <1>4
<1> HIDE DEF m
<1>7. /\ before \in ESSTimes /\ before.low <= F /\ b \in Nat
      /\ 2 * (F * m) < 2 * (F * b) + S + 2 * F
  BY <1>5, <1>6, Rounded DEF b
<1>8. k \in Nat /\ F * k \in Int /\ S < F * k + F BY <1>1, Quotient
<1> HIDE DEF k, F, S
<1>9. F * P = F * m + F * a /\ F * (b + d + 1 + k) = F * b + F * d + F + F * k
  <2>1. P = m + a BY <1>2, <1>4 DEF m
  <2> QED BY <1>1, <1>3, <1>4, <1>6, <1>7, <1>8, <2>1
<1>10. F * P < F * (b + d + 1 + k) + F
  <2> DEFINE u == F * m  v == F * a  w == F * b  x == F * d  y == F * k
  <2>1. u \in Int /\ v \in Int /\ w \in Int /\ x \in Int /\ y \in Int
    BY <1>1, <1>3, <1>4, <1>6, <1>7, <1>8
  <2>2. 2 * v <= 2 * x + S /\ 2 * u < 2 * w + S + 2 * F /\ S < y + F
    BY <1>4, <1>7, <1>8
  <2>3. F * P = u + v /\ F * (b + d + 1 + k) = w + x + F + y BY <1>9
  <2> HIDE DEF u, v, w, x, y
  <2>4. u + v < w + x + F + y + F BY <1>1, <2>1, <2>2
  <2> QED BY <2>3, <2>4
<1>11. P <= b + d + 1 + k
  <2>1. P \in Int /\ b + d + 1 + k \in Int BY <1>2, <1>3, <1>7, <1>8
  <2> QED BY <1>1, <1>10, <2>1, Factors
<1>12. P - b <= d + k + 1 BY <1>2, <1>3, <1>7, <1>8, <1>11
<1> QED BY <1>2, <1>7, <1>12 DEF F, S, p, P, b, before, k

-----------------------------------------------------------------------------
(***************************************************************************)
(* The programs that generate readouts.                                    *)
(***************************************************************************)
\* How long a header of program s is, and how many readouts its packets have.
headerOf(s) == IF s.HeaderVersion = 0 THEN HeaderSizeV0 ELSE HeaderSizeV1
readoutsOf(s) ==
  LET n == (BufferSize - headerOf(s)) \div CaenReadoutSize IN n - (n % 2)

\* The buffers of the programs have room for a pair of readouts and are not too
\* large for the instrument, a header is shorter than a readout more, and the
\* numbers do not wrap.
BuffersFit ==
  /\ MinDataSize <= HeaderSizeV0 /\ HeaderSizeV0 <= HeaderSizeV1
  /\ HeaderSizeV1 <= HeaderSizeV0 + CaenReadoutSize
  /\ HeaderSizeV1 + 2 * CaenReadoutSize <= BufferSize /\ BufferSize <= MaxUdpDataSize
  /\ HeaderSizeV0 <= UdpMaxSizeBytes
  /\ UdpMaxSizeBytes + CaenReadoutSize <= MaxUdpDataSize
  /\ MaxSent <= SeqModulus

\* A header that only a fraction of a full second makes unacceptable.
GoodHeader(p) ==
  /\ p \in Headers
  /\ p.size = p.length /\ p.size \in MinDataSize .. MaxUdpDataSize
  /\ p.pad = 0 /\ p.version \in {0, 1} /\ p.cookie /\ p.type /\ p.queue = 0
  /\ sourceErrors(p) = {} /\ p.length >= HeaderSize(p)
  /\ p.pulse.low <= ESSClockFreqHz /\ p.prev.low <= ESSClockFreqHz /\ ~pulsesApart(p)

\* A readout that becomes an event of the packet's own pulse, or none at all.
Timely(p, r) ==
  /\ r.claimed = CaenReadoutSize /\ r.ids /\ r.valid /\ r.pixel # 0
  /\ r.serializer <= numSerializers /\ toNS(r.time) - toNS(p.pulse) \in 0 .. MaxTOF
Blank(r) == r.claimed = 0 /\ r.ids

\* A packet of a program; only a file's may have blanks.
GoodPacket(p, d, source) ==
  /\ GoodHeader(p) /\ d \in Seq(SectionRecords)
  /\ p.length = HeaderSize(p) + Len(d) * CaenReadoutSize
  /\ \A i \in 1 .. Len(d) : Timely(p, d[i]) \/ (source = "file" /\ Blank(d[i]))

\* What is on its way: what the parser does not reject has data that fills it.
Datagrams ==
  {s \in [packet : Headers, data : Seq(SectionRecords)] :
     s.packet.size = s.packet.length => fills(s.data, s.packet)}

\* Any program that runs.
ProgramTyped ==
  /\ Settings \in GeneratorSettings
  /\ now \in Nat /\ now >= SecInNs
  /\ pulseTime \in ESSTimes /\ pulseTime.low <= ESSClockFreqHz
  /\ prevPulseTime \in ESSTimes /\ prevPulseTime.low <= ESSClockFreqHz
  /\ cached \in ESSTimes
  /\ Counter \in Nat /\ SeqNum \in Nat /\ lineSeq \in Nat
  /\ position \in 0 .. Settings.records
  /\ gpc = "lines" => Settings.source = "text"
  /\ gpc \in {"pulse", "packet", "sent", "over"} => Settings.source # "text"
  /\ wire \in Seq(Datagrams) /\ lost \in Nat

\* One that fits the instrument: its pulses are not too far apart, and each of
\* its packets begins with a new time.
ProgramSound ==
  /\ toNS(pulseTime) - toNS(prevPulseTime) <= MaxPulseTimeDiffNS
  /\ Counter = 0

WireSound ==
  \A i \in 1 .. Len(wire) : GoodPacket(wire[i].packet, wire[i].data, Settings.source)

\* The packets that are on their way have the numbers of the last ones sent, and
\* each gap before them is of packets lost.
Numbered ==
  LET first == sentPackets - Len(wire)
  IN  /\ sentPackets \in 0 .. MaxSent /\ first \in Nat
      /\ gpc # "done" => SeqNum = sentPackets /\ (gpc = "lines" => lineSeq = sentPackets)
      /\ \A i \in 1 .. Len(wire) : wire[i].packet.seq = first + i - 1
      /\ NextSeqNum[0] <= first
      /\ ESSHeaderStats["ErrorSeqNum"] + (first - NextSeqNum[0]) <= lost

Understood ==
  /\ \A c \in RejectCounters \ {"ErrorTimeFrac"} : ESSHeaderStats[c] = 0
  /\ Res = "error" => ESSClockFreqHz \in {Packet.pulse.low, Packet.prev.low}

\* What the readouts of a program are not counted as.
Failures == {"ValidationErrors", "TofHigh", "PrevTofNegative", "PrevTofHigh",
             "PixelErrors", "SerializerErrors", "TofNegative"}

OnlyEvents ==
  /\ \A c \in Failures : counters[c] = 0
  /\ \A c \in ParseErrors :
       counters[c] # 0 => Settings.source = "file" /\ c = "DataLenInvalid"

\* While a program runs that fits the instrument.
GeneratorInv ==
  /\ ProgramSound /\ WireSound /\ Understood /\ OnlyEvents
  /\ Settings.multiplicity = 1 => Numbered

RunInv == CaenInv /\ ProgramTyped /\ (fits => GeneratorInv)

\* What the parser makes of such a header.
LEMMA ValidateGood ==
  ASSUME TypeOK, NEW p, GoodHeader(p), validate(p)
  PROVE  /\ Res' \in {"OK", "error"} /\ Packet' = p
         /\ NextSeqNum' = [NextSeqNum EXCEPT ![0] = p.seq + 1]
         /\ \A c \in RejectCounters \ {"ErrorTimeFrac"} :
              ESSHeaderStats'[c] = ESSHeaderStats[c]
         /\ Res' = "error" => ESSClockFreqHz \in {p.pulse.low, p.prev.low}
         /\ ESSHeaderStats'["ErrorSeqNum"] = ESSHeaderStats["ErrorSeqNum"]
                                             + (IF NextSeqNum[0] # p.seq THEN 1 ELSE 0)
<1>1. /\ p \in Headers /\ p.size = p.length /\ p.size \in MinDataSize .. MaxUdpDataSize
      /\ p.pad = 0 /\ p.version \in {0, 1} /\ p.cookie /\ p.type /\ p.queue = 0
      /\ sourceErrors(p) = {} /\ p.length >= HeaderSize(p) /\ ~pulsesApart(p)
      /\ p.pulse.low <= ESSClockFreqHz /\ p.prev.low <= ESSClockFreqHz
  BY DEF GoodHeader
<1>2. p.pulse \in ESSTimes /\ p.prev \in ESSTimes BY <1>1 DEF Headers
<1>3. p.size # 0 /\ p.queue \in Queues
  BY <1>1 DEF Queues
<1>4. pass(HeaderChecks(p))
  <2>1. HeaderChecks(p)[1].ok BY <1>3 DEF HeaderChecks
  <2>2. HeaderChecks(p)[2].ok BY <1>1 DEF HeaderChecks
  <2>3. HeaderChecks(p)[3].ok BY <1>1 DEF HeaderChecks
  <2>4. HeaderChecks(p)[4].ok BY <1>1 DEF HeaderChecks
  <2>5. HeaderChecks(p)[5].ok BY <1>1 DEF HeaderChecks
  <2>6. HeaderChecks(p)[6].ok BY <1>1 DEF HeaderChecks
  <2>7. DOMAIN HeaderChecks(p) = 1 .. 6 BY DEF HeaderChecks
  <2> QED BY <2>1, <2>2, <2>3, <2>4, <2>5, <2>6, <2>7 DEF pass
<1>5. pass(ContentChecks(p))
  <2>1. ContentChecks(p)[1].ok BY <1>1 DEF ContentChecks
  <2>2. ContentChecks(p)[2].ok BY <1>1 DEF ContentChecks
  <2>3. ContentChecks(p)[3].ok BY <1>3 DEF ContentChecks
  <2>4. DOMAIN ContentChecks(p) = 1 .. 3 BY DEF ContentChecks
  <2> QED BY <2>1, <2>2, <2>3, <2>4 DEF pass
<1>6. sourceErrors(p) = {} BY <1>1
<1>7. ESSHeaderStats \in [Counters -> Nat] BY DEF TypeOK
<1>8. ASSUME NEW S, Count(sequence(p) \cup S), S \cap RejectCounters \subseteq {"ErrorTimeFrac"},
             "ErrorSeqNum" \notin S
      PROVE  /\ \A c \in RejectCounters \ {"ErrorTimeFrac"} :
                  ESSHeaderStats'[c] = ESSHeaderStats[c]
             /\ ESSHeaderStats'["ErrorSeqNum"] = ESSHeaderStats["ErrorSeqNum"]
                                                 + (IF NextSeqNum[0] # p.seq THEN 1 ELSE 0)
  <2>1. \A c \in Counters : ESSHeaderStats[c] \in Nat /\ ESSHeaderStats'[c] =
          IF c \in sequence(p) \cup S THEN ESSHeaderStats[c] + 1 ELSE ESSHeaderStats[c]
    BY <1>7, <1>8, CountTyped
  <2>2. RejectCounters \subseteq Counters /\ "ErrorSeqNum" \in Counters BY DEF Counters
  <2>3. \A c \in RejectCounters : c \notin sequence(p)
    BY DEF sequence, VersionCounter, RejectCounters, SourceCounters
  <2>4. "ErrorSeqNum" \in sequence(p) <=> NextSeqNum[0] # p.seq
    BY <1>1 DEF sequence, VersionCounter
  <2>5. \A c \in RejectCounters \ {"ErrorTimeFrac"} : ESSHeaderStats'[c] = ESSHeaderStats[c]
    BY <1>8, <2>1, <2>2, <2>3
  <2> QED BY <1>8, <2>1, <2>2, <2>4, <2>5
<1>9. CASE BadTime(p)
  <2>1. /\ Sequenced(p) /\ ~fracOk(p) /\ Res' = "error"
        /\ Count(sequence(p) \cup {"ErrorTimeFrac"})
    BY <1>6, <1>9 DEF BadTime
  <2>2. ESSClockFreqHz \in {p.pulse.low, p.prev.low}
    BY <1>1, <1>2, <2>1 DEF fracOk, ESSTimes
  <2> QED BY <1>1, <1>8, <2>1, <2>2 DEF Sequenced
<1>10. CASE TimeTaken(p)
  <2> DEFINE S == IF heartbeat(p) THEN {"HeartBeats"} ELSE {}
  <2>1. Sequenced(p) /\ Res' = "OK" /\ Count(sequence(p) \cup S)
    BY <1>1, <1>10 DEF TimeTaken
  <2>2. S \cap RejectCounters \subseteq {"ErrorTimeFrac"} /\ "ErrorSeqNum" \notin S
    BY DEF RejectCounters, SourceCounters
  <2> HIDE DEF S
  <2> QED BY <1>1, <1>8, <2>1, <2>2 DEF Sequenced
<1> QED BY <1>4, <1>5, <1>9, <1>10 DEF validate, NoHeader, Misaddressed

\* What the parser of the data makes of such a packet.
LEMMA ReadoutsOfGood ==
  ASSUME NEW p, NEW d, NEW source, GoodPacket(p, d, source)
  PROVE  LET size == p.length - HeaderSize(p)
         IN  /\ \A i \in 1 .. ParsedReadouts(d, size) : Timely(p, d[i])
             /\ parseErrors(d, size) \subseteq {"DataLenInvalid"}
             /\ parseErrors(d, size) # {} => source = "file"
<1> DEFINE size == p.length - HeaderSize(p)  n == ParsedReadouts(d, size)  C == CaenReadoutSize
           m == Len(d)
<1>1. /\ d \in Seq(SectionRecords) /\ p.length = HeaderSize(p) + m * C
      /\ \A i \in 1 .. m : Timely(p, d[i]) \/ (source = "file" /\ Blank(d[i]))
  BY DEF GoodPacket
<1>2. C \in Nat /\ DataHeaderSize \in Nat /\ C > DataHeaderSize /\ DataHeaderSize > 0 /\ C > 0
  BY DEF CaenAssumption
<1>3. m \in Nat /\ size = m * C /\ m * C \in Nat
  <2>1. m \in Nat /\ m * C \in Nat /\ HeaderSize(p) \in Nat BY <1>1, <1>2 DEF HeaderSize
  <2> QED BY <1>1, <2>1
<1> HIDE DEF size, m, C
<1>4. n \in 0 .. m /\ (\A i \in 1 .. n : good(d, size, i)) /\ stops(d, size, n)
  BY <1>1, ParsedReadoutsExist DEF m
<1> HIDE DEF n
<1>5. \A k \in 0 .. m : left(size, k) = (m - k) * C /\ left(size, k) \in Int
                         /\ (k < m => left(size, k) >= C)
  <2> SUFFICES ASSUME NEW k \in 0 .. m
               PROVE  /\ left(size, k) = (m - k) * C /\ left(size, k) \in Int
                      /\ (k < m => left(size, k) >= C)
    OBVIOUS
  <2>1. left(size, k) = m * C - k * C BY <1>3 DEF left, C
  <2>2. k \in Nat /\ m - k \in Nat BY <1>3
  <2>3. (m - k) * C = m * C - k * C BY <1>2, <1>3, <2>2
  <2>4. (m - k) * C \in Int BY <1>2, <2>2
  <2>5. ASSUME k < m PROVE (m - k) * C >= C
    <3>1. m - k >= 1 BY <1>3, <2>2, <2>5
    <3>2. C * 1 <= C * (m - k) BY <1>2, <2>2, <3>1, Factors
    <3> QED BY <1>2, <2>2, <3>2
  <2> QED BY <2>1, <2>3, <2>4, <2>5
<1>6. ASSUME NEW i \in 1 .. m
      PROVE  LET checks == sectionChecks(d[i], left(size, i - 1))
             IN  /\ DOMAIN checks = 1 .. 4 /\ left(size, i - 1) > 0
                 /\ checks[1].ok /\ checks[4].counter = "DataLenInvalid"
                 /\ Timely(p, d[i]) => pass(checks)
                 /\ Blank(d[i]) => checks[2].ok /\ checks[3].ok /\ ~checks[4].ok
  <2> DEFINE l == left(size, i - 1)
  <2>1. l \in Int /\ l >= C
    <3>1. i - 1 \in 0 .. m /\ i - 1 < m BY <1>3
    <3> QED BY <1>5, <3>1
  <2> HIDE DEF l
  <2> DEFINE checks == sectionChecks(d[i], l)
  <2>2. DOMAIN checks = 1 .. 4 /\ checks[4].counter = "DataLenInvalid" BY DEF sectionChecks
  <2>3. l > 0 /\ l >= DataHeaderSize /\ l >= 0 BY <1>2, <2>1
  <2>6. checks[1].ok BY <2>3 DEF sectionChecks
  <2>4. ASSUME Timely(p, d[i]) PROVE checks[2].ok /\ checks[3].ok /\ checks[4].ok
    <3>1. d[i].claimed = C /\ d[i].ids BY <2>4 DEF Timely, C
    <3>2. checks[2].ok BY <2>1, <3>1 DEF sectionChecks
    <3>3. checks[3].ok BY <3>1 DEF sectionChecks
    <3>4. checks[4].ok BY <3>1 DEF sectionChecks, C
    <3> QED BY <3>2, <3>3, <3>4
  <2>5. ASSUME Blank(d[i]) PROVE checks[2].ok /\ checks[3].ok /\ ~checks[4].ok
    <3>1. d[i].claimed = 0 /\ d[i].ids BY <2>5 DEF Blank
    <3>2. checks[2].ok BY <2>3, <3>1 DEF sectionChecks
    <3>3. checks[3].ok BY <3>1 DEF sectionChecks
    <3>5. d[i].claimed # CaenReadoutSize BY <1>2, <3>1 DEF C
    <3>4. ~checks[4].ok BY <3>5 DEF sectionChecks
    <3> QED BY <3>2, <3>3, <3>4
  <2> HIDE DEF checks
  <2> QED BY <2>2, <2>3, <2>4, <2>5, <2>6 DEF pass, checks, l
<1>7. ASSUME NEW i \in 1 .. n PROVE Timely(p, d[i])
  <2>1. i \in 1 .. m BY <1>3, <1>4
  <2>2. pass(sectionChecks(d[i], left(size, i - 1))) BY <1>4 DEF good
  <2>3. ~Blank(d[i]) BY <1>6, <2>1, <2>2 DEF pass
  <2> QED BY <1>1, <2>1, <2>3 DEF m
<1>8. parseErrors(d, size) \subseteq {"DataLenInvalid"} /\ (parseErrors(d, size) # {} => source = "file")
  <2>1. CASE n = m
    <3>1. left(size, n) = 0 BY <1>2, <1>3, <1>5, <2>1
    <3> QED BY <3>1 DEF parseErrors, n
  <2>2. CASE n # m
    <3>1. n + 1 \in 1 .. m /\ (n + 1) - 1 = n /\ ~good(d, size, n + 1)
      BY <1>3, <1>4, <2>2 DEF stops, m
    <3> DEFINE checks == sectionChecks(d[n + 1], left(size, n))
    <3>2. /\ DOMAIN checks = 1 .. 4 /\ left(size, n) > 0
          /\ checks[1].ok /\ checks[4].counter = "DataLenInvalid"
          /\ Timely(p, d[n + 1]) => pass(checks)
          /\ Blank(d[n + 1]) => checks[2].ok /\ checks[3].ok /\ ~checks[4].ok
      BY <1>6, <3>1
    <3>3. ~pass(checks) BY <3>1, <3>2 DEF good
    <3>4. source = "file" /\ Blank(d[n + 1]) BY <1>1, <3>1, <3>2, <3>3 DEF m
    <3> HIDE DEF checks
    <3>5. failure(checks) = "DataLenInvalid"
      <4> DEFINE P(i) == ~checks[i].ok /\ \A j \in 1 .. i - 1 : checks[j].ok
      <4>1. checks[1].ok /\ checks[2].ok /\ checks[3].ok /\ ~checks[4].ok BY <3>2, <3>4
      <4>2. P(4) /\ 4 \in 1 .. 4 BY <4>1
      <4>3. \A i \in 1 .. 4 : P(i) => i = 4 BY <4>1
      <4>4. failure(checks) = checks[CHOOSE i \in 1 .. 4 : P(i)].counter
        BY <3>2 DEF failure
      <4> HIDE DEF P
      <4>5. (CHOOSE i \in 1 .. 4 : P(i)) = 4 BY <4>2, <4>3
      <4> QED BY <3>2, <4>4, <4>5
    <3> QED BY <3>4, <3>5 DEF parseErrors, n, checks
  <2> QED BY <2>1, <2>2
<1> QED BY <1>7, <1>8 DEF n, size

USE GeneratorAssumption

\* The packets of a program have room for at least a pair of readouts, and are
\* not too large for the instrument.
LEMMA Room ==
  ASSUME BuffersFit, NEW s \in GeneratorSettings
  PROVE  LET n == readoutsOf(s)  h == headerOf(s)
         IN  /\ n \in Nat /\ n >= 2 /\ s.EveryN \in Nat \ {0}
             /\ h \in Nat /\ h >= MinDataSize /\ h >= HeaderSizeV0
             /\ CaenReadoutSize * n \in Nat
             /\ h + CaenReadoutSize * n <= MaxUdpDataSize
<1> DEFINE C == CaenReadoutSize  h == headerOf(s)  a == BufferSize - h  q == a \div C
           n == readoutsOf(s)
<1>1. /\ C \in Nat \ {0} /\ BufferSize \in Nat /\ h \in Nat /\ h >= MinDataSize
      /\ h >= HeaderSizeV0 /\ BufferSize <= MaxUdpDataSize /\ h + 2 * C <= BufferSize
      /\ MaxUdpDataSize \in Nat
  BY DEF BuffersFit, headerOf
<1>2. s.EveryN \in Nat \ {0}
  OBVIOUS
<1>3. n = q - (q % 2) BY DEF readoutsOf
<1> HIDE DEF n, h, C
<1>4. a \in Int /\ a >= 2 * C BY <1>1
<1> HIDE DEF a
<1>5. q \in Int /\ C * q \in Int /\ C * q <= a /\ a < C * q + C
  BY <1>1, <1>4, Quotient
<1> HIDE DEF q
<1>6. q >= 2
  <2>1. C * 2 < C * (q + 1)
    <3>1. C * (q + 1) = C * q + C /\ C * 2 = 2 * C BY <1>1, <1>5
    <3>2. C * q \in Int /\ 2 * C \in Int /\ C \in Int BY <1>1, <1>5
    <3> DEFINE x == C * q  y == 2 * C
    <3>3. x \in Int /\ y \in Int /\ a < x + C /\ a >= y BY <1>4, <1>5, <3>2
    <3>4. y < x + C
      <4> HIDE DEF x, y
      <4> QED BY <1>4, <3>2, <3>3
    <3> QED BY <3>1, <3>4
  <2>2. 2 \in Int /\ q + 1 \in Int BY <1>5
  <2>3. 2 < q + 1 BY <1>1, <2>1, <2>2, Factors
  <2> QED BY <1>5, <2>3
<1>7. n \in Nat /\ n >= 2 /\ n <= q
  <2>1. q % 2 \in {0, 1} BY <1>5
  <2>2. q = 2 => q % 2 = 0 OBVIOUS
  <2> QED BY <1>3, <1>5, <1>6, <2>1, <2>2
<1>8. C * n \in Nat /\ C * n <= C * q
  <2>1. C * n <= C * q BY <1>1, <1>5, <1>7, Factors
  <2>2. C * n \in Nat BY <1>1, <1>7
  <2> QED BY <2>1, <2>2
<1>9. h + C * n <= MaxUdpDataSize
  <2> DEFINE x == C * n  y == C * q
  <2>1. x \in Nat /\ y \in Int /\ x <= y /\ y <= a BY <1>5, <1>8
  <2>2. h + a = BufferSize BY <1>1 DEF a
  <2> HIDE DEF x, y
  <2>3. h + x <= MaxUdpDataSize BY <1>1, <1>4, <2>1, <2>2
  <2> QED BY <2>3 DEF x
<1> QED BY <1>1, <1>2, <1>7, <1>8, <1>9 DEF n, h, C

\* The duration of a pulse.
LEMMA Durations ==
  ASSUME NEW s \in GeneratorSettings
  PROVE  hzToNanoseconds(s.Frequency) \in 0 .. SecInNs
<1> DEFINE f == s.Frequency  q == SecInNs \div f
<1>1. f \in 1 .. SecInNs /\ f \in Nat \ {0} /\ SecInNs \in Nat
  BY DEF GeneratorAssumption
<1> HIDE DEF f
<1>2. q \in Nat /\ f * q \in Int /\ f * q <= SecInNs
  BY <1>1, Quotient
<1>3. q = hzToNanoseconds(s.Frequency) BY DEF hzToNanoseconds, f
<1> HIDE DEF q
<1>4. q <= SecInNs
  <2>1. 1 * q <= f * q
    <3>1. q * 1 <= q * f
      <4>1. CASE q = 0 BY <1>1, <4>1
      <4>2. CASE q # 0 BY <1>1, <1>2, <4>2, Factors
      <4> QED BY <4>1, <4>2
    <3> QED BY <1>1, <1>2, <3>1
  <2>2. 1 * q = q BY <1>2
  <2> DEFINE y == f * q
  <2>3. y \in Int /\ q <= y /\ y <= SecInNs BY <1>2, <2>1, <2>2
  <2> HIDE DEF y
  <2> QED BY <1>1, <1>2, <2>3
<1> QED BY <1>2, <1>3, <1>4

\* The sizes of the packets of the program that runs.
LEMMA Sizes ==
  ASSUME Settings \in GeneratorSettings
  PROVE  /\ headerSize = headerOf(Settings) /\ ReadoutsPerPacket = readoutsOf(Settings)
         /\ duration = hzToNanoseconds(Settings.Frequency)
BY DEF headerSize, headerOf, ReadoutsPerPacket, readoutsOf, duration

\* That a program fits the instrument is a matter of how it was started.
LEMMA FitsStays == ASSUME Settings' = Settings PROVE fits' <=> fits
BY DEF fits, duration, ReadoutsPerPacket, headerSize

\* A time that is drawn for a readout, or kept.
LEMMA TimeDrawn ==
  ASSUME BuffersFit, ProgramTyped,
         NEW values \in [1 .. ReadoutsPerPacket -> 0 .. duration],
         NEW i \in 1 .. ReadoutsPerPacket
  PROVE  LET t == generateReadoutTimeEveryN(values, i)
         IN  /\ t \in ESSTimes
             /\ fits /\ ProgramSound /\ Settings.source # "text" =>
                  toNS(t) - toNS(pulseTime) \in 0 .. MaxTOF
<1> DEFINE n == ReadoutsPerPacket  fresh == {j \in 1 .. i : isNew(j)}
           P(j) == \A k \in fresh : k <= j
           pick == CHOOSE j \in fresh : P(j)
<1>1. /\ Settings \in GeneratorSettings /\ pulseTime \in ESSTimes /\ cached \in ESSTimes
  BY DEF ProgramTyped
<1>2. n \in Nat /\ duration \in 0 .. SecInNs /\ Settings.EveryN \in Nat \ {0}
  BY <1>1, Sizes, Room, Durations
<1> HIDE DEF n
<1>3. ProgramSound => 1 \in fresh
  <2>1. 1 \in 1 .. i /\ 0 + 1 - 1 = 0 /\ 0 % Settings.EveryN = 0 BY <1>2
  <2> QED BY <1>1, <2>1 DEF isNew, ProgramSound
<1>4. CASE fresh = {}
  <2>1. generateReadoutTimeEveryN(values, i) = cached
    BY <1>4 DEF generateReadoutTimeEveryN
  <2> QED BY <1>1, <1>3, <1>4, <2>1
<1>5. CASE fresh # {}
  <2>1. \E j \in fresh : P(j)
    <3>1. fresh \in SUBSET (1 .. i) /\ fresh # {} /\ i \in Nat BY <1>2, <1>5
    <3> HIDE DEF fresh
    <3> QED BY <3>1, MaxIsLargest
  <2>2. pick \in fresh /\ pick \in 1 .. n
    <3>1. pick \in fresh
      <4> HIDE DEF P, fresh
      <4> QED BY <2>1
    <3> HIDE DEF pick
    <3> QED BY <1>2, <3>1 DEF n
  <2>3. generateReadoutTimeEveryN(values, i) = addNS(pulseTime, values[pick])
    BY <1>5 DEF generateReadoutTimeEveryN, generateReadoutTime
  <2> HIDE DEF pick
  <2>4. values[pick] \in 0 .. duration BY <2>2 DEF n
  <2> DEFINE v == values[pick]  t == addNS(pulseTime, v)
  <2>5. v \in Nat /\ v <= duration BY <1>2, <2>4
  <2> HIDE DEF v
  <2>6. t \in ESSTimes /\ toNS(pulseTime) <= toNS(t) /\ toNS(t) <= toNS(pulseTime) + v
    BY <1>1, <2>5, AddedNanoseconds
  <2> HIDE DEF t
  <2>7. toNS(t) \in Nat /\ toNS(pulseTime) \in Nat BY <1>1, <2>6, NanosecondsNat
  <2>8. fits /\ Settings.source # "text" => duration <= MaxTOF BY DEF fits
  <2>9. fits /\ Settings.source # "text" => toNS(t) - toNS(pulseTime) \in 0 .. MaxTOF
    BY <1>2, <2>5, <2>6, <2>7, <2>8
  <2> QED BY <2>3, <2>6, <2>9 DEF t, v
<1> QED BY <1>4, <1>5

\* A packet before bytes of it are overwritten, and after.
LEMMA PacketMade ==
  ASSUME BuffersFit, ProgramTyped,
         NEW readouts \in [1 .. ReadoutsPerPacket -> Settings.readouts],
         NEW values \in [1 .. ReadoutsPerPacket -> 0 .. duration]
  PROVE  LET p == generateHeader  d == generateData(readouts, values)
             n == ReadoutsPerPacket
         IN  /\ p \in Headers /\ p.version = Settings.HeaderVersion
             /\ HeaderSize(p) = headerSize /\ headerSize \in {HeaderSizeV0, HeaderSizeV1}
             /\ n \in Nat /\ n * CaenReadoutSize \in Nat
             /\ p.size = headerSize + n * CaenReadoutSize /\ p.length = p.size
             /\ p.size \in MinDataSize .. MaxUdpDataSize
             /\ d \in [1 .. n -> SectionRecords]
             /\ \A i \in 1 .. n :
                  IF i <= filled
                  THEN d[i] = [readouts[i] EXCEPT
                                 !.time = generateReadoutTimeEveryN(values, i)]
                  ELSE d[i] = blank
<1> DEFINE p == generateHeader  d == generateData(readouts, values)  n == ReadoutsPerPacket
           C == CaenReadoutSize
<1>1. /\ Settings \in GeneratorSettings /\ SeqNum \in Nat
      /\ pulseTime \in ESSTimes /\ prevPulseTime \in ESSTimes
      /\ Settings.HeaderVersion \in {0, 1} /\ Settings.type \in BOOLEAN
      /\ Settings.TimeSource \subseteq Flags /\ Settings.readouts \subseteq SectionRecords
  BY DEF ProgramTyped
<1>2. /\ n \in Nat /\ headerSize \in Nat /\ headerSize >= MinDataSize /\ C * n \in Nat
      /\ headerSize + C * n <= MaxUdpDataSize /\ n * C = C * n /\ n * C \in Nat
  <2>1. /\ n \in Nat /\ headerSize \in Nat /\ headerSize >= MinDataSize /\ C * n \in Nat
        /\ headerSize + C * n <= MaxUdpDataSize
    BY <1>1, Sizes, Room
  <2>2. n * C = C * n BY <2>1
  <2> QED BY <2>1, <2>2
<1>3. DataSize = headerSize + n * C /\ DataSize \in Nat
      /\ DataSize \in MinDataSize .. MaxUdpDataSize
  <2> DEFINE x == n * C
  <2>1. x \in Nat /\ headerSize + x <= MaxUdpDataSize /\ DataSize = headerSize + x
    BY <1>2 DEF DataSize
  <2> HIDE DEF x
  <2>2. DataSize \in MinDataSize .. MaxUdpDataSize /\ DataSize \in Nat BY <1>2, <2>1
  <2> QED BY <2>1, <2>2 DEF x
<1>4. /\ p.size = DataSize /\ p.length = DataSize /\ p.version = Settings.HeaderVersion
  BY DEF generateHeader
<1>5. p \in Headers
  <2>1. SeqNum % SeqModulus \in 0 .. SeqModulus - 1 BY <1>1
  <2>2. DataSize \in Nat /\ Settings.HeaderVersion \in Nat BY <1>1, <1>3
  <2> QED BY <1>1, <2>1, <2>2 DEF generateHeader, Headers
<1>6. HeaderSize(p) = headerSize /\ headerSize \in {HeaderSizeV0, HeaderSizeV1}
  BY <1>4 DEF HeaderSize, headerSize
<1> HIDE DEF p
<1>7. ASSUME NEW i \in 1 .. n
      PROVE  /\ d[i] \in SectionRecords
             /\ IF i <= filled
                THEN d[i] = [readouts[i] EXCEPT !.time = generateReadoutTimeEveryN(values, i)]
                ELSE d[i] = blank
  <2>1. CASE i <= filled
    <3> DEFINE t == generateReadoutTimeEveryN(values, i)  r == readouts[i]
    <3>1. d[i] = [r EXCEPT !.time = t] BY <2>1 DEF generateData
    <3>2. t \in ESSTimes BY TimeDrawn
    <3>3. r \in SectionRecords BY <1>1
    <3> HIDE DEF t, r, d
    <3>4. [r EXCEPT !.time = t] \in SectionRecords BY <3>2, <3>3 DEF SectionRecords
    <3> QED BY <2>1, <3>1, <3>4 DEF t, r
  <2>2. CASE ~(i <= filled)
    <3>1. d[i] = blank BY <2>2 DEF generateData
    <3>2. blank \in SectionRecords BY DEF blank, SectionRecords, ESSTimes
    <3> HIDE DEF d
    <3> QED BY <2>2, <3>1, <3>2
  <2> QED BY <2>1, <2>2
<1>8. d \in [1 .. n -> SectionRecords]
  <2>1. d = [i \in 1 .. n |-> d[i]] BY DEF generateData
  <2> HIDE DEF d
  <2> QED BY <1>7, <2>1
<1> HIDE DEF d, n
<1>9. p.size = headerSize + n * C /\ p.length = p.size BY <1>3, <1>4
<1> QED BY <1>2, <1>3, <1>4, <1>5, <1>6, <1>7, <1>8, <1>9 DEF p, d, n

\* Whatever is overwritten, the data fills the packet if it is not rejected.
LEMMA PacketTyped ==
  ASSUME BuffersFit, ProgramTyped,
         NEW readouts \in [1 .. ReadoutsPerPacket -> Settings.readouts],
         NEW values \in [1 .. ReadoutsPerPacket -> 0 .. duration],
         NEW sent \in finishPacket(generateHeader, generateData(readouts, values))
  PROVE  sent \in Datagrams
<1> DEFINE h == generateHeader  b == generateData(readouts, values)  n == ReadoutsPerPacket
           C == CaenReadoutSize
<1>1. /\ h \in Headers /\ h.version = Settings.HeaderVersion
      /\ HeaderSize(h) = headerSize /\ headerSize \in {HeaderSizeV0, HeaderSizeV1}
      /\ n \in Nat /\ n * C \in Nat /\ h.size = headerSize + n * C /\ h.length = h.size
      /\ b \in [1 .. n -> SectionRecords]
  BY PacketMade
<1>2. /\ C \in Nat /\ {HeaderSizeV0, HeaderSizeV1} \subseteq Nat
      /\ HeaderSizeV0 <= HeaderSizeV1 /\ HeaderSizeV1 <= HeaderSizeV0 + C
      /\ Sections \subseteq SectionRecords /\ Packets \subseteq Headers
  BY SectionsAssumption, PacketsAssumption DEF BuffersFit
<1> SUFFICES ASSUME sent \in finishPacket(h, b) PROVE sent \in Datagrams
  OBVIOUS
<1> HIDE DEF h, b, n, C
<1>3. b \in Seq(SectionRecords) /\ Len(b) = n /\ DOMAIN b = 1 .. n BY <1>1
<1>4. ASSUME NEW p \in Headers, NEW d \in Seq(SectionRecords), p.size = h.size,
             \/ HeaderSize(p) = headerSize /\ Len(d) = n
             \/ Len(d) = n + 1
      PROVE  [packet |-> p, data |-> d] \in Datagrams
  <2> DEFINE x == n * C
  <2>1. x \in Nat /\ p.size = headerSize + x /\ (n + 1) * C = x + C BY <1>1, <1>2, <1>4
  <2>2. HeaderSize(p) \in {HeaderSizeV0, HeaderSizeV1} BY DEF HeaderSize
  <2>3. headerSize + x <= HeaderSize(p) + Len(d) * C
    <3>1. CASE HeaderSize(p) = headerSize /\ Len(d) = n
      <4>1. Len(d) * C = x BY <3>1
      <4> HIDE DEF x
      <4> QED BY <1>1, <1>2, <2>1, <3>1, <4>1
    <3>2. CASE Len(d) = n + 1
      <4>1. Len(d) * C = x + C BY <2>1, <3>2
      <4> HIDE DEF x
      <4> QED BY <1>1, <1>2, <2>1, <2>2, <4>1
    <3> QED BY <1>4, <3>1, <3>2
  <2>4. p.size = p.length => fills(d, p) BY <2>1, <2>3 DEF fills, C
  <2> QED BY <2>4 DEF Datagrams
<1>5. CASE ~Settings.Randomise
  <2>1. sent = [packet |-> h, data |-> b] BY <1>5 DEF finishPacket
  <2> QED BY <1>1, <1>3, <1>4, <2>1
<1>6. CASE Settings.Randomise
  <2>0. PICK p \in fuzzedHeaders(h) : sent \in {[packet |-> p, data |-> d] : d \in fuzzedData(p, b)}
    BY <1>6 DEF finishPacket
  <2>1. PICK d \in fuzzedData(p, b) : sent = [packet |-> p, data |-> d]
    BY <2>0
  <2>2. p \in Headers /\ p.size = h.size
    <3>1. CASE p = h BY <1>1, <3>1
    <3>2. ASSUME NEW q \in Packets, NEW f \in DOMAIN h \ {"size"}, p = [h EXCEPT ![f] = q[f]]
          PROVE  p \in Headers /\ p.size = h.size
      <4>1. q \in Headers BY <1>2
      <4>2. DOMAIN h = {"size", "pad", "version", "cookie", "length", "type", "queue", "seq",
                        "timeSource", "pulse", "prev"}
        BY <1>1 DEF Headers
      <4>3. f \in {"pad", "version", "cookie", "length", "type", "queue", "seq",
                   "timeSource", "pulse", "prev"}
        BY <4>2
      <4> QED BY <1>1, <3>2, <4>1, <4>3 DEF Headers
    <3>3. ASSUME NEW q \in Packets,
                 p \in {[h EXCEPT ![f] = q[f]] : f \in DOMAIN h \ {"size"}}
          PROVE  p \in Headers /\ p.size = h.size
      <4>1. PICK f \in DOMAIN h \ {"size"} : p = [h EXCEPT ![f] = q[f]] BY <3>3
      <4> QED BY <3>2, <4>1
    <3>4. p = h \/ \E q \in Packets :
                     p \in {[h EXCEPT ![f] = q[f]] : f \in DOMAIN h \ {"size"}}
      BY <2>0 DEF fuzzedHeaders
    <3> QED BY <3>1, <3>3, <3>4
  <2>3. d \in Seq(SectionRecords)
        /\ ((HeaderSize(p) = headerSize /\ Len(d) = n) \/ Len(d) = n + 1)
    <3>1. CASE p.version = Settings.HeaderVersion
      <4>1. d \in [1 .. n -> Sections \cup ToSet(b)] BY <1>3, <2>1, <3>1 DEF fuzzedData
      <4>2. ToSet(b) \subseteq SectionRecords BY <1>3 DEF ToSet
      <4>3. d \in [1 .. n -> SectionRecords] BY <1>2, <4>1, <4>2
      <4>4. d \in Seq(SectionRecords) /\ Len(d) = n BY <1>1, <4>3
      <4>5. HeaderSize(p) = HeaderSize(h) BY <1>1, <3>1 DEF HeaderSize
      <4> QED BY <1>1, <4>4, <4>5
    <3>2. CASE p.version # Settings.HeaderVersion
      <4>1. d \in [1 .. n + 1 -> Sections] BY <1>3, <2>1, <3>2 DEF fuzzedData
      <4>2. d \in [1 .. n + 1 -> SectionRecords] BY <1>2, <4>1
      <4> QED BY <1>1, <4>2
    <3> QED BY <3>1, <3>2
  <2> QED BY <1>4, <2>1, <2>2, <2>3
<1> QED BY <1>5, <1>6

\* What a program that fits the instrument sends in generatePackets.
LEMMA PacketSent ==
  ASSUME BuffersFit, ProgramTyped, ProgramSound, fits, Settings.source # "text",
         NEW readouts \in [1 .. ReadoutsPerPacket -> Settings.readouts],
         NEW values \in [1 .. ReadoutsPerPacket -> 0 .. duration]
  PROVE  LET p == generateHeader  d == generateData(readouts, values)
         IN  /\ GoodPacket(p, d, Settings.source) /\ p.seq = SeqNum % SeqModulus
             /\ finishPacket(p, d) = {[packet |-> p, data |-> d]}
<1> DEFINE p == generateHeader  d == generateData(readouts, values)  n == ReadoutsPerPacket
           C == CaenReadoutSize
<1>1. /\ Settings \in GeneratorSettings /\ Settings.HeaderVersion \in {0, 1}
      /\ Settings.readouts \subseteq SectionRecords
      /\ pulseTime \in ESSTimes /\ pulseTime.low <= ESSClockFreqHz
      /\ prevPulseTime \in ESSTimes /\ prevPulseTime.low <= ESSClockFreqHz
      /\ toNS(pulseTime) - toNS(prevPulseTime) <= MaxPulseTimeDiffNS
  BY DEF ProgramTyped, ProgramSound
<1>2. /\ Settings.type /\ ~Settings.Randomise
      /\ sourceErrors([timeSource |-> Settings.TimeSource]) = {}
      /\ \A r \in Settings.readouts :
           r.ids /\ r.valid /\ r.pixel # 0 /\ r.serializer <= numSerializers
  BY DEF fits
<1>3. /\ p.pad = 0 /\ p.version = Settings.HeaderVersion /\ p.cookie /\ p.type /\ p.queue = 0
      /\ p.seq = SeqNum % SeqModulus /\ p.timeSource = Settings.TimeSource
      /\ p.pulse = pulseTime /\ p.prev = prevPulseTime
  BY <1>2 DEF generateHeader
<1>4. finishPacket(p, d) = {[packet |-> p, data |-> d]}
  <2> HIDE DEF p, d
  <2> QED BY <1>2 DEF finishPacket
<1>5. /\ p \in Headers /\ HeaderSize(p) = headerSize /\ n \in Nat
      /\ headerSize \in {HeaderSizeV0, HeaderSizeV1} /\ n * C \in Nat
      /\ p.size = headerSize + n * C /\ p.length = p.size
      /\ p.size \in MinDataSize .. MaxUdpDataSize
      /\ d \in [1 .. n -> SectionRecords]
      /\ \A i \in 1 .. n :
           IF i <= filled
           THEN d[i] = [readouts[i] EXCEPT !.time = generateReadoutTimeEveryN(values, i)]
           ELSE d[i] = blank
  BY PacketMade
<1> HIDE DEF p, d, n
<1>6. sourceErrors(p) = {}
  <2>1. sourceErrors(p) = sourceErrors([timeSource |-> Settings.TimeSource])
    BY <1>3 DEF sourceErrors
  <2> QED BY <1>2, <2>1
<1>7. GoodHeader(p)
  <2>1. ~pulsesApart(p)
    <3>1. toNS(pulseTime) \in Nat /\ toNS(prevPulseTime) \in Nat BY <1>1, NanosecondsNat
    <3> QED BY <1>1, <1>3, <3>1 DEF pulsesApart
  <2>2. p.length >= HeaderSize(p)
    <3> DEFINE x == n * C
    <3>1. x \in Nat /\ p.length = headerSize + x /\ headerSize \in Nat BY <1>5
    <3>2. HeaderSize(p) = headerSize BY <1>5
    <3> HIDE DEF x
    <3> QED BY <3>1, <3>2
  <2>3. p \in Headers /\ p.size = p.length /\ p.size \in MinDataSize .. MaxUdpDataSize
    BY <1>5
  <2>4. p.pad = 0 /\ p.version \in {0, 1} /\ p.cookie /\ p.type /\ p.queue = 0
    BY <1>1, <1>3
  <2>5. p.pulse.low <= ESSClockFreqHz /\ p.prev.low <= ESSClockFreqHz BY <1>1, <1>3
  <2> QED BY <1>6, <2>1, <2>2, <2>3, <2>4, <2>5 DEF GoodHeader
<1>8. ASSUME NEW i \in 1 .. n
      PROVE  Timely(p, d[i]) \/ (Settings.source = "file" /\ Blank(d[i]))
  <2>1. CASE i <= filled
    <3> DEFINE t == generateReadoutTimeEveryN(values, i)  r == readouts[i]
    <3>1. d[i] = [r EXCEPT !.time = t] BY <1>5, <2>1
    <3>2. toNS(t) - toNS(pulseTime) \in 0 .. MaxTOF BY TimeDrawn DEF n
    <3>3. /\ r \in SectionRecords /\ r.claimed = CaenReadoutSize
          /\ r.ids /\ r.valid /\ r.pixel # 0 /\ r.serializer <= numSerializers
      <4>1. r \in Settings.readouts BY DEF n
      <4> HIDE DEF r
      <4> QED BY <1>1, <1>2, <4>1
    <3> HIDE DEF t, r
    <3>4. /\ d[i].claimed = r.claimed /\ d[i].ids = r.ids /\ d[i].valid = r.valid
          /\ d[i].pixel = r.pixel /\ d[i].serializer = r.serializer /\ d[i].time = t
      BY <3>1, <3>3 DEF SectionRecords
    <3> QED BY <1>3, <3>2, <3>3, <3>4 DEF Timely
  <2>2. CASE ~(i <= filled)
    <3>1. d[i] = blank BY <1>5, <2>2
    <3>2. Settings.source = "file" BY <1>5, <2>2 DEF filled, n
    <3> QED BY <3>1, <3>2 DEF blank, Blank
  <2> QED BY <2>1, <2>2
<1>9. d \in Seq(SectionRecords) /\ Len(d) = n
  <2>1. n \in Nat /\ d \in [1 .. n -> SectionRecords] BY <1>5
  <2> QED BY <2>1
<1>10. GoodPacket(p, d, Settings.source)
  <2>1. p.length = HeaderSize(p) + Len(d) * C BY <1>5, <1>9
  <2> QED BY <1>7, <1>8, <1>9, <2>1 DEF GoodPacket, C
<1> QED BY <1>3, <1>4, <1>10 DEF p, d

\* The time that a packet of text has for its pulses.
LEMMA FromZero == fromNS(0) = [high |-> 0, low |-> 0] /\ toNS(fromNS(0)) = 0
<1>1. 0 \div SecInNs = 0 /\ 0 * SecInNs = 0 /\ 0 \div ESSClockFreqHz = 0 OBVIOUS
<1>2. 2 * (0 - 0) * ESSClockFreqHz = 0 OBVIOUS
<1>3. SecInNs \div (2 * SecInNs) = 0
  <2> DEFINE b == 2 * SecInNs  q == SecInNs \div b
  <2>1. b \in Nat \ {0} /\ SecInNs < b /\ SecInNs \in Nat OBVIOUS
  <2> HIDE DEF b
  <2>2. q \in Nat /\ b * q \in Int /\ b * q <= SecInNs BY <2>1, Quotient
  <2> HIDE DEF q
  <2>3. b * 0 = 0 /\ b * 1 = b BY <2>1
  <2>4. ~(1 <= q)
    <3> SUFFICES ASSUME 1 <= q PROVE FALSE OBVIOUS
    <3>1. b * 1 <= b * q BY <2>1, <2>2, Factors
    <3> DEFINE y == b * q
    <3>2. y \in Int /\ b <= y /\ y <= SecInNs BY <2>2, <2>3, <3>1
    <3> HIDE DEF y
    <3> QED BY <2>1, <3>2
  <2>5. q = 0 BY <2>2, <2>4
  <2> QED BY <2>5 DEF q, b
<1>4. fromNS(0) = [high |-> 0, low |-> 0]
  <2>1. 0 + SecInNs = SecInNs OBVIOUS
  <2> QED BY <1>1, <1>2, <1>3, <2>1 DEF fromNS
<1>5. toNS(fromNS(0)) = 0 BY <1>1, <1>4 DEF toNS
<1> QED BY <1>4, <1>5

\* How many lines there are in a packet.
LEMMA Lines ==
  ASSUME BuffersFit
  PROVE  /\ linesPerPacket \in Nat \ {0} /\ CaenReadoutSize * linesPerPacket \in Nat
         /\ HeaderSizeV0 + CaenReadoutSize * linesPerPacket <= MaxUdpDataSize
<1> DEFINE C == CaenReadoutSize  a == UdpMaxSizeBytes - HeaderSizeV0  q == a \div C
<1>1. /\ C \in Nat \ {0} /\ a \in Nat /\ HeaderSizeV0 \in Nat /\ UdpMaxSizeBytes \in Nat
      /\ UdpMaxSizeBytes = HeaderSizeV0 + a /\ UdpMaxSizeBytes + C <= MaxUdpDataSize
      /\ MaxUdpDataSize \in Nat
  BY DEF BuffersFit
<1>2. linesPerPacket = q + 1 BY DEF linesPerPacket
<1> HIDE DEF C, a
<1>3. q \in Nat /\ C * q \in Int /\ C * q <= a BY <1>1, Quotient
<1> HIDE DEF q
<1>4. C * (q + 1) = C * q + C /\ C * (q + 1) \in Nat BY <1>1, <1>3
<1>5. HeaderSizeV0 + C * (q + 1) <= MaxUdpDataSize
  <2> DEFINE y == C * q
  <2>1. y \in Int /\ y <= a /\ C * (q + 1) = y + C BY <1>3, <1>4
  <2> HIDE DEF y
  <2> QED BY <1>1, <2>1
<1> QED BY <1>2, <1>3, <1>4, <1>5 DEF C

\* What sends a packet of lines of text.
LEMMA LinesSent ==
  ASSUME BuffersFit, Settings \in GeneratorSettings, NEW seq \in Nat,
         NEW n \in 1 .. linesPerPacket, NEW lines \in [1 .. n -> Settings.readouts]
  PROVE  LET s == textPacket(lines, seq)
         IN  /\ s \in Datagrams /\ s.packet.seq = seq % SeqModulus
             /\ fits /\ Settings.source = "text" =>
                  GoodPacket(s.packet, s.data, Settings.source)
<1> DEFINE s == textPacket(lines, seq)  p == s.packet  C == CaenReadoutSize
           m == linesPerPacket  size == HeaderSizeV0 + Len(lines) * C  zero == fromNS(0)
<1>1. /\ m \in Nat /\ C * m \in Nat /\ C \in Nat \ {0}
      /\ HeaderSizeV0 \in Nat /\ HeaderSizeV0 >= MinDataSize
      /\ HeaderSizeV0 + C * m <= MaxUdpDataSize
      /\ Settings.readouts \subseteq SectionRecords /\ Settings.type \in BOOLEAN
      /\ \A r \in Settings.readouts : r.claimed = CaenReadoutSize
  BY Lines DEF BuffersFit
<1>2. n \in Nat /\ n <= m BY <1>1
<1> HIDE DEF m
<1>3. lines \in Seq(SectionRecords) /\ Len(lines) = n BY <1>1, <1>2
<1>4. size = HeaderSizeV0 + n * C /\ n * C \in Nat /\ size \in Nat
      /\ size \in MinDataSize .. MaxUdpDataSize /\ size >= HeaderSizeV0
  <2> DEFINE x == n * C  y == C * m
  <2>1. C * n <= C * m BY <1>1, <1>2, Factors
  <2>2. x \in Nat /\ x <= y BY <1>1, <1>2, <2>1
  <2>3. y \in Nat /\ HeaderSizeV0 + y <= MaxUdpDataSize /\ size = HeaderSizeV0 + x BY <1>1, <1>3
  <2> HIDE DEF x, y, size
  <2>4. size \in MinDataSize .. MaxUdpDataSize /\ size >= HeaderSizeV0 /\ size \in Nat
    BY <1>1, <2>2, <2>3
  <2> QED BY <2>2, <2>3, <2>4 DEF x
<1>5. zero \in ESSTimes /\ zero.low <= ESSClockFreqHz /\ toNS(zero) = 0
  BY FromZero DEF ESSTimes
<1>6. /\ p.size = size /\ p.pad = 0 /\ p.version = 0 /\ p.cookie
      /\ p.length = size /\ p.type = Settings.type /\ p.queue = 0 /\ p.seq = seq % SeqModulus
      /\ p.timeSource = {} /\ p.pulse = zero /\ p.prev = zero
      /\ s = [packet |-> p, data |-> lines] /\ s.data = lines
  BY DEF textPacket
<1>7. p \in Headers
  <2>1. seq % SeqModulus \in 0 .. SeqModulus - 1 OBVIOUS
  <2> HIDE DEF size, zero
  <2>2. p = [size |-> size, pad |-> 0, version |-> 0, cookie |-> TRUE, length |-> size,
             type |-> Settings.type, queue |-> 0, seq |-> seq % SeqModulus, timeSource |-> {},
             pulse |-> zero, prev |-> zero]
    BY DEF textPacket, size, zero
  <2> QED BY <1>1, <1>4, <1>5, <2>1, <2>2 DEF Headers
<1> HIDE DEF s, p, size, zero
<1>8. HeaderSize(p) = HeaderSizeV0 BY <1>6 DEF HeaderSize
<1>9. p.length = HeaderSize(p) + Len(lines) * C BY <1>3, <1>4, <1>6, <1>8
<1>10. s \in Datagrams
  <2>1. fills(lines, p)
    <3>1. p.length \in Nat BY <1>4, <1>6
    <3> QED BY <1>9, <3>1 DEF fills, C
  <2> QED BY <1>3, <1>6, <1>7, <2>1 DEF Datagrams
<1>11. ASSUME fits, Settings.source = "text" PROVE GoodPacket(p, lines, Settings.source)
  <2>1. /\ Settings.type /\ \A r \in Settings.readouts :
             /\ r.ids /\ r.valid /\ r.pixel # 0 /\ r.serializer <= numSerializers
             /\ toNS(r.time) <= MaxTOF
    BY <1>11 DEF fits
  <2>2. GoodHeader(p)
    <3>1. ~pulsesApart(p) BY <1>5, <1>6 DEF pulsesApart
    <3>2. sourceErrors(p) = {}
      <4> DEFINE wrong == [ErrorTiming |-> ~("TIME_SOURCE" \in {}) /\ "SYNC_SOURCE" \in {},
                           ErrorTimeStatus |-> ~("TIME_SOURCE" \in {})
                                                 /\ "TIMING_STATUS" \in {},
                           ErrorEvenFibreSync |-> "EVEN_FIBRE_SYNC" \in {},
                           ErrorOddFibreSync |-> "ODD_FIBRE_SYNC" \in {}]
      <4>1. sourceErrors(p) = {c \in SourceCounters : wrong[c]} BY <1>6 DEF sourceErrors
      <4>2. /\ ~wrong["ErrorTiming"] /\ ~wrong["ErrorTimeStatus"]
            /\ ~wrong["ErrorEvenFibreSync"] /\ ~wrong["ErrorOddFibreSync"]
        OBVIOUS
      <4> HIDE DEF wrong
      <4> QED BY <4>1, <4>2 DEF SourceCounters
    <3> QED BY <1>4, <1>5, <1>6, <1>7, <1>8, <2>1, <3>1, <3>2 DEF GoodHeader
  <2>3. ASSUME NEW i \in 1 .. Len(lines) PROVE Timely(p, lines[i])
    <3> DEFINE r == lines[i]
    <3>1. r \in Settings.readouts BY <1>3
    <3> HIDE DEF r
    <3>2. r \in SectionRecords /\ r.claimed = CaenReadoutSize BY <1>1, <3>1
    <3>3. toNS(r.time) \in Nat BY <3>2, NanosecondsNat DEF SectionRecords
    <3>4. toNS(r.time) - toNS(p.pulse) \in 0 .. MaxTOF BY <1>5, <1>6, <2>1, <3>1, <3>3
    <3> QED BY <2>1, <3>1, <3>2, <3>4 DEF Timely, r
  <2> QED BY <1>3, <1>9, <2>2, <2>3 DEF GoodPacket, C
<1> QED BY <1>6, <1>10, <1>11 DEF s, p

GeneratedInv == CaenInv /\ (Settings # None => RunInv)

\* A step of the program alone.
LEMMA ProgramAlone ==
  ASSUME UNCHANGED vars, Settings' = Settings, CaenInv, Understood, OnlyEvents
  PROVE  CaenInv' /\ Understood' /\ OnlyEvents'
BY DEF vars, parser, CaenInv, TypeOK, ThreadTyped, ReadoutsHaveFates, EventsHeld,
       AllEventsTrue, Understood, OnlyEvents

\* Packets put on their way after others.
LEMMA WireGrows ==
  ASSUME wire \in Seq(Datagrams), Settings' = Settings,
         NEW more \in Seq(Datagrams), wire' = wire \o more
  PROVE  /\ wire' \in Seq(Datagrams) /\ Len(wire') = Len(wire) + Len(more)
         /\ \A i \in 1 .. Len(wire) : wire'[i] = wire[i]
         /\ \A i \in 1 .. Len(more) : wire'[Len(wire) + i] = more[i]
         /\ (/\ WireSound
             /\ \A i \in 1 .. Len(more) :
                  GoodPacket(more[i].packet, more[i].data, Settings.source)) => WireSound'
<1> DEFINE m == Len(wire)  k == Len(more)
<1>1. m \in Nat /\ k \in Nat OBVIOUS
<1>2. /\ wire' \in Seq(Datagrams) /\ Len(wire') = m + k
      /\ \A i \in 1 .. m + k : wire'[i] = IF i <= m THEN wire[i] ELSE more[i - m]
  OBVIOUS
<1> HIDE DEF m, k
<1>3. \A i \in 1 .. m : wire'[i] = wire[i] BY <1>1, <1>2
<1>4. \A i \in 1 .. k : wire'[m + i] = more[i]
  <2> SUFFICES ASSUME NEW i \in 1 .. k PROVE wire'[m + i] = more[i] OBVIOUS
  <2>1. m + i \in 1 .. m + k /\ ~(m + i <= m) /\ (m + i) - m = i BY <1>1
  <2> QED BY <1>2, <2>1
<1>5. ASSUME WireSound, NEW i \in 1 .. m + k,
             \A j \in 1 .. k : GoodPacket(more[j].packet, more[j].data, Settings.source)
      PROVE  GoodPacket(wire'[i].packet, wire'[i].data, Settings.source)
  <2>1. CASE i <= m
    <3>1. i \in 1 .. m /\ wire'[i] = wire[i] BY <1>1, <1>2, <2>1
    <3> QED BY <1>5, <3>1 DEF WireSound, m
  <2>2. CASE ~(i <= m)
    <3>1. i - m \in 1 .. k /\ wire'[i] = more[i - m] BY <1>1, <1>2, <2>2
    <3> QED BY <1>5, <3>1
  <2> QED BY <2>1, <2>2
<1>6. ASSUME WireSound,
             \A j \in 1 .. k : GoodPacket(more[j].packet, more[j].data, Settings.source)
      PROVE  WireSound'
  BY <1>2, <1>5, <1>6 DEF WireSound
<1> QED BY <1>2, <1>3, <1>4, <1>6 DEF m, k

\* The first packet leaves.
LEMMA WireShrinks ==
  ASSUME wire \in Seq(Datagrams), Settings' = Settings,
         wire # <<>>, wire' = Tail(wire)
  PROVE  /\ wire' \in Seq(Datagrams)
         /\ Len(wire) \in Nat \ {0} /\ Len(wire') = Len(wire) - 1
         /\ Head(wire) = wire[1] /\ wire[1] \in Datagrams
         /\ \A i \in 1 .. Len(wire') : i + 1 \in 1 .. Len(wire) /\ wire'[i] = wire[i + 1]
         /\ WireSound =>
              WireSound' /\ GoodPacket(wire[1].packet, wire[1].data, Settings.source)
<1>1. /\ wire' \in Seq(Datagrams) /\ Len(wire) \in Nat \ {0} /\ Len(wire') = Len(wire) - 1
      /\ Head(wire) = wire[1] /\ wire[1] \in Datagrams /\ 1 \in 1 .. Len(wire)
      /\ \A i \in 1 .. Len(wire') : i + 1 \in 1 .. Len(wire) /\ wire'[i] = wire[i + 1]
  OBVIOUS
<1> QED BY <1>1 DEF WireSound

LEMMA StartPulseKeeps == ASSUME BuffersFit, RunInv, StartPulse PROVE RunInv'
<1>1. /\ CaenInv /\ ProgramTyped /\ Settings \in GeneratorSettings
      /\ now \in Nat /\ now >= SecInNs /\ Settings.source # "text"
  BY DEF RunInv, ProgramTyped, StartPulse
<1> DEFINE d == duration
<1>2. d \in 0 .. SecInNs
      /\ (fits => d + SecInNs \div ESSClockFreqHz + 1 <= MaxPulseTimeDiffNS)
  BY <1>1, Sizes, Durations DEF fits
<1> HIDE DEF d
<1>3. /\ fromNS(now) \in ESSTimes /\ fromNS(now).low <= ESSClockFreqHz
      /\ minusNS(fromNS(now), d) \in ESSTimes /\ minusNS(fromNS(now), d).low <= ESSClockFreqHz
      /\ toNS(fromNS(now)) - toNS(minusNS(fromNS(now), d))
           <= d + SecInNs \div ESSClockFreqHz + 1
  BY <1>1, <1>2, PulseBefore
<1>4. fits => toNS(fromNS(now)) - toNS(minusNS(fromNS(now), d)) <= MaxPulseTimeDiffNS
  <2> DEFINE a == toNS(fromNS(now))  b == toNS(minusNS(fromNS(now), d))
             k == SecInNs \div ESSClockFreqHz
  <2>1. a \in Nat /\ b \in Nat BY <1>3, NanosecondsNat
  <2>2. k \in Nat BY Quotient
  <2>3. a - b <= d + k + 1 /\ (fits => d + k + 1 <= MaxPulseTimeDiffNS) BY <1>2, <1>3
  <2> HIDE DEF a, b, k
  <2>4. fits => a - b <= MaxPulseTimeDiffNS BY <1>2, <2>1, <2>2, <2>3
  <2> QED BY <2>4 DEF a, b
<1>5. /\ pulseTime' = fromNS(now) /\ prevPulseTime' = minusNS(fromNS(now), d)
      /\ gpc' = "packet" /\ gpc = "pulse" /\ UNCHANGED vars
      /\ UNCHANGED <<Settings, now, sentPackets, SeqNum, cached, Counter, position, lineSeq,
                     wire, lost>>
  BY DEF StartPulse, d
<1>6. ProgramTyped' BY <1>1, <1>3, <1>5 DEF ProgramTyped
<1>7. CaenInv' BY <1>1, <1>5, CaenStep
<1>8. ASSUME fits, GeneratorInv PROVE GeneratorInv'
  <2>1. ProgramSound' BY <1>4, <1>5, <1>8 DEF GeneratorInv, ProgramSound
  <2>2. Understood' /\ OnlyEvents' BY <1>1, <1>5, <1>8, ProgramAlone DEF GeneratorInv
  <2>3. WireSound' BY <1>5, <1>8 DEF GeneratorInv, WireSound
  <2>4. Numbered => Numbered' BY <1>5 DEF Numbered, vars, parser
  <2> QED BY <1>5, <1>8, <2>1, <2>2, <2>3, <2>4 DEF GeneratorInv
<1> QED BY <1>5, <1>6, <1>7, <1>8, FitsStays DEF RunInv

LEMMA PassingKeeps == ASSUME RunInv, CheckPulse \/ EndPulse \/ Tick PROVE RunInv'
<1>1. /\ UNCHANGED vars
      /\ UNCHANGED <<Settings, pulseTime, prevPulseTime, sentPackets, SeqNum, cached, Counter,
                     position, lineSeq, wire, lost>>
  BY DEF CheckPulse, EndPulse, Tick
<1>2. /\ gpc \in {"pulse", "packet", "sent", "over"}
      /\ gpc' \in {"pulse", "packet", "sent", "over", "done"}
      /\ now' \in {now, now + 1}
  BY DEF CheckPulse, EndPulse, Tick
<1>3. CaenInv /\ ProgramTyped BY DEF RunInv
<1>4. ProgramTyped' BY <1>1, <1>2, <1>3 DEF ProgramTyped
<1>5. CaenInv' BY <1>1, <1>3, CaenStep
<1>6. ASSUME GeneratorInv PROVE GeneratorInv'
  <2>1. ProgramSound' BY <1>1, <1>6 DEF GeneratorInv, ProgramSound
  <2>2. Understood' /\ OnlyEvents' BY <1>1, <1>3, <1>6, ProgramAlone DEF GeneratorInv
  <2>3. WireSound' BY <1>1, <1>6 DEF GeneratorInv, WireSound
  <2>4. Numbered => Numbered' BY <1>1, <1>2 DEF Numbered, vars, parser
  <2> QED BY <1>1, <1>6, <2>1, <2>2, <2>3, <2>4 DEF GeneratorInv
<1> QED BY <1>1, <1>4, <1>5, <1>6, FitsStays DEF RunInv

\* The numbers of packets put on their way go on where the last ones ended.
LEMMA NumbersGrow ==
  ASSUME Numbered, UNCHANGED vars, lost' = lost, wire \in Seq(Datagrams),
         NEW k \in Nat, Len(wire') = Len(wire) + k, sentPackets' = sentPackets + k,
         sentPackets + k <= MaxSent,
         \A i \in 1 .. Len(wire) : wire'[i] = wire[i],
         \A i \in 1 .. k : wire'[Len(wire) + i].packet.seq = sentPackets + i - 1,
         gpc' # "done" => SeqNum' = sentPackets' /\ (gpc' = "lines" => lineSeq' = sentPackets')
  PROVE  Numbered'
<1> DEFINE m == Len(wire)  first == sentPackets - m
<1>1. /\ sentPackets \in 0 .. MaxSent /\ first \in Nat /\ m \in Nat
      /\ \A i \in 1 .. m : wire[i].packet.seq = first + i - 1
      /\ NextSeqNum[0] <= first
      /\ ESSHeaderStats["ErrorSeqNum"] + (first - NextSeqNum[0]) <= lost
  BY DEF Numbered
<1>2. Len(wire') = m + k /\ sentPackets' - Len(wire') = first BY <1>1
<1>3. ASSUME NEW i \in 1 .. m + k PROVE wire'[i].packet.seq = first + i - 1
  <2>1. CASE i <= m
    <3>1. i \in 1 .. m BY <1>1, <2>1
    <3> QED BY <1>1, <3>1
  <2>2. CASE ~(i <= m)
    <3>1. i - m \in 1 .. k /\ m + (i - m) = i BY <1>1, <2>2
    <3>2. wire'[m + (i - m)].packet.seq = sentPackets + (i - m) - 1 BY <3>1
    <3>3. sentPackets + (i - m) - 1 = first + i - 1 BY <1>1
    <3> QED BY <3>1, <3>2, <3>3
  <2> QED BY <2>1, <2>2
<1>4. NextSeqNum' = NextSeqNum /\ ESSHeaderStats' = ESSHeaderStats BY DEF vars, parser
<1>5. sentPackets' \in 0 .. MaxSent BY <1>1
<1>6. gpc' # "done" => SeqNum' = sentPackets' /\ (gpc' = "lines" => lineSeq' = sentPackets')
  OBVIOUS
<1> QED BY <1>1, <1>2, <1>3, <1>4, <1>5, <1>6 DEF Numbered

LEMMA SendPacketKeeps == ASSUME BuffersFit, RunInv, SendPacket PROVE RunInv'
<1>1. /\ UNCHANGED vars /\ UNCHANGED <<Settings, now, pulseTime, prevPulseTime, lineSeq, lost>>
      /\ gpc = "packet" /\ gpc' \in {"over", "sent"} /\ sentPackets < MaxSent
      /\ SeqNum' = SeqNum + 1 /\ sentPackets' = sentPackets + 1
      /\ Counter' = (Counter + ReadoutsPerPacket) % Settings.EveryN
      /\ position' = IF Settings.source = "file" THEN nextPosition ELSE 0
  BY DEF SendPacket
<1>2. PICK readouts \in [1 .. ReadoutsPerPacket -> Settings.readouts],
           values \in [1 .. ReadoutsPerPacket -> 0 .. duration] :
        /\ \E sent \in finishPacket(generateHeader, generateData(readouts, values)) :
             wire' = Append(wire, sent)
        /\ cached' = generateReadoutTimeEveryN(values, ReadoutsPerPacket)
  BY DEF SendPacket
<1> DEFINE h == generateHeader  d == generateData(readouts, values)  n == ReadoutsPerPacket
<1>3. PICK s \in finishPacket(h, d) : wire' = Append(wire, s) BY <1>2
<1>4. /\ CaenInv /\ ProgramTyped /\ wire \in Seq(Datagrams) /\ lost \in Nat
      /\ Settings \in GeneratorSettings /\ Settings.source # "text"
      /\ Counter \in Nat /\ SeqNum \in Nat /\ position \in 0 .. Settings.records
  BY <1>1 DEF RunInv, ProgramTyped
<1>5. n \in Nat /\ n >= 2 /\ Settings.EveryN \in Nat \ {0} BY <1>4, Sizes, Room
<1>6. s \in Datagrams BY <1>3, <1>4, PacketTyped
<1> HIDE DEF h, d, n
<1>7. /\ wire' \in Seq(Datagrams) /\ Len(wire') = Len(wire) + 1
      /\ \A i \in 1 .. Len(wire) : wire'[i] = wire[i]
      /\ wire'[Len(wire) + 1] = s
      /\ WireSound /\ GoodPacket(s.packet, s.data, Settings.source) => WireSound'
  <2> DEFINE more == <<s>>
  <2>1. wire' = wire \o more /\ more \in Seq(Datagrams) /\ Len(more) = 1 /\ more[1] = s
    BY <1>3, <1>4, <1>6
  <2> HIDE DEF more
  <2>2. /\ wire' \in Seq(Datagrams) /\ Len(wire') = Len(wire) + Len(more)
        /\ \A i \in 1 .. Len(wire) : wire'[i] = wire[i]
        /\ \A i \in 1 .. Len(more) : wire'[Len(wire) + i] = more[i]
        /\ (/\ WireSound
            /\ \A i \in 1 .. Len(more) :
                 GoodPacket(more[i].packet, more[i].data, Settings.source)) => WireSound'
    BY <1>1, <1>4, <2>1, WireGrows
  <2>3. GoodPacket(s.packet, s.data, Settings.source) =>
          \A i \in 1 .. Len(more) : GoodPacket(more[i].packet, more[i].data, Settings.source)
    BY <2>1
  <2> QED BY <2>1, <2>2, <2>3
<1>8. position' \in 0 .. Settings.records
  <2>1. Settings.records \in Nat BY <1>4
  <2>2. nextPosition \in 0 .. Settings.records
    BY <1>4, <1>5, <2>1 DEF nextPosition, recordsLeft, n
  <2> QED BY <1>1, <2>1, <2>2
<1>9. Counter' \in Nat
  <2>1. Counter + n \in Nat BY <1>4, <1>5
  <2>2. \A a \in Nat, m \in Nat \ {0} : a % m \in Nat OBVIOUS
  <2>3. (Counter + n) % Settings.EveryN \in Nat BY <1>5, <2>1, <2>2
  <2> QED BY <1>1, <2>3 DEF n
<1>10. cached' \in ESSTimes
  <2>1. n \in 1 .. n BY <1>5
  <2> QED BY <1>2, <1>4, <2>1, TimeDrawn DEF n
<1>11. ProgramTyped'
  <2>1. gpc' # "lines" /\ SeqNum' \in Nat BY <1>1, <1>4
  <2> QED BY <1>1, <1>4, <1>7, <1>8, <1>9, <1>10, <2>1 DEF ProgramTyped
<1>12. CaenInv' BY <1>1, <1>4, CaenStep
<1>13. ASSUME fits, GeneratorInv PROVE GeneratorInv'
  <2>1. ProgramSound /\ WireSound /\ Understood /\ OnlyEvents BY <1>13 DEF GeneratorInv
  <2>2. /\ GoodPacket(h, d, Settings.source) /\ h.seq = SeqNum % SeqModulus
        /\ finishPacket(h, d) = {[packet |-> h, data |-> d]}
    BY <1>4, <1>13, <2>1, PacketSent DEF h, d
  <2>3. s.packet = h /\ s.data = d BY <1>3, <2>2
  <2>4. WireSound' BY <1>7, <2>1, <2>2, <2>3
  <2>5. ProgramSound'
    <3>1. Counter = 0 BY <2>1 DEF ProgramSound
    <3>2. n % Settings.EveryN = 0 BY <1>4, <1>13 DEF fits, n
    <3>3. Counter' = 0 BY <1>1, <1>5, <3>1, <3>2 DEF n
    <3> QED BY <1>1, <2>1, <3>3 DEF ProgramSound
  <2>6. Understood' /\ OnlyEvents' BY <1>1, <1>4, <2>1, ProgramAlone
  <2>7. Numbered => Numbered'
    <3> SUFFICES ASSUME Numbered PROVE Numbered' OBVIOUS
    <3>1. SeqNum = sentPackets /\ sentPackets \in Nat BY <1>1 DEF Numbered
    <3>2. SeqNum % SeqModulus = sentPackets
      <4>1. sentPackets < MaxSent /\ MaxSent \in Nat /\ MaxSent <= SeqModulus
        BY <1>1 DEF BuffersFit
      <4>2. sentPackets \in 0 .. SeqModulus - 1 BY <3>1, <4>1
      <4>3. sentPackets % SeqModulus = sentPackets BY <4>2
      <4> QED BY <3>1, <4>3
    <3>3. \A i \in 1 .. 1 : wire'[Len(wire) + i].packet.seq = sentPackets + i - 1
      <4>1. wire'[Len(wire) + 1].packet.seq = sentPackets BY <1>7, <2>2, <2>3, <3>2
      <4>2. sentPackets + 1 - 1 = sentPackets BY <3>1
      <4> QED BY <4>1, <4>2
    <3>4. 1 \in Nat /\ sentPackets + 1 <= MaxSent
      <4>1. sentPackets < MaxSent /\ MaxSent \in Nat BY <1>1
      <4> QED BY <3>1, <4>1
    <3>5. gpc' # "done" => SeqNum' = sentPackets' /\ (gpc' = "lines" => lineSeq' = sentPackets')
      BY <1>1, <3>1
    <3> QED BY <1>1, <1>4, <1>7, <3>3, <3>4, <3>5, NumbersGrow
  <2> QED BY <1>1, <1>13, <2>4, <2>5, <2>6, <2>7 DEF GeneratorInv
<1> QED BY <1>1, <1>11, <1>12, <1>13, FitsStays DEF RunInv

LEMMA SendLinesKeeps == ASSUME BuffersFit, RunInv, SendLines PROVE RunInv'
<1> DEFINE N == linesPerPacket
           n == IF sentPackets >= Settings.NumberOfPackets THEN 0
                ELSE IF recordsLeft > N THEN N ELSE recordsLeft
           full == n = N
           times == IF full THEN Settings.multiplicity ELSE 1
           k == IF n = 0 THEN 0 ELSE times
<1>1. /\ UNCHANGED vars
      /\ UNCHANGED <<Settings, now, pulseTime, prevPulseTime, cached, Counter, lost>>
      /\ gpc = "lines" /\ sentPackets + times <= MaxSent
      /\ sentPackets' = sentPackets + k
      /\ position' = position + n
      /\ SeqNum' = (IF full THEN SeqNum + times ELSE SeqNum) /\ lineSeq' = SeqNum'
      /\ gpc' = IF full THEN "lines" ELSE "done"
  BY DEF SendLines
<1>2. PICK lines \in [1 .. n -> Settings.readouts] :
        wire' = IF n = 0 THEN wire
                ELSE wire \o [i \in 1 .. times |-> textPacket(lines, textNumber(i))]
  BY DEF SendLines
<1> DEFINE more == [i \in 1 .. k |-> textPacket(lines, textNumber(i))]
<1>3. /\ CaenInv /\ ProgramTyped /\ wire \in Seq(Datagrams) /\ lost \in Nat
      /\ Settings \in GeneratorSettings /\ SeqNum \in Nat /\ lineSeq \in Nat
      /\ Settings.multiplicity \in Nat /\ position \in 0 .. Settings.records
      /\ Settings.records \in Nat /\ Settings.source = "text"
  BY <1>1 DEF RunInv, ProgramTyped
<1>4. N \in Nat \ {0} BY Lines
<1>5. n \in 0 .. N /\ position + n \in 0 .. Settings.records
  <2> HIDE DEF N
  <2> QED BY <1>3, <1>4 DEF recordsLeft
<1> HIDE DEF N, n
<1>6. times \in Nat /\ k \in Nat BY <1>3
<1> HIDE DEF times
<1>7. \A i \in 1 .. k : textNumber(i) \in Nat BY <1>3 DEF textNumber
<1>8. ASSUME NEW i \in 1 .. k
      PROVE  /\ more[i] \in Datagrams /\ more[i].packet.seq = textNumber(i) % SeqModulus
             /\ fits => GoodPacket(more[i].packet, more[i].data, Settings.source)
  <2> DEFINE seq == textNumber(i)
  <2>1. n \in 1 .. linesPerPacket BY <1>4, <1>5, <1>8 DEF N
  <2>2. seq \in Nat BY <1>7
  <2>3. more[i] = textPacket(lines, seq) OBVIOUS
  <2> HIDE DEF seq, more
  <2> DEFINE s == textPacket(lines, seq)
  <2>4. /\ s \in Datagrams /\ s.packet.seq = seq % SeqModulus
        /\ fits => GoodPacket(s.packet, s.data, Settings.source)
    BY <1>3, <2>1, <2>2, LinesSent
  <2> HIDE DEF s
  <2>5. more[i] = s BY <2>3 DEF s
  <2> QED BY <2>4, <2>5 DEF seq
<1>9. more \in Seq(Datagrams) /\ Len(more) = k
  <2>1. \A i \in 1 .. k : more[i] \in Datagrams BY <1>8
  <2>2. more = [i \in 1 .. k |-> more[i]] OBVIOUS
  <2> HIDE DEF more, k
  <2>3. more \in [1 .. k -> Datagrams] BY <2>1, <2>2
  <2> QED BY <1>6, <2>3
<1>10. wire' = wire \o more
  <2>1. CASE n = 0
    <3>1. k = 0 BY <2>1
    <3>2. more = <<>>
      <4> HIDE DEF more, k
      <4> QED BY <1>9, <3>1
    <3> HIDE DEF more
    <3> QED BY <1>2, <1>3, <2>1, <3>2
  <2>2. CASE n # 0
    <3>1. k = times BY <2>2
    <3> HIDE DEF k
    <3> QED BY <1>2, <2>2, <3>1
  <2> QED BY <2>1, <2>2
<1> HIDE DEF more
<1>11. /\ wire' \in Seq(Datagrams) /\ Len(wire') = Len(wire) + k
       /\ \A i \in 1 .. Len(wire) : wire'[i] = wire[i]
       /\ \A i \in 1 .. k : wire'[Len(wire) + i] = more[i]
       /\ WireSound /\ fits => WireSound'
  <2> HIDE DEF k
  <2>1. fits => \A i \in 1 .. Len(more) :
                  GoodPacket(more[i].packet, more[i].data, Settings.source)
    BY <1>8, <1>9
  <2> QED BY <1>1, <1>3, <1>9, <1>10, <2>1, WireGrows
<1>12. ProgramTyped'
  BY <1>1, <1>3, <1>5, <1>6, <1>11 DEF ProgramTyped
<1>13. CaenInv' BY <1>1, <1>3, CaenStep
<1>14. ASSUME fits, GeneratorInv PROVE GeneratorInv'
  <2>1. ProgramSound /\ WireSound /\ Understood /\ OnlyEvents BY <1>14 DEF GeneratorInv
  <2>2. WireSound' BY <1>11, <1>14, <2>1
  <2>3. ProgramSound' BY <1>1, <2>1 DEF ProgramSound
  <2>4. Understood' /\ OnlyEvents' BY <1>1, <1>3, <2>1, ProgramAlone
  <2>5. Settings.multiplicity = 1 /\ Numbered => Numbered'
    <3> SUFFICES ASSUME Settings.multiplicity = 1, Numbered PROVE Numbered' OBVIOUS
    <3>1. SeqNum = sentPackets /\ lineSeq = sentPackets /\ sentPackets \in Nat
          /\ sentPackets <= MaxSent
      BY <1>1 DEF Numbered
    <3>2. times = 1 /\ k \in {0, 1} /\ (full => k = 1) BY <1>4 DEF times
    <3>3. sentPackets + k <= MaxSent BY <1>1, <3>1, <3>2
    <3>4. \A i \in 1 .. k : wire'[Len(wire) + i].packet.seq = sentPackets + i - 1
      <4> SUFFICES ASSUME NEW i \in 1 .. k
                   PROVE  wire'[Len(wire) + i].packet.seq = sentPackets + i - 1
        OBVIOUS
      <4>1. i = 1 /\ k = 1 BY <3>2
      <4>2. textNumber(i) = sentPackets BY <3>1, <4>1 DEF textNumber
      <4>3. sentPackets % SeqModulus = sentPackets
        <5>1. sentPackets + 1 <= MaxSent /\ MaxSent \in Nat /\ MaxSent <= SeqModulus
          BY <1>1, <3>2 DEF BuffersFit
        <5>2. sentPackets \in 0 .. SeqModulus - 1 BY <3>1, <5>1
        <5> QED BY <5>2
      <4>4. more[i].packet.seq = sentPackets BY <1>8, <4>2, <4>3
      <4> QED BY <1>11, <3>1, <4>1, <4>4
    <3>5. gpc' # "done" => SeqNum' = sentPackets' /\ (gpc' = "lines" => lineSeq' = sentPackets')
      BY <1>1, <3>1, <3>2
    <3>6. sentPackets' = sentPackets + k /\ lost' = lost BY <1>1
    <3> HIDE DEF k
    <3> QED BY <1>1, <1>3, <1>6, <1>11, <3>3, <3>4, <3>5, <3>6, NumbersGrow
  <2> QED BY <1>1, <1>14, <2>2, <2>3, <2>4, <2>5 DEF GeneratorInv
<1> QED BY <1>1, <1>12, <1>13, <1>14, FitsStays DEF RunInv

HIDE GeneratorAssumption

LEMMA LoseKeeps == ASSUME RunInv, Lose PROVE RunInv'
<1>1. /\ UNCHANGED vars /\ wire # <<>> /\ wire' = Tail(wire) /\ lost' = lost + 1
      /\ UNCHANGED <<Settings, gpc, now, pulseTime, prevPulseTime, sentPackets, SeqNum,
                     cached, Counter, position, lineSeq>>
  BY DEF Lose
<1>2. CaenInv /\ ProgramTyped /\ wire \in Seq(Datagrams) /\ lost \in Nat
  BY DEF RunInv, ProgramTyped
<1>3. /\ wire' \in Seq(Datagrams) /\ (WireSound => WireSound')
      /\ Len(wire) \in Nat \ {0} /\ Len(wire') = Len(wire) - 1
      /\ \A i \in 1 .. Len(wire') : i + 1 \in 1 .. Len(wire) /\ wire'[i] = wire[i + 1]
  BY <1>1, <1>2, WireShrinks
<1>4. ProgramTyped' BY <1>1, <1>2, <1>3 DEF ProgramTyped
<1>5. CaenInv' BY <1>1, <1>2, CaenStep
<1>6. Numbered => Numbered'
  <2> SUFFICES ASSUME Numbered PROVE Numbered' OBVIOUS
  <2> DEFINE m == Len(wire)  first == sentPackets - m
  <2>1. /\ sentPackets \in 0 .. MaxSent /\ first \in Nat
        /\ \A i \in 1 .. m : wire[i].packet.seq = first + i - 1
        /\ NextSeqNum[0] <= first
        /\ ESSHeaderStats["ErrorSeqNum"] + (first - NextSeqNum[0]) <= lost
    BY DEF Numbered
  <2>2. /\ sentPackets' = sentPackets /\ NextSeqNum' = NextSeqNum
        /\ ESSHeaderStats' = ESSHeaderStats
    BY <1>1 DEF vars, parser
  <2>3. NextSeqNum[0] \in Nat /\ ESSHeaderStats["ErrorSeqNum"] \in Nat
    BY <1>2 DEF CaenInv, TypeOK, Queues, Counters
  <2>4. sentPackets' - Len(wire') = first + 1 BY <1>3, <2>1, <2>2
  <2>5. \A i \in 1 .. Len(wire') : wire'[i].packet.seq = (first + 1) + i - 1
    <3> SUFFICES ASSUME NEW i \in 1 .. Len(wire')
                 PROVE  wire'[i].packet.seq = (first + 1) + i - 1
      OBVIOUS
    <3>1. wire'[i].packet.seq = first + (i + 1) - 1 BY <1>3, <2>1
    <3> QED BY <2>1, <3>1
  <2>6. NextSeqNum'[0] <= first + 1
        /\ ESSHeaderStats'["ErrorSeqNum"] + ((first + 1) - NextSeqNum'[0]) <= lost'
    <3> DEFINE e == ESSHeaderStats["ErrorSeqNum"]  next == NextSeqNum[0]
    <3>1. lost' = lost + 1 /\ lost \in Nat BY <1>1, <1>2
    <3>2. /\ e \in Nat /\ next \in Nat /\ first \in Nat /\ next <= first
          /\ e + (first - next) <= lost
      BY <2>1, <2>3
    <3>3. ESSHeaderStats'["ErrorSeqNum"] = e /\ NextSeqNum'[0] = next BY <2>2
    <3> HIDE DEF first, e, next
    <3>4. next <= first + 1 /\ e + ((first + 1) - next) <= lost + 1 BY <3>1, <3>2
    <3> QED BY <3>1, <3>3, <3>4
  <2>7. gpc' # "done" => SeqNum' = sentPackets' /\ (gpc' = "lines" => lineSeq' = sentPackets')
    BY <1>1 DEF Numbered
  <2>8. first + 1 \in Nat /\ sentPackets' \in 0 .. MaxSent BY <2>1, <2>2
  <2> HIDE DEF first
  <2> QED BY <2>4, <2>5, <2>6, <2>7, <2>8 DEF Numbered
<1>7. ASSUME GeneratorInv PROVE GeneratorInv'
  <2>1. ProgramSound' BY <1>1, <1>7 DEF GeneratorInv, ProgramSound
  <2>2. Understood' /\ OnlyEvents' BY <1>1, <1>2, <1>7, ProgramAlone DEF GeneratorInv
  <2> QED BY <1>1, <1>3, <1>6, <1>7, <2>1, <2>2 DEF GeneratorInv
<1> QED BY <1>1, <1>4, <1>5, <1>7, FitsStays DEF RunInv

\* A packet of a program that fits.
LEMMA ReceivedGood ==
  ASSUME CaenInv, ProgramTyped, GeneratorInv, Receive
  PROVE  GeneratorInv'
<1> DEFINE p == wire[1].packet  d == wire[1].data
<1>1. /\ wire # <<>> /\ wire' = Tail(wire)
      /\ validate(Head(wire).packet)
      /\ Rejected \/ Accepted(Head(wire).packet, Head(wire).data)
      /\ UNCHANGED <<Settings, gpc, now, pulseTime, prevPulseTime, sentPackets, SeqNum,
                     Counter, position, lineSeq, lost>>
  BY DEF Receive
<1>2. /\ wire \in Seq(Datagrams) /\ WireSound /\ Understood /\ OnlyEvents /\ lost \in Nat
      /\ TypeOK /\ counters \in [CaenCounters -> Nat]
  BY DEF ProgramTyped, GeneratorInv, CaenInv, ThreadTyped
<1>3. /\ wire' \in Seq(Datagrams) /\ WireSound'
      /\ Len(wire) \in Nat \ {0} /\ Len(wire') = Len(wire) - 1
      /\ Head(wire) = wire[1] /\ wire[1] \in Datagrams
      /\ GoodPacket(p, d, Settings.source)
      /\ \A i \in 1 .. Len(wire') : i + 1 \in 1 .. Len(wire) /\ wire'[i] = wire[i + 1]
  BY <1>1, <1>2, WireShrinks
<1>4. /\ p \in Headers /\ d \in Seq(SectionRecords) /\ GoodHeader(p)
      /\ p.length = HeaderSize(p) + Len(d) * CaenReadoutSize
  BY <1>3 DEF GoodPacket, GoodHeader
<1>5. validate(p) /\ (Rejected \/ Accepted(p, d)) BY <1>1, <1>3
<1> HIDE DEF p, d
<1>6. fills(d, p)
  <2>1. p.length \in Nat BY <1>4 DEF Headers
  <2> QED BY <1>4, <2>1 DEF fills
<1>7. ProgramSound' BY <1>1 DEF GeneratorInv, ProgramSound
<1>8. /\ Packet' = p /\ NextSeqNum' = [NextSeqNum EXCEPT ![0] = p.seq + 1]
      /\ \A c \in RejectCounters \ {"ErrorTimeFrac"} : ESSHeaderStats'[c] = ESSHeaderStats[c]
      /\ Res' = "error" => ESSClockFreqHz \in {p.pulse.low, p.prev.low}
      /\ ESSHeaderStats'["ErrorSeqNum"] = ESSHeaderStats["ErrorSeqNum"]
                                          + (IF NextSeqNum[0] # p.seq THEN 1 ELSE 0)
  BY <1>2, <1>4, <1>5, ValidateGood
<1>9. Understood' BY <1>2, <1>8 DEF Understood
<1>10. OnlyEvents'
  <2>1. /\ Failures \subseteq Unneeded \ {"Readouts"} /\ ParseErrors \subseteq Unneeded \ {"Readouts"}
        /\ "ErrorESSHeaders" \notin Failures \cup ParseErrors
        /\ "DataLenInvalid" \notin Failures
    <3>1. "TofNegative" \in CaenCounters BY DEF CaenCounters, TofCounters, TofNames
    <3>2. Failures \subseteq Fates \cup {"TofNegative"} /\ "Events" \notin Failures
          /\ "TofCount" \notin Failures /\ "Readouts" \notin Failures
      BY DEF Failures, Fates
    <3>3. ParseErrors \subseteq CaenCounters /\ "Events" \notin ParseErrors
          /\ "TofCount" \notin ParseErrors /\ "Readouts" \notin ParseErrors
      BY DEF ParseErrors, CaenCounters
    <3>4. "ErrorESSHeaders" \notin Failures \cup ParseErrors /\ "DataLenInvalid" \notin Failures
      BY DEF Failures, ParseErrors
    <3> QED BY <3>1, <3>2, <3>3, <3>4, FatesAreCounters DEF Unneeded
  <2>2. CASE Rejected
    <3>1. \A x \in CaenCounters : x # "ErrorESSHeaders" => counters'[x] = counters[x]
      BY <1>2, <2>2 DEF Rejected, increment
    <3>2. \A x \in Failures \cup ParseErrors : counters'[x] = counters[x]
      BY <2>1, <3>1 DEF Unneeded
    <3> QED BY <1>1, <1>2, <3>2 DEF OnlyEvents
  <2>3. CASE Accepted(p, d)
    <3> DEFINE size == p.length - HeaderSize(p)  errors == parseErrors(d, size)
    <3>1. Res' = "OK" BY <2>3 DEF Accepted
    <3>2. DataLength' = size /\ Time'.time = toNS(p.pulse)
      BY <1>4, <1>5, <3>1, AcceptedFacts
    <3>3. /\ \A i \in 1 .. ParsedReadouts(d, size) : Timely(p, d[i])
          /\ errors \subseteq {"DataLenInvalid"} /\ (errors # {} => Settings.source = "file")
      BY <1>3, ReadoutsOfGood DEF p, d
    <3> HIDE DEF size, errors
    <3>4. \A i \in 1 .. ParsedReadouts(d, size) : OnTime(d[i], Time')
      BY <3>2, <3>3 DEF Timely, OnTime
    <3>5. \A x \in Unneeded \ {"Readouts"} : counters'[x] = increment(counters, errors)[x]
      <4>1. ThreadTyped /\ ReadoutsHaveFates /\ EventsHeld /\ AllEventsTrue BY DEF CaenInv
      <4>2. (\A i \in 1 .. ParsedReadouts(d, DataLength') : OnTime(d[i], Time')) =>
              \A x \in Unneeded \ {"Readouts"} :
                counters'[x] = increment(counters, parseErrors(d, DataLength'))[x]
        BY <1>4, <1>5, <1>6, <2>3, <4>1, AcceptedKeeps
      <4> QED BY <3>2, <3>4, <4>2 DEF errors
    <3>6. \A x \in Failures \cup ParseErrors :
            counters'[x] = IF x \in errors THEN counters[x] + 1 ELSE counters[x]
      BY <2>1, <3>5 DEF increment, Unneeded
    <3>7. \A c \in Failures : counters'[c] = 0
      BY <1>2, <2>1, <3>3, <3>6 DEF OnlyEvents
    <3>8. \A c \in ParseErrors :
            counters'[c] # 0 => Settings.source = "file" /\ c = "DataLenInvalid"
      BY <1>2, <3>3, <3>6 DEF OnlyEvents
    <3> QED BY <1>1, <3>7, <3>8 DEF OnlyEvents
  <2> QED BY <1>5, <2>2, <2>3
<1>11. Numbered => Numbered'
  <2> SUFFICES ASSUME Numbered PROVE Numbered' OBVIOUS
  <2> DEFINE m == Len(wire)  first == sentPackets - m
  <2>1. /\ sentPackets \in 0 .. MaxSent /\ first \in Nat
        /\ \A i \in 1 .. m : wire[i].packet.seq = first + i - 1
        /\ NextSeqNum[0] <= first
        /\ ESSHeaderStats["ErrorSeqNum"] + (first - NextSeqNum[0]) <= lost
    BY DEF Numbered
  <2>2. sentPackets' = sentPackets /\ lost' = lost BY <1>1
  <2>3. NextSeqNum[0] \in Nat /\ ESSHeaderStats["ErrorSeqNum"] \in Nat
        /\ NextSeqNum \in [Queues -> Nat] /\ 0 \in Queues
    BY <1>2 DEF TypeOK, Queues, Counters
  <2>4. p.seq = first
    <3>1. 1 \in 1 .. m /\ first + 1 - 1 = first BY <1>3, <2>1
    <3> QED BY <2>1, <3>1 DEF p
  <2>5. NextSeqNum'[0] = first + 1 BY <1>8, <2>3, <2>4
  <2>6. sentPackets' - Len(wire') = first + 1 BY <1>3, <2>1, <2>2
  <2>7. \A i \in 1 .. Len(wire') : wire'[i].packet.seq = (first + 1) + i - 1
    <3> SUFFICES ASSUME NEW i \in 1 .. Len(wire')
                 PROVE  wire'[i].packet.seq = (first + 1) + i - 1
      OBVIOUS
    <3>1. wire'[i].packet.seq = first + (i + 1) - 1 BY <1>3, <2>1
    <3> QED BY <2>1, <3>1
  <2>8. NextSeqNum'[0] <= first + 1
        /\ ESSHeaderStats'["ErrorSeqNum"] + ((first + 1) - NextSeqNum'[0]) <= lost'
    <3> DEFINE e == ESSHeaderStats["ErrorSeqNum"]  next == NextSeqNum[0]
    <3>1. ESSHeaderStats'["ErrorSeqNum"] = e + (IF next # first THEN 1 ELSE 0)
      BY <1>8, <2>4
    <3>2. e \in Nat /\ next \in Nat /\ first \in Nat /\ next <= first /\ e + (first - next) <= lost
      BY <2>1, <2>3
    <3> HIDE DEF first, e, next
    <3>3. e + (IF next # first THEN 1 ELSE 0) <= lost BY <1>2, <3>2
    <3>4. (first + 1) - NextSeqNum'[0] = 0 BY <2>5, <3>2
    <3>5. e + (IF next # first THEN 1 ELSE 0) + 0 <= lost BY <3>2, <3>3
    <3> QED BY <2>2, <2>5, <3>1, <3>2, <3>4, <3>5
  <2>9. gpc' # "done" => SeqNum' = sentPackets' /\ (gpc' = "lines" => lineSeq' = sentPackets')
    BY <1>1 DEF Numbered
  <2>10. first + 1 \in Nat /\ sentPackets' \in 0 .. MaxSent BY <2>1, <2>2
  <2> HIDE DEF first
  <2> QED BY <2>6, <2>7, <2>8, <2>9, <2>10 DEF Numbered
<1> QED BY <1>1, <1>3, <1>7, <1>9, <1>10, <1>11 DEF GeneratorInv


LEMMA ReceiveKeeps == ASSUME RunInv, Receive PROVE RunInv'
<1> DEFINE p == wire[1].packet  d == wire[1].data
<1>1. /\ wire # <<>> /\ wire' = Tail(wire)
      /\ validate(Head(wire).packet)
      /\ Rejected \/ Accepted(Head(wire).packet, Head(wire).data)
      /\ UNCHANGED <<Settings, gpc, now, pulseTime, prevPulseTime, sentPackets, SeqNum,
                     cached, Counter, position, lineSeq, lost>>
  BY DEF Receive
<1>2. CaenInv /\ ProgramTyped /\ wire \in Seq(Datagrams)
  BY DEF RunInv, ProgramTyped
<1>3. wire' \in Seq(Datagrams) /\ Head(wire) = wire[1] /\ wire[1] \in Datagrams
  BY <1>1, <1>2, WireShrinks
<1>4. /\ p \in Headers /\ d \in Seq(SectionRecords)
      /\ p.size = p.length => fills(d, p)
  BY <1>3 DEF Datagrams
<1>5. validate(p) /\ (Rejected \/ Accepted(p, d)) BY <1>1, <1>3
<1> HIDE DEF p, d
<1>6. Accepted(p, d) => fills(d, p)
  <2> SUFFICES ASSUME Res' = "OK" PROVE p.size = p.length
    BY <1>4 DEF Accepted
  <2>1. Res' # "error" OBVIOUS
  <2>2. pass(ContentChecks(p))
    BY <1>5, <2>1 DEF validate, NoHeader, Misaddressed, BadTime, TimeTaken, Sequenced
  <2>3. DOMAIN ContentChecks(p) = 1 .. 3 BY DEF ContentChecks
  <2>4. ContentChecks(p)[1].ok => p.size = p.length BY DEF ContentChecks
  <2> QED BY <2>2, <2>3, <2>4 DEF pass
<1>7. CaenInv' BY <1>2, <1>4, <1>5, <1>6, PacketKeeps
<1>8. ProgramTyped' BY <1>1, <1>2, <1>3 DEF ProgramTyped
<1>9. fits => GeneratorInv' BY <1>2, ReceivedGood DEF RunInv
<1> QED BY <1>1, <1>7, <1>8, <1>9, FitsStays DEF RunInv

USE GeneratorAssumption

LEMMA InitGeneratedInv == GeneratedInit => GeneratedInv
<1> SUFFICES ASSUME GeneratedInit PROVE GeneratedInv
  OBVIOUS
<1>1. CaenInit /\ CaenInv BY InitCaenInv DEF GeneratedInit
<1>2. CASE generatorOff BY <1>1, <1>2 DEF generatorOff, GeneratedInv
<1>3. CASE initialize
  <2>1. /\ Settings \in GeneratorSettings /\ now \in SecInNs .. 2 * SecInNs - 1
        /\ gpc = (IF Settings.source = "text" THEN "lines" ELSE "pulse")
        /\ pulseTime = fromNS(now) /\ prevPulseTime = pulseTime
        /\ sentPackets = 0 /\ SeqNum = 0 /\ cached = fromNS(0) /\ Counter = 0
        /\ position = 0 /\ lineSeq = 0 /\ wire = <<>> /\ lost = 0
    BY <1>3 DEF initialize
  <2>2. now \in Nat /\ now >= SecInNs BY <2>1
  <2>3. pulseTime \in ESSTimes /\ pulseTime.low <= ESSClockFreqHz /\ toNS(pulseTime) \in Nat
    BY <2>1, <2>2, Rounded
  <2>4. toNS(pulseTime) - toNS(prevPulseTime) <= MaxPulseTimeDiffNS BY <2>1, <2>3
  <2>5. Settings.records \in Nat BY <2>1
  <2>6. ProgramSound BY <2>1, <2>4 DEF ProgramSound
  <2>7. WireSound /\ wire \in Seq(Datagrams) BY <2>1 DEF WireSound
  <2>12. fromNS(0) \in ESSTimes BY FromZero DEF ESSTimes
  <2>13. ProgramTyped BY <2>1, <2>2, <2>3, <2>5, <2>7, <2>12 DEF ProgramTyped
  <2>8. /\ NextSeqNum[0] = 0 /\ Res # "error"
        /\ \A c \in Counters : ESSHeaderStats[c] = 0
    BY <1>1 DEF CaenInit, Init, Queues
  <2>9. Understood BY <2>8 DEF Understood, Counters
  <2>10. OnlyEvents
    <3>1. ParseErrors \subseteq CaenCounters BY FatesAreCounters
    <3>2. Failures \subseteq CaenCounters
      <4>1. Failures \subseteq Fates \cup {"TofNegative"} BY DEF Failures, Fates
      <4>2. "TofNegative" \in CaenCounters BY DEF CaenCounters, TofCounters, TofNames
      <4> QED BY <4>1, <4>2, FatesAreCounters
    <3>3. \A c \in CaenCounters : counters[c] = 0
      <4>1. counters = [c \in CaenCounters |-> 0] BY <1>1 DEF CaenInit
      <4> QED BY <4>1
    <3> QED BY <3>1, <3>2, <3>3 DEF OnlyEvents
  <2>11. Numbered
    <3>1. Len(wire) = 0 /\ 0 - 0 = 0 BY <2>1
    <3>2. ESSHeaderStats["ErrorSeqNum"] = 0 BY <2>8 DEF Counters
    <3> QED BY <2>1, <2>8, <3>1, <3>2 DEF Numbered
  <2> QED BY <1>1, <2>6, <2>7, <2>9, <2>10, <2>11, <2>13 DEF GeneratedInv, RunInv, GeneratorInv
<1> QED BY <1>2, <1>3 DEF GeneratedInit

LEMMA GeneratedStep ==
  ASSUME BuffersFit, GeneratedInv, [GeneratedNext]_<<vars, generator>>
  PROVE  GeneratedInv'
<1>1. CASE Settings = None /\ CaenNext /\ UNCHANGED generator
  <2>1. Settings' = None BY <1>1 DEF generator
  <2>2. CaenInv' BY <1>1, CaenStep DEF GeneratedInv
  <2> QED BY <2>1, <2>2 DEF GeneratedInv
<1>2. CASE GeneratorNext
  <2>1. RunInv BY <1>2 DEF GeneratorNext, GeneratedInv
  <2>0. RunInv' => GeneratedInv' BY DEF RunInv, GeneratedInv
  <2>2. CASE StartPulse BY <2>0, <2>1, <2>2, StartPulseKeeps
  <2>3. CASE SendPacket BY <2>0, <2>1, <2>3, SendPacketKeeps
  <2>4. CASE CheckPulse \/ EndPulse \/ Tick BY <2>0, <2>1, <2>4, PassingKeeps
  <2>5. CASE SendLines BY <2>0, <2>1, <2>5, SendLinesKeeps
  <2>6. CASE Lose BY <2>0, <2>1, <2>6, LoseKeeps
  <2>7. CASE Receive BY <2>0, <2>1, <2>7, ReceiveKeeps
  <2> QED BY <1>2, <2>2, <2>3, <2>4, <2>5, <2>6, <2>7 DEF GeneratorNext
<1>3. CASE UNCHANGED <<vars, generator>>
  <2>1. UNCHANGED vars /\ UNCHANGED generator BY <1>3
  <2>2. UNCHANGED <<Settings, gpc, now, pulseTime, prevPulseTime, sentPackets, SeqNum,
                    cached, Counter, position, lineSeq, wire, lost>>
    BY <2>1 DEF generator
  <2>3. CaenInv' BY <2>1, CaenStep DEF GeneratedInv
  <2>4. ASSUME RunInv PROVE RunInv'
    <3>1. CaenInv /\ ProgramTyped BY <2>4 DEF RunInv
    <3>2. ProgramTyped' BY <2>2, <3>1 DEF ProgramTyped
    <3>3. ASSUME GeneratorInv PROVE GeneratorInv'
      <4>1. Understood' /\ OnlyEvents' BY <2>1, <2>2, <3>1, <3>3, ProgramAlone DEF GeneratorInv
      <4>2. ProgramSound' BY <2>2, <3>3 DEF GeneratorInv, ProgramSound
      <4>3. WireSound' BY <2>2, <3>3 DEF GeneratorInv, WireSound
      <4>4. Numbered => Numbered' BY <2>1, <2>2 DEF Numbered, vars, parser
      <4> QED BY <2>2, <3>3, <4>1, <4>2, <4>3, <4>4 DEF GeneratorInv
    <3> QED BY <2>2, <2>3, <2>4, <3>2, <3>3, FitsStays DEF RunInv
  <2> QED BY <2>2, <2>3, <2>4 DEF GeneratedInv
<1> QED BY <1>1, <1>2, <1>3 DEF GeneratedNext

\* With no other fate, a readout is an event.
LEMMA AllAreEvents ==
  ASSUME CaenInv, OnlyEvents
  PROVE  counters["Readouts"] = counters["Events"]
<1> DEFINE f == counters  rest == Fates \ {"Events"}
<1>1. IsFiniteSet(Fates) /\ "Events" \in Fates /\ \A x \in Fates : f[x] \in Int
  BY FatesAreCounters DEF CaenInv, ThreadTyped, Fates
<1>2. SumFunctionOnSet(f, Fates) = f["Events"] + SumFunctionOnSet(f, rest)
  <2> HIDE DEF f
  <2> QED BY <1>1, SumStep
<1>3. \A x \in rest : f[x] = 0
  BY DEF OnlyEvents, Failures, Fates
<1>4. IsFiniteSet(rest) BY <1>1, FS_RemoveElement
<1>5. SumFunctionOnSet(f, rest) = 0
  <2> HIDE DEF f, rest
  <2> QED BY <1>3, <1>4, SumZero
<1> QED BY <1>1, <1>2, <1>5 DEF CaenInv, ReadoutsHaveFates

LEMMA InvariantAccepts == GeneratedInv => GeneratedAccepted
<1> SUFFICES ASSUME GeneratedInv, Settings # None, fits PROVE GeneratedAccepted
  BY DEF GeneratedAccepted
<1>1. CaenInv /\ ProgramTyped /\ GeneratorInv BY DEF GeneratedInv, RunInv
<1>2. Understood /\ OnlyEvents BY <1>1 DEF GeneratorInv
<1>3. counters["Readouts"] = counters["Events"] BY <1>1, <1>2, AllAreEvents
<1>4. counters["TofNegative"] = 0 BY <1>2 DEF OnlyEvents, Failures
<1>5. ASSUME Settings.multiplicity = 1
      PROVE  ESSHeaderStats["ErrorSeqNum"] <= lost + ESSHeaderStats["ErrorTimeFrac"]
  <2> DEFINE e == ESSHeaderStats["ErrorSeqNum"]  t == ESSHeaderStats["ErrorTimeFrac"]
             gap == (sentPackets - Len(wire)) - NextSeqNum[0]
  <2>1. e \in Nat /\ t \in Nat /\ NextSeqNum[0] \in Nat
    BY <1>1 DEF CaenInv, TypeOK, Queues, Counters, RejectCounters
  <2>2. lost \in Nat /\ sentPackets - Len(wire) \in Nat
        /\ NextSeqNum[0] <= sentPackets - Len(wire) /\ e + gap <= lost
    BY <1>1, <1>5 DEF ProgramTyped, GeneratorInv, Numbered
  <2>3. gap \in Nat BY <2>1, <2>2
  <2> HIDE DEF e, t, gap
  <2>4. e <= lost + t BY <2>1, <2>2, <2>3
  <2> QED BY <2>4 DEF e, t
<1> QED BY <1>2, <1>3, <1>4, <1>5 DEF GeneratedAccepted, Understood, OnlyEvents

LEMMA GeneratedInvariance ==
  ASSUME BuffersFit
  PROVE  GeneratedSpec => []GeneratedInv
<1>1. GeneratedInv /\ [GeneratedNext]_<<vars, generator>> => GeneratedInv'
  BY GeneratedStep
<1> QED BY <1>1, InitGeneratedInv, PTL DEF GeneratedSpec

\* What a program generates that was started for the instrument is understood,
\* whatever the network loses, however packets and pulses are interleaved, and
\* whatever the sizes of packets, readouts and clocks are.
THEOREM GeneratedIsAccepted ==
  ASSUME BuffersFit
  PROVE  GeneratedSpec => []GeneratedAccepted
BY GeneratedInvariance, InvariantAccepts, PTL

\* Whatever else a program sends, packets with bytes overwritten included: the
\* events are the instrument's, each under its own pulse and in one message.
THEOREM GeneratedEvents ==
  ASSUME BuffersFit
  PROVE  GeneratedSpec => [](EventsAccounted /\ EventsTrue)
<1>1. GeneratedInv => EventsAccounted /\ EventsTrue
  BY InvariantAccounts, InvariantTrue DEF GeneratedInv
<1> QED BY <1>1, GeneratedInvariance, PTL
=============================================================================
