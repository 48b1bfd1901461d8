------------------------------ MODULE ESSParser -----------------------------
(***************************************************************************)
(* validate() of src/common/readout/ess/Parser.cpp: the checks that every  *)
(* packet of readouts passes before its data is parsed, and what they      *)
(* count and remember, the packets they reject included.                   *)
(***************************************************************************)
EXTENDS ESSTime, Sequences, FiniteSets, Functions

CONSTANTS MinDataSize, MaxUdpDataSize,   \* bounds on the size of a packet
          HeaderSizeV0, HeaderSizeV1,
          MaxOutputQueues,
          MaxPulseTimeDiffNS,
          SeqModulus,  \* 2^32: the numbers of a header
          Packets,     \* what can be received
          None,
          MaxCalls     \* bound on the calls of validate()

ASSUME ParserAssumption ==
  /\ MinDataSize \in Nat \ {0} /\ MaxUdpDataSize \in Nat
  /\ HeaderSizeV0 \in Nat \ {0} /\ HeaderSizeV1 \in Nat \ {0}
  /\ MaxOutputQueues \in Nat \ {0}
  /\ MaxPulseTimeDiffNS \in Nat /\ SeqModulus \in Nat \ {0} /\ MaxCalls \in Nat
  /\ None \notin Packets /\ None \notin {"OK", "error"}

Queues == 0 .. MaxOutputQueues - 1

Flags == {"TIME_SOURCE", "SYNC_SOURCE", "TIMING_STATUS", "EVEN_FIBRE_SYNC",
          "ODD_FIBRE_SYNC"}

\* What the checks tell apart.  A packet without a buffer has size 0; cookie
\* and type say whether they are the expected ones.
Headers == [size : Nat, pad : Nat, version : Nat, cookie : BOOLEAN,
            length : Nat, type : BOOLEAN, queue : Nat, seq : 0 .. SeqModulus - 1,
            timeSource : SUBSET Flags, pulse : ESSTimes, prev : ESSTimes]

ASSUME PacketsAssumption == Packets \subseteq Headers

SourceCounters == {"ErrorTiming", "ErrorTimeStatus", "ErrorEvenFibreSync",
                   "ErrorOddFibreSync"}
RejectCounters == SourceCounters \cup
  {"ErrorBuffer", "ErrorSize", "ErrorPad", "ErrorVersion", "ErrorCookie",
   "ErrorTypeSubType", "ErrorOutputQueue", "ErrorTimeFrac", "ErrorTimeHigh"}
Counters == RejectCounters \cup
  {"ErrorSeqNum", "Version0Header", "Version1Header", "HeartBeats"}

VARIABLES
  NextSeqNum,      \* per output queue, 64 bits wide
  OQRxPackets,     \* per output queue
  ESSHeaderStats,  \* the other counters
  Packet,          \* Packet.HeaderPtr: the last packet with a whole header
  DataLength,      \* Packet.DataLength
  Time,            \* Packet.Time, in nanoseconds
  Res,             \* what validate() returned: OK or an error
  calls,           \* so far
  seen             \* history, per output queue: the numbers of its packets

parser == <<NextSeqNum, OQRxPackets, ESSHeaderStats, Packet, DataLength, Time,
            Res, calls, seen>>

Init ==
  /\ NextSeqNum = [q \in Queues |-> 0]
  /\ OQRxPackets = [q \in Queues |-> 0]
  /\ ESSHeaderStats = [c \in Counters |-> 0]
  /\ Packet = None /\ DataLength = 0
  /\ Time = [time |-> 0, prev |-> 0]
  /\ Res = None /\ calls = 0
  /\ seen = [q \in Queues |-> <<>>]
-----------------------------------------------------------------------------
HeaderSize(p) == IF p.version = 0 THEN HeaderSizeV0 ELSE HeaderSizeV1
VersionCounter(p) == IF p.version = 0 THEN "Version0Header" ELSE "Version1Header"

\* The checks before the header is used, in order, each with its counter.
HeaderChecks(p) ==
  << [ok |-> p.size # 0, counter |-> "ErrorBuffer"],
     [ok |-> p.size \in MinDataSize .. MaxUdpDataSize, counter |-> "ErrorSize"],
     [ok |-> p.pad = 0, counter |-> "ErrorPad"],
     [ok |-> p.version \in {0, 1}, counter |-> "ErrorVersion"],
     [ok |-> p.cookie, counter |-> "ErrorCookie"],
     [ok |-> p.size >= HeaderSize(p), counter |-> "ErrorSize"] >>

\* The checks of what the header says.
ContentChecks(p) ==
  << [ok |-> p.size = p.length /\ p.length >= HeaderSize(p),
      counter |-> "ErrorSize"],
     [ok |-> p.type, counter |-> "ErrorTypeSubType"],
     [ok |-> p.queue \in Queues, counter |-> "ErrorOutputQueue"] >>

pass(checks) == \A i \in DOMAIN checks : checks[i].ok
failure(checks) ==
  checks[CHOOSE i \in DOMAIN checks :
           ~checks[i].ok /\ \A j \in 1 .. i - 1 : checks[j].ok].counter

\* The four checks of the time source are all made.
sourceErrors(p) ==
  LET flag(f) == f \in p.timeSource
      wrong == [ErrorTiming |-> ~flag("TIME_SOURCE") /\ flag("SYNC_SOURCE"),
                ErrorTimeStatus |-> ~flag("TIME_SOURCE") /\ flag("TIMING_STATUS"),
                ErrorEvenFibreSync |-> flag("EVEN_FIBRE_SYNC"),
                ErrorOddFibreSync |-> flag("ODD_FIBRE_SYNC")]
  IN  {c \in SourceCounters : wrong[c]}

fracOk(p) == p.pulse.low < ESSClockFreqHz /\ p.prev.low < ESSClockFreqHz

\* The difference is signed.
pulsesApart(p) == toNS(p.pulse) - toNS(p.prev) > MaxPulseTimeDiffNS

heartbeat(p) == p.length = HeaderSize(p)

Count(S) ==
  ESSHeaderStats' = [c \in Counters |->
                       IF c \in S THEN ESSHeaderStats[c] + 1 ELSE ESSHeaderStats[c]]

\* Rejected before the header is looked into.
NoHeader(p) ==
  /\ ~pass(HeaderChecks(p))
  /\ Res' = "error"
  /\ Count({failure(HeaderChecks(p))})
  /\ UNCHANGED <<NextSeqNum, OQRxPackets, Packet, DataLength, Time, seen>>

\* Rejected for a wrong length, type or queue.
Misaddressed(p) ==
  /\ pass(HeaderChecks(p)) /\ ~pass(ContentChecks(p))
  /\ Res' = "error"
  /\ Packet' = p
  /\ Count({VersionCounter(p), failure(ContentChecks(p))})
  /\ UNCHANGED <<NextSeqNum, OQRxPackets, DataLength, Time, seen>>

\* Mutant: an unexpected number is counted, but not followed.
Sequenced_NotFollowed(p) ==
  /\ pass(HeaderChecks(p)) /\ pass(ContentChecks(p))
  /\ Packet' = p
  /\ OQRxPackets' = [OQRxPackets EXCEPT ![p.queue] = @ + 1]
  /\ seen' = [seen EXCEPT ![p.queue] = Append(@, p.seq)]
  /\ NextSeqNum' = [NextSeqNum EXCEPT ![p.queue] = @ + 1]
  /\ DataLength' = p.length - HeaderSize(p)

\* Mutant: every header is taken to be as long as that of version 1.
Sequenced_AsV1(p) ==
  /\ pass(HeaderChecks(p)) /\ pass(ContentChecks(p))
  /\ Packet' = p
  /\ OQRxPackets' = [OQRxPackets EXCEPT ![p.queue] = @ + 1]
  /\ seen' = [seen EXCEPT ![p.queue] = Append(@, p.seq)]
  /\ NextSeqNum' = [NextSeqNum EXCEPT ![p.queue] = p.seq + 1]
  /\ DataLength' = p.length - HeaderSizeV1

\* The packet belongs to its queue's sequence, whatever its times are.
Sequenced(p) ==
  /\ pass(HeaderChecks(p)) /\ pass(ContentChecks(p))
  /\ Packet' = p
  /\ OQRxPackets' = [OQRxPackets EXCEPT ![p.queue] = @ + 1]
  /\ seen' = [seen EXCEPT ![p.queue] = Append(@, p.seq)]
  /\ NextSeqNum' = [NextSeqNum EXCEPT ![p.queue] = p.seq + 1]
  /\ DataLength' = p.length - HeaderSize(p)

sequence(p) ==
  {VersionCounter(p)} \cup
    (IF NextSeqNum[p.queue] # p.seq THEN {"ErrorSeqNum"} ELSE {})

\* Rejected for its time source or a fraction of a second out of range.
BadTime(p) ==
  /\ Sequenced(p)
  /\ sourceErrors(p) # {} \/ ~fracOk(p)
  /\ Res' = "error"
  /\ Count(sequence(p) \cup
       (IF sourceErrors(p) # {} THEN sourceErrors(p) ELSE {"ErrorTimeFrac"}))
  /\ UNCHANGED Time

\* Mutant: pulses too far apart are counted, and the packet is accepted.
TimeTaken_NoReturn(p) ==
  /\ Sequenced(p)
  /\ sourceErrors(p) = {} /\ fracOk(p)
  /\ Time' = [time |-> toNS(p.pulse), prev |-> toNS(p.prev)]
  /\ Res' = "OK"
  /\ Count(sequence(p) \cup (IF heartbeat(p) THEN {"HeartBeats"} ELSE {})
           \cup (IF pulsesApart(p) THEN {"ErrorTimeHigh"} ELSE {}))

\* Mutant: the packet's own pulses are not looked at, the last ones are.
TimeTaken_Late(p) ==
  /\ Sequenced(p)
  /\ sourceErrors(p) = {} /\ fracOk(p)
  /\ Time' = [time |-> toNS(p.pulse), prev |-> toNS(p.prev)]
  /\ \/ /\ Time.time - Time.prev > MaxPulseTimeDiffNS
        /\ Res' = "error"
        /\ Count(sequence(p) \cup {"ErrorTimeHigh"})
     \/ /\ ~(Time.time - Time.prev > MaxPulseTimeDiffNS)
        /\ Res' = "OK"
        /\ Count(sequence(p) \cup (IF heartbeat(p) THEN {"HeartBeats"} ELSE {}))

\* The times become the reference before they are compared: a packet rejected
\* for its pulses leaves them behind.
TimeTaken(p) ==
  /\ Sequenced(p)
  /\ sourceErrors(p) = {} /\ fracOk(p)
  /\ Time' = [time |-> toNS(p.pulse), prev |-> toNS(p.prev)]
  /\ \/ /\ pulsesApart(p)
        /\ Res' = "error"
        /\ Count(sequence(p) \cup {"ErrorTimeHigh"})
     \/ /\ ~pulsesApart(p)
        /\ Res' = "OK"
        /\ Count(sequence(p) \cup (IF heartbeat(p) THEN {"HeartBeats"} ELSE {}))

validate(p) ==
  /\ calls' = calls + 1
  /\ NoHeader(p) \/ Misaddressed(p) \/ BadTime(p) \/ TimeTaken(p)

Next == calls < MaxCalls /\ \E p \in Packets : validate(p)

Spec == Init /\ [][Next]_parser
-----------------------------------------------------------------------------
TypeOK ==
  /\ NextSeqNum \in [Queues -> Nat] /\ OQRxPackets \in [Queues -> Nat]
  /\ ESSHeaderStats \in [Counters -> Nat]
  /\ Packet \in Headers \cup {None}
  /\ DataLength \in Nat
  /\ Time \in [time : Nat, prev : Nat]
  /\ Res \in {"OK", "error", None} /\ calls \in Nat
  /\ seen \in [Queues -> Seq(0 .. SeqModulus - 1)]

\* After OK the parsers of the instruments are given what is in the packet
\* received: the data ends where the packet does, whatever the header says and
\* whichever version it is of, and its pulses are this packet's, valid and not
\* too far apart.
AcceptedIsSound ==
  Res = "OK" =>
    /\ HeaderSize(Packet) + DataLength = Packet.size
    /\ Time = [time |-> toNS(Packet.pulse), prev |-> toNS(Packet.prev)]
    /\ fracOk(Packet) /\ Time.time - Time.prev <= MaxPulseTimeDiffNS

\* A rejected packet is seen in the statistics, an accepted one counts as no
\* error but a gap in its sequence.
RejectionsCounted ==
  [][ (Res' = "OK") <=> \A c \in RejectCounters : ESSHeaderStats'[c] = ESSHeaderStats[c] ]_parser

\* The places in the sequence of a queue where it does not go on, or does not
\* start with 0.
breaks(s) ==
  Cardinality({i \in DOMAIN s :
                 s[i] # (IF i = 1 THEN 0 ELSE (s[i - 1] + 1) % SeqModulus)})

\* ErrorSeqNum counts each break in the sequence of a queue's packets, whatever
\* is lost, repeated or overtaken, and nothing else: not the other queues'
\* packets, nor packets rejected for their times, which are part of the sequence.
\* ("Check per OutputQueue packet sequence number", Parser.cpp.)
SeqErrorsExact ==
  ESSHeaderStats["ErrorSeqNum"] = SumFunction([q \in Queues |-> breaks(seen[q])])
=============================================================================
