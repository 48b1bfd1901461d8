---------------------------- MODULE UdpGenerator ----------------------------
(***************************************************************************)
(* The programs that generate readouts for tests and simulations           *)
(* (src/generators, modules/*/generators), connected to the processing     *)
(* thread by a network that loses packets.  What place a readout names is  *)
(* the matter of ReadoutGenerators and of the files that are read; here it *)
(* is one of the program's readouts, has a time and is in a packet.        *)
(***************************************************************************)
EXTENDS CaenInstrument

CONSTANTS BufferSize,         \* bytes
          UdpMaxSizeBytes,    \* of the text generator
          MaxFuzzed,          \* 20: sections that finishPacket may spoil
          GeneratorSettings,  \* the programs, as they can be started
          MaxNow, MaxSent,    \* bounds on the time, and on the packets
          MaxInFlight         \* packets the network holds

ASSUME GeneratorAssumption ==
  /\ {BufferSize, UdpMaxSizeBytes, MaxFuzzed, MaxNow, MaxSent} \subseteq Nat
  /\ MaxInFlight \in Nat \ {0}
  /\ \A s \in GeneratorSettings :
       /\ s.source \in {"distribution", "linear", "fixed", "file", "text"}
       /\ s.Frequency \in 1 .. SecInNs /\ s.HeaderVersion \in {0, 1}
       /\ {s.Loop, s.Randomise, s.type} \subseteq BOOLEAN /\ s.TimeSource \subseteq Flags
       /\ {s.NumberOfPackets, s.numBins, s.records, s.multiplicity} \subseteq Nat
       /\ s.EveryN \in Nat \ {0}
       /\ s.readouts \subseteq SectionRecords
       /\ \A r \in s.readouts : r.claimed = CaenReadoutSize

VARIABLES
  Settings,                  \* of the program that runs, or None
  gpc,                       \* where transmitLoop is
  now,                       \* the high resolution clock, in nanoseconds
  pulseTime, prevPulseTime,
  sentPackets, SeqNum,
  cached, Counter,           \* of generateReadoutTimeEveryN
  CurrentReadout,            \* of the linear generator
  position,                  \* in the file of recorded readouts
  lineSeq,                   \* the number in the text generator's buffer
  wire,                      \* packets on their way, with their sections
  lost                       \* history: packets lost

generator == <<Settings, gpc, now, pulseTime, prevPulseTime, sentPackets, SeqNum,
               cached, Counter, CurrentReadout, position, lineSeq, wire, lost>>
-----------------------------------------------------------------------------
\* The time nearest to n nanoseconds.  A time less than half a tick before a
\* full second has as many ticks as there are in a second.
fromNS(n) ==
  LET high == n \div SecInNs
  IN  [high |-> high,
       low |-> (2 * (n - high * SecInNs) * ESSClockFreqHz + SecInNs) \div (2 * SecInNs)]

\* operator+ of ESSTime, for ticks and for nanoseconds.
addTicks(t, ticks) ==
  LET low == t.low + (ticks % ESSClockFreqHz)
      high == t.high + (ticks \div ESSClockFreqHz)
  IN  IF low >= ESSClockFreqHz THEN [high |-> high + 1, low |-> low - ESSClockFreqHz]
      ELSE [high |-> high, low |-> low]

addNS(t, n) == addTicks(t, (n * ESSClockFreqHz) \div SecInNs)

\* A duration is subtracted as a time of its own.
minusNS(t, n) == fromNS(toNS(t) - toNS(fromNS(n)))

hzToNanoseconds(f) == SecInNs \div f
duration == hzToNanoseconds(Settings.Frequency)
-----------------------------------------------------------------------------
headerSize == IF Settings.HeaderVersion = 0 THEN HeaderSizeV0 ELSE HeaderSizeV1

\* As many readouts as the buffer holds, made even.
ReadoutsPerPacket ==
  LET n == (BufferSize - headerSize) \div CaenReadoutSize
  IN  n - (n % 2)

DataSize == headerSize + ReadoutsPerPacket * CaenReadoutSize

\* The detector's type and the time source are settings.
generateHeader ==
  [size |-> DataSize, pad |-> 0, version |-> Settings.HeaderVersion, cookie |-> TRUE,
   length |-> DataSize, type |-> Settings.type, queue |-> 0, seq |-> SeqNum % SeqModulus,
   timeSource |-> Settings.TimeSource, pulse |-> pulseTime, prev |-> prevPulseTime]

\* With --random a byte of the header may be overwritten, which makes one field
\* what it is in some packet, and some bytes of the data; behind a header whose
\* version was overwritten all data is read from another byte on.
fuzzedHeaders(p) ==
  {p} \cup UNION {{[p EXCEPT ![f] = q[f]] : f \in DOMAIN p \ {"size"}} : q \in Packets}

fuzzedData(p, data) ==
  IF p.version = Settings.HeaderVersion
  THEN {d \in [DOMAIN data -> Sections \cup ToSet(data)] :
          Cardinality({i \in DOMAIN d : d[i] # data[i]}) <= MaxFuzzed}
  ELSE [1 .. Len(data) + 1 -> Sections]

\* What may be sent for a packet.
finishPacket(header, data) ==
  IF Settings.Randomise
  THEN UNION {{[packet |-> p, data |-> d] : d \in fuzzedData(p, data)} :
                p \in fuzzedHeaders(header)}
  ELSE {[packet |-> header, data |-> data]}
-----------------------------------------------------------------------------
\* getValue() of the functions, in nanoseconds: anything up to the duration of a
\* pulse, the next of numBins steps, begun at the middle of a step, or one value.
distributionValue == 0 .. duration
linearValue(i) ==
  LET bin == i % Settings.numBins
  IN  ((2 * bin + 1) * duration) \div (2 * Settings.numBins)
fixedValue == 0

getValue(i) ==
  CASE Settings.source = "linear" -> {linearValue(CurrentReadout + i - 1)}
    [] Settings.source = "fixed"  -> {fixedValue}
    [] OTHER                      -> distributionValue

generateReadoutTime(value) == addNS(pulseTime, value)

\* Mutant: readouts are counted before they are asked for a new time.
isNew_CountedFirst(i) == (Counter + i) % Settings.EveryN = 0

\* The i-th readout of a packet has a new time, or that of the one before it.
isNew(i) == (Counter + i - 1) % Settings.EveryN = 0

generateReadoutTimeEveryN(values, i) ==
  LET fresh == {j \in 1 .. i : isNew(j)}
  IN  IF fresh = {} THEN cached
      ELSE generateReadoutTime(values[CHOOSE j \in fresh : \A k \in fresh : k <= j])

\* What memset leaves where no readout is written.
blank == [claimed |-> 0, ids |-> TRUE, time |-> [high |-> 0, low |-> 0],
          valid |-> TRUE, pixel |-> 0, serializer |-> 1]

\* How many of the recorded readouts go into a packet.  The file is asked for
\* the next readout before it is asked whether there is room for it.
recordsLeft == Settings.records - position
recordsTaken == IF recordsLeft > ReadoutsPerPacket THEN ReadoutsPerPacket ELSE recordsLeft
nextPosition ==
  IF recordsLeft > ReadoutsPerPacket THEN position + ReadoutsPerPacket + 1 ELSE 0

filled == IF Settings.source = "file" THEN recordsTaken ELSE ReadoutsPerPacket

generateData(readouts, values) ==
  [i \in 1 .. ReadoutsPerPacket |->
     IF i <= filled THEN [readouts[i] EXCEPT !.time = generateReadoutTimeEveryN(values, i)]
     ELSE blank]
-----------------------------------------------------------------------------
\* Without a number of packets a file is sent once.
numberOfPackets ==
  IF Settings.source = "file" /\ Settings.NumberOfPackets = 0 /\ ~Settings.Loop
  THEN Settings.records \div ReadoutsPerPacket ELSE Settings.NumberOfPackets

generatorOff ==
  /\ Settings = None /\ gpc = "off" /\ now = 0
  /\ pulseTime = fromNS(0) /\ prevPulseTime = fromNS(0)
  /\ sentPackets = 0 /\ SeqNum = 0 /\ cached = fromNS(0) /\ Counter = 0
  /\ CurrentReadout = 0 /\ position = 0 /\ lineSeq = 0 /\ wire = <<>> /\ lost = 0

\* The clock stands at any time of a second that is not the first.
initialize ==
  /\ Settings \in GeneratorSettings
  /\ gpc = IF Settings.source = "text" THEN "lines" ELSE "pulse"
  /\ now \in SecInNs .. 2 * SecInNs - 1
  /\ pulseTime = fromNS(now) /\ prevPulseTime = pulseTime
  /\ sentPackets = 0 /\ SeqNum = 0 /\ cached = fromNS(0) /\ Counter = 0
  /\ CurrentReadout = 0 /\ position = 0 /\ lineSeq = 0 /\ wire = <<>> /\ lost = 0

\* generatePackets: a pulse starts now.
StartPulse ==
  /\ gpc = "pulse" /\ gpc' = "packet"
  /\ pulseTime' = fromNS(now)
  /\ prevPulseTime' = minusNS(fromNS(now), duration)
  /\ UNCHANGED <<Settings, now, sentPackets, SeqNum, cached, Counter,
                 CurrentReadout, position, lineSeq, wire, lost, vars>>

\* The rest of its loop, up to send and the test for the last packet.
SendPacket ==
  /\ gpc = "packet" /\ sentPackets < MaxSent /\ Len(wire) < MaxInFlight
  /\ \E readouts \in [1 .. ReadoutsPerPacket -> Settings.readouts],
        values \in [1 .. ReadoutsPerPacket -> 0 .. duration] :
       /\ \A i \in DOMAIN values : values[i] \in getValue(i)
       /\ \A i \in DOMAIN values : ~isNew(i) => values[i] = 0  \* not drawn
       /\ \E sent \in finishPacket(generateHeader, generateData(readouts, values)) :
            wire' = Append(wire, sent)
       /\ cached' = generateReadoutTimeEveryN(values, ReadoutsPerPacket)
  /\ Counter' = (Counter + ReadoutsPerPacket) % Settings.EveryN
  /\ CurrentReadout' = IF Settings.source = "linear"
                       THEN (CurrentReadout + ReadoutsPerPacket) % Settings.numBins ELSE 0
  /\ position' = IF Settings.source = "file" THEN nextPosition ELSE 0
  /\ SeqNum' = SeqNum + 1 /\ sentPackets' = sentPackets + 1
  /\ gpc' = IF numberOfPackets # 0 /\ sentPackets' >= numberOfPackets THEN "over" ELSE "sent"
  /\ UNCHANGED <<Settings, now, pulseTime, prevPulseTime, lineSeq, lost, vars>>

\* The pulse goes on until its duration has passed.
CheckPulse ==
  /\ gpc = "sent"
  /\ gpc' = IF now - toNS(pulseTime) < duration THEN "packet" ELSE "over"
  /\ UNCHANGED <<Settings, now, pulseTime, prevPulseTime, sentPackets, SeqNum, cached,
                 Counter, CurrentReadout, position, lineSeq, wire, lost, vars>>

\* transmitLoop: another pulse, or the end.
EndPulse ==
  /\ gpc = "over"
  /\ gpc' = IF Settings.Loop \/ sentPackets < numberOfPackets THEN "pulse" ELSE "done"
  /\ UNCHANGED <<Settings, now, pulseTime, prevPulseTime, sentPackets, SeqNum, cached,
                 Counter, CurrentReadout, position, lineSeq, wire, lost, vars>>
-----------------------------------------------------------------------------
\* The miracles generator reads lines of text, with times of their own and no
\* pulse; each packet is sent several times, its number set anew in between.
textPacket(lines, seq) ==
  LET size == HeaderSizeV0 + Len(lines) * CaenReadoutSize
  IN  [packet |-> [size |-> size, pad |-> 0, version |-> 0, cookie |-> TRUE,
                   length |-> size, type |-> Settings.type, queue |-> 0,
                   seq |-> seq % SeqModulus, timeSource |-> {},
                   pulse |-> fromNS(0), prev |-> fromNS(0)],
       data |-> lines]

\* A packet is sent when it is longer than UdpMaxSizeBytes.
linesPerPacket == (UdpMaxSizeBytes - HeaderSizeV0) \div CaenReadoutSize + 1

\* The number is written before it is incremented: the second sending has the
\* number of the first.
textNumber(i) == IF i = 1 THEN lineSeq ELSE SeqNum + i - 2

SendLines ==
  LET n == IF sentPackets >= Settings.NumberOfPackets THEN 0
           ELSE IF recordsLeft > linesPerPacket THEN linesPerPacket ELSE recordsLeft
      full == n = linesPerPacket
      times == IF full THEN Settings.multiplicity ELSE 1
  IN  /\ gpc = "lines" /\ sentPackets + times <= MaxSent
      /\ Len(wire) + times <= MaxInFlight
      /\ \E lines \in [1 .. n -> Settings.readouts] :
           wire' = IF n = 0 THEN wire
                   ELSE wire \o [i \in 1 .. times |-> textPacket(lines, textNumber(i))]
      /\ sentPackets' = sentPackets + (IF n = 0 THEN 0 ELSE times)
      /\ position' = position + n
      /\ SeqNum' = IF full THEN SeqNum + times ELSE SeqNum
      /\ lineSeq' = SeqNum'
      /\ gpc' = IF full THEN "lines" ELSE "done"
      /\ UNCHANGED <<Settings, now, pulseTime, prevPulseTime, cached, Counter,
                     CurrentReadout, lost, vars>>
-----------------------------------------------------------------------------
Tick ==
  /\ now < MaxNow /\ now' = now + 1
  /\ gpc \in {"pulse", "packet", "sent"}
  /\ UNCHANGED <<Settings, gpc, pulseTime, prevPulseTime, sentPackets, SeqNum, cached,
                 Counter, CurrentReadout, position, lineSeq, wire, lost, vars>>

Lose ==
  /\ wire # <<>> /\ wire' = Tail(wire) /\ lost' = lost + 1
  /\ UNCHANGED <<Settings, gpc, now, pulseTime, prevPulseTime, sentPackets, SeqNum,
                 cached, Counter, CurrentReadout, position, lineSeq, vars>>

\* The processing thread pops the next packet.
Receive ==
  /\ wire # <<>> /\ wire' = Tail(wire)
  /\ validate(Head(wire).packet)
  /\ Rejected \/ Accepted(Head(wire).packet, Head(wire).data)
  /\ UNCHANGED <<Settings, gpc, now, pulseTime, prevPulseTime, sentPackets, SeqNum,
                 cached, Counter, CurrentReadout, position, lineSeq, lost, timeouts>>

GeneratorNext ==
  Settings # None /\ (StartPulse \/ SendPacket \/ CheckPulse \/ EndPulse \/ SendLines
                      \/ Tick \/ Lose \/ Receive)

\* The processing thread alone, whose packets are any, or a generator's.
GeneratedInit == CaenInit /\ (generatorOff \/ initialize)
GeneratedNext == (Settings = None /\ CaenNext /\ UNCHANGED generator) \/ GeneratorNext
GeneratedSpec == GeneratedInit /\ [][GeneratedNext]_<<vars, generator>>
-----------------------------------------------------------------------------
\* A program started for the instrument that listens: of its type, with readouts
\* of its places, a time source that its parser takes and nothing overwritten; a
\* packet begins with a new time, and pulses and times of flight are in bounds.
\* A text file's times are those of its lines.
fits ==
  /\ Settings.type
  /\ \A r \in Settings.readouts :
       r.ids /\ r.valid /\ r.pixel # 0 /\ r.serializer <= numSerializers
  /\ IF Settings.source = "text"
     THEN \A r \in Settings.readouts : toNS(r.time) <= MaxTOF
     ELSE /\ sourceErrors([timeSource |-> Settings.TimeSource]) = {}
          /\ ~Settings.Randomise
          /\ ReadoutsPerPacket % Settings.EveryN = 0
          /\ duration <= MaxTOF
          /\ duration + SecInNs \div ESSClockFreqHz + 1 <= MaxPulseTimeDiffNS

\* What such a program generates is understood: nothing is rejected but a pulse
\* within half a tick of a full second, whose fraction the header's check
\* refuses; every readout becomes an event of its own pulse; only the end of a
\* recorded file leaves a packet with blanks, and a gap in the numbers is a
\* packet lost.
GeneratedAccepted ==
  Settings # None /\ fits =>
    /\ \A c \in RejectCounters \ {"ErrorTimeFrac"} : ESSHeaderStats[c] = 0
    /\ Res = "error" => ESSClockFreqHz \in {Packet.pulse.low, Packet.prev.low}
    /\ counters["Readouts"] = counters["Events"]
    /\ counters["TofNegative"] = 0
    /\ \A c \in ParseErrors :
         counters[c] # 0 => Settings.source = "file" /\ c = "DataLenInvalid"
    /\ Settings.multiplicity = 1 =>
         ESSHeaderStats["ErrorSeqNum"] <= lost + ESSHeaderStats["ErrorTimeFrac"]
=============================================================================
