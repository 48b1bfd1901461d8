--------------------------- MODULE CaenInstrument ---------------------------
(***************************************************************************)
(* The processing thread of the instruments with CAEN readouts, one packet *)
(* a step: the header is validated (ESSParser), the data is split into     *)
(* readouts (modules/caen/readout/DataParser.cpp), and each readout        *)
(* becomes an event of a serializer or is counted                          *)
(* (modules/caen/CaenInstrument.cpp).  What an instrument's geometry makes *)
(* of a readout is part of the readout.                                    *)
(***************************************************************************)
EXTENDS ESSParser, SequencesExt

CONSTANTS DataHeaderSize, CaenReadoutSize,  \* bytes
          MaxTOF,
          numSerializers,
          MaxEvents,   \* in a message
          Sections,    \* what a data section can be
          Data,        \* sequences of sections, enough for any packet
          MaxTimeouts  \* bound on the timeouts of the ProduceTimer

ASSUME CaenAssumption ==
  /\ DataHeaderSize \in Nat \ {0} /\ CaenReadoutSize \in Nat
  /\ CaenReadoutSize > DataHeaderSize
  /\ MaxTOF \in Nat /\ numSerializers \in Nat \ {0} /\ MaxEvents \in Nat \ {0}
  /\ MaxTimeouts \in Nat

\* claimed is the section's DataLength, ids says whether FiberId and FENId are
\* in range; valid, pixel and serializer are what validateReadoutData(),
\* calcPixel() and calcSerializer() of the geometry return, the serializers
\* being numbered from 1.
SectionRecords == [claimed : Nat, ids : BOOLEAN, time : ESSTimes, valid : BOOLEAN,
                   pixel : Nat, serializer : Nat \ {0}]

\* The sections fill the packet.
fills(data, p) == p.length <= HeaderSize(p) + Len(data) * CaenReadoutSize

ASSUME SectionsAssumption ==
  /\ Sections \subseteq SectionRecords /\ Data \subseteq Seq(Sections)
  /\ \A data \in Data, p \in Packets : fills(data, p)

ParseErrors == {"DataHeaderSizeErrors", "DataLenMismatch", "RingFenErrors",
                "DataLenInvalid"}
CaenCounters == ParseErrors \cup TofCounters \cup
  {"ErrorESSHeaders", "Readouts", "ValidationErrors", "PixelErrors",
   "SerializerErrors", "Events"}

VARIABLES
  Result,       \* the readouts of a packet, each with the packet it is from
  Serializers,  \* per serializer: reference time, events, and messages sent
  counters,     \* of the parser, the geometry, the times and the instrument
  timeouts      \* so far

vars == <<parser, Result, Serializers, counters, timeouts>>

\* Reference times start out uninitialized.
CaenInit ==
  /\ Init
  /\ Result = <<>>
  /\ \E t \in {0, 1} : Serializers =
       [i \in 1 .. numSerializers |-> [referenceTime |-> t, events |-> <<>>, sent |-> <<>>]]
  /\ counters = [c \in CaenCounters |-> 0]
  /\ timeouts = 0
-----------------------------------------------------------------------------
\* One serializer; EV44Serializer has it in detail.
produce(s) ==
  IF s.events = <<>> THEN s
  ELSE [s EXCEPT !.events = <<>>,
                 !.sent = Append(@, [referenceTime |-> s.referenceTime,
                                     events |-> s.events])]

checkAndSetReferenceTime(s, t) ==
  IF t = s.referenceTime THEN s ELSE [produce(s) EXCEPT !.referenceTime = t]

addEvent(s, e) ==
  LET more == [s EXCEPT !.events = Append(@, e)]
  IN  IF Len(more.events) < MaxEvents THEN more ELSE produce(more)
-----------------------------------------------------------------------------
\* The checks of a section, when left bytes are left, in order.
sectionChecks(s, left) ==
  << [ok |-> left >= DataHeaderSize, counter |-> "DataHeaderSizeErrors"],
     [ok |-> left >= s.claimed, counter |-> "DataLenMismatch"],
     [ok |-> s.ids, counter |-> "RingFenErrors"],
     [ok |-> s.claimed = CaenReadoutSize, counter |-> "DataLenInvalid"] >>

\* Bytes left after n readouts.
left(size, n) == size - n * CaenReadoutSize

good(data, size, i) ==
  left(size, i - 1) > 0 /\ pass(sectionChecks(data[i], left(size, i - 1)))

\* The readouts before the end of the data or the first bad section.
ParsedReadouts(data, size) ==
  CHOOSE n \in 0 .. Len(data) :
    /\ \A i \in 1 .. n : good(data, size, i)
    /\ n = Len(data) \/ ~good(data, size, n + 1)

parseErrors(data, size) ==
  LET n == ParsedReadouts(data, size)
  IN  IF left(size, n) = 0 THEN {}
      ELSE {failure(sectionChecks(data[n + 1], left(size, n)))}

\* Mutant: the readouts of the last packet are kept.
parse_NotCleared(p, data, size) ==
  Result \o [i \in 1 .. ParsedReadouts(data, size) |->
               [readout |-> data[i], packet |-> p]]

parse(p, data, size) ==
  [i \in 1 .. ParsedReadouts(data, size) |-> [readout |-> data[i], packet |-> p]]
-----------------------------------------------------------------------------
increment(c, S) == [x \in CaenCounters |-> IF x \in S THEN c[x] + 1 ELSE c[x]]

\* What becomes of a readout once its time of flight is asked for.
verdict(r, tof) ==
  CASE tof.tof = InvalidTof -> "no time of flight"
    [] tof.tof # InvalidTof /\ r.pixel = 0 -> "PixelErrors"
    [] tof.tof # InvalidTof /\ r.pixel # 0 ->
         IF r.serializer > numSerializers THEN "SerializerErrors" ELSE "Events"

\* One round of the loop over the readouts; w holds serializers and counters.
\* The event is kept with the readout's time and packet, for the properties.
processReadout(w, d, reference) ==
  LET r == d.readout
      tof == getTOF(toNS(r.time), reference, MaxTOF)
      v == verdict(r, tof)
      event == [tof |-> tof.tof, time |-> toNS(r.time), packet |-> d.packet]
  IN  IF ~r.valid
      THEN [w EXCEPT !.counters = increment(@, {"ValidationErrors"})]
      ELSE [counters |-> increment(w.counters, tof.counters \cup {v}),
            serializers |-> IF v = "Events"
                            THEN [w.serializers EXCEPT ![r.serializer] = addEvent(@, event)]
                            ELSE w.serializers]

\* Mutant: the reference time is set under the events that wait.
referenced_SetOnly(serializers, t) ==
  [i \in DOMAIN serializers |-> [serializers[i] EXCEPT !.referenceTime = t]]

\* All serializers take the packet's pulse time, those with no event in it too.
referenced(serializers, t) ==
  [i \in DOMAIN serializers |-> checkAndSetReferenceTime(serializers[i], t)]

processReadouts(readouts, reference, c) ==
  FoldLeft(LAMBDA w, d : processReadout(w, d, reference),
           [counters |-> c, serializers |-> referenced(Serializers, reference.time)],
           readouts)

Rejected ==
  /\ Res' # "OK"
  /\ counters' = increment(counters, {"ErrorESSHeaders"})
  /\ UNCHANGED <<Result, Serializers>>

\* The data of packet p, which has passed, is the given sections.
Accepted(p, data) ==
  LET n == ParsedReadouts(data, DataLength')
      parsed == [increment(counters, parseErrors(data, DataLength'))
                   EXCEPT !["Readouts"] = @ + n]
      w == processReadouts(parse(p, data, DataLength'), Time', parsed)
  IN  /\ Res' = "OK"
      /\ Result' = parse(p, data, DataLength')
      /\ counters' = w.counters /\ Serializers' = w.serializers

\* The processing thread pops a packet.
ProcessPacket(p) ==
  /\ validate(p)
  /\ Rejected \/ \E data \in Data : Accepted(p, data)
  /\ UNCHANGED timeouts

\* The ProduceTimer has run out.
Timeout ==
  /\ timeouts < MaxTimeouts /\ timeouts' = timeouts + 1
  /\ Serializers' = [i \in DOMAIN Serializers |-> produce(Serializers[i])]
  /\ UNCHANGED <<parser, Result, counters>>

CaenNext ==
  \/ calls < MaxCalls /\ \E p \in Packets : ProcessPacket(p)
  \/ Timeout

CaenSpec == CaenInit /\ [][CaenNext]_vars
-----------------------------------------------------------------------------
sum(S) == SumFunctionOnSet(counters, S)

\* The batches of events, with their reference times: messages sent and what
\* waits.
batches(s) == Append(s.sent, [referenceTime |-> s.referenceTime, events |-> s.events])

\* The events in the messages sent and those that wait.
inBatches(s) ==
  Len(s.events) + SumFunctionOnSet([i \in DOMAIN s.sent |-> Len(s.sent[i].events)],
                                   DOMAIN s.sent)

\* Each readout parsed is one event or one error, whatever the rest of its
\* packet is, and each event counted is in one message or waits for one.
EventsAccounted ==
  /\ counters["Readouts"] =
       sum({"ValidationErrors", "TofHigh", "PrevTofNegative", "PrevTofHigh",
            "PixelErrors", "SerializerErrors", "Events"})
  /\ counters["Events"] =
       SumFunction([i \in DOMAIN Serializers |-> inBatches(Serializers[i])])

\* An event goes out under the pulse time of its own packet, an accepted one,
\* and its time of flight is from that pulse or, when it is from before it, from
\* the previous pulse its packet names: the times that rejected packets left in
\* the parser, later packets and the timer cannot change that.
EventsTrue ==
  \A i \in DOMAIN Serializers :
    \A b \in ToSet(batches(Serializers[i])) : \A e \in ToSet(b.events) :
      LET pulse == toNS(e.packet.pulse)
      IN  /\ b.referenceTime = pulse
          /\ e.tof = e.time - (IF e.time >= pulse THEN pulse ELSE toNS(e.packet.prev))
          /\ e.tof \in 0 .. MaxTOF
          /\ sourceErrors(e.packet) = {} /\ ~pulsesApart(e.packet)
=============================================================================
