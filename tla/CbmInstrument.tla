---------------------------- MODULE CbmInstrument ---------------------------
(***************************************************************************)
(* The beam monitors (src/modules/cbm): the processing thread with two     *)
(* monitors, one whose values are summed in a histogram and one whose      *)
(* events are sent one by one (EV44Serializer, extended here).  A packet's *)
(* header is good; its data is a sequence of readouts, of which flaw is    *)
(* the first check of the parser that fails.                               *)
(***************************************************************************)
EXTENDS EV44Serializer, HistogramParameters, ESSTime, FiniteSetsExt, Functions, SequencesExt

CONSTANTS Configurations,       \* of topology, by entries
          MaxRing, MonitorRing, MaxFENId, NormalizeIBMReadouts,
          MaxTOF,
          Packets,
          None,
          MaxPackets, MaxTimeouts  \* bounds

\* Types of monitors, and the error of a readout of none of them.
Types == {"EVENT_0D", "EVENT_2D", "IBM"}
ParserErrors == {"ErrorFiber", "ErrorFEN", "ErrorDataLength", "ErrorTimeFrac", "ErrorType"}
ReadoutsOf == [EVENT_0D |-> "Readouts0D", EVENT_2D |-> "Readouts2D", IBM |-> "ReadoutsIBM"]
EventsOf == [EVENT_0D |-> "Event0DEvents", EVENT_2D |-> "Event2DEvents", IBM |-> "IBMEvents"]
Validations == {"RingErrors", "MonitorRingMismatchErrors", "FENErrors",
                "TopologyError", "TypeMismatchErrors", "XPosErrors", "YPosErrors"}
Counters ==
  {"Readouts", "NoData", "ErrorSize", "ValidationErrors", "CbmCounts", "NPOSCount",
   "ProduceCauseTimeout"} \cup ParserErrors \cup Validations
  \cup TofCounters \cup Range(ReadoutsOf) \cup Range(EventsOf)

Readouts == [flaw : ParserErrors \cup {None}, ring : Nat, fen : Nat, channel : Nat,
             type : Types, x : Nat, y : Nat, time : Nat, adc : Nat, sum : Nat]
Entries == [fen : Nat, channel : Nat, type : STRING, schema : STRING,
            width : Int, height : Int, offset : Int]

ASSUME CbmAssumption ==
  /\ Times \subseteq ReferenceTimes
  /\ {MaxRing, MonitorRing, MaxFENId, MaxTOF, MaxPackets, MaxTimeouts} \subseteq Nat
  /\ NormalizeIBMReadouts \in BOOLEAN
  /\ Configurations \subseteq Seq(Entries)
  /\ Packets \subseteq [time : Times, prev : Nat, whole : BOOLEAN, data : Seq(Readouts)]

VARIABLES
  monitors,   \* entries of the topology, by the index of HashMap2D
  reference,  \* the packet's pulses
  todo,       \* readouts of the packet still to be processed
  counters,
  packets,
  \* of the histogram serializer
  ReferenceTime, FrameCounter, iter, SummedAxis, SummedData, DataBins,
  histogram, stats, origin

da00Vars == <<ReferenceTime, FrameCounter, iter, SummedAxis, SummedData, DataBins,
              histogram, stats, origin>>
cbmVars == <<vars, da00Vars, monitors, reference, todo, counters, packets>>

DA00 == INSTANCE HistogramSerializer
-----------------------------------------------------------------------------
(***************************************************************************)
(* Configuration (geometry/Config.cpp) and HashMap2D: a FEN beyond the     *)
(* largest would share the index of another channel.                       *)
(***************************************************************************)
index(fen, channel) == channel * (MaxFENId + 1) + fen

\* A topology that is not refused.
accepted(entries) ==
  /\ \A i, j \in DOMAIN entries :
       index(entries[i].fen, entries[i].channel) = index(entries[j].fen, entries[j].channel)
         => i = j
  /\ \A e \in ToSet(entries) :
       /\ e.fen <= MaxFENId /\ e.type \in Types /\ e.schema \in {"DA00", "EV44"}
       /\ e.type = "EVENT_2D" => /\ e.schema = "EV44"
                                 /\ {e.width, e.height, e.offset} \subseteq Nat

\* There is one serializer of each kind here, so one monitor for each.
ASSUME MonitorsAssumption ==
  \A entries \in Configurations : accepted(entries) =>
    \A d, e \in ToSet(entries) : d.schema = e.schema => d = e

\* What the topology becomes: one map for serializers and geometry.
monitorMap(entries) ==
  [n \in {index(e.fen, e.channel) : e \in ToSet(entries)} |->
     CHOOSE e \in ToSet(entries) : index(e.fen, e.channel) = n]

Known(r) == index(r.fen, r.channel) \in DOMAIN monitors
monitor(r) == monitors[index(r.fen, r.channel)]

CbmInit ==
  /\ Init /\ DA00!Init
  /\ \E entries \in Configurations : accepted(entries) /\ monitors = monitorMap(entries)
  /\ reference = [time |-> 0, prev |-> 0] /\ todo = <<>>
  /\ counters = [c \in Counters |-> 0] /\ packets = 0
-----------------------------------------------------------------------------
increment(c, S) == [x \in Counters |-> IF x \in S THEN c[x] + 1 ELSE c[x]]

\* Readouts before the first flawed one.
good(data) ==
  LET bad == {i \in DOMAIN data : data[i].flaw # None}
  IN  IF bad = {} THEN data ELSE SubSeq(data, 1, Min(bad) - 1)

\* The counter of readout i: the parser does not move on from a flawed readout,
\* which is counted in place of those behind it.
readoutCounter(data, i) ==
  LET n == Len(good(data))
  IN  IF i <= n THEN ReadoutsOf[data[i].type] ELSE data[n + 1].flaw

\* The parser's counters after a packet.
parsed(p) ==
  LET data == p.data
      times(c) == Cardinality({i \in DOMAIN data : readoutCounter(data, i) = c})
  IN  CASE ~p.whole -> increment(counters, {"ErrorSize"})
        [] p.whole /\ data = <<>> -> increment(counters, {"NoData"})
        [] OTHER -> [[c \in Counters |-> counters[c] + times(c)]
                       EXCEPT !["Readouts"] = @ + Len(data)]

\* parse(), and the start of processMonitorReadouts(): the pulse of all
\* serializers, of bad data too.
ReceivePacket(p) ==
  /\ packets < MaxPackets /\ packets' = packets + 1
  /\ todo' = IF p.whole THEN good(p.data) ELSE <<>>
  /\ counters' = parsed(p)
  /\ reference' = [time |-> p.time, prev |-> p.prev]
  /\ DA00!checkAndSetReferenceTime(p.time)
  /\ IF p.time = referenceTime THEN UNCHANGED vars ELSE checkAndSetReferenceTime(p.time)
  /\ UNCHANGED monitors
-----------------------------------------------------------------------------
\* Geometry: the checks of a readout, in order.
checks(r) ==
  << [ok |-> r.ring <= MaxRing, counter |-> "RingErrors"],
     [ok |-> r.ring = MonitorRing, counter |-> "MonitorRingMismatchErrors"],
     [ok |-> r.fen <= MaxFENId, counter |-> "FENErrors"],
     [ok |-> Known(r), counter |-> "TopologyError"],
     [ok |-> Known(r) /\ r.type = monitor(r).type, counter |-> "TypeMismatchErrors"],
     [ok |-> Known(r) /\ (r.type = "EVENT_2D" => r.x < monitor(r).width),
      counter |-> "XPosErrors"],
     [ok |-> Known(r) /\ (r.type = "EVENT_2D" => r.y < monitor(r).height),
      counter |-> "YPosErrors"] >>

\* Mutant: the type of a readout is not looked at.
failures_AnyType(r) ==
  {n \in DOMAIN checks(r) : ~checks(r)[n].ok /\ checks(r)[n].counter # "TypeMismatchErrors"}

failures(r) == {n \in DOMAIN checks(r) : ~checks(r)[n].ok}

calcPixel(r) ==
  CASE r.type = "EVENT_2D" -> monitor(r).offset + r.y * monitor(r).width + r.x + 1
    [] r.type = "EVENT_0D" -> monitor(r).offset
    [] OTHER -> 0

normADC(r) ==
  IF NormalizeIBMReadouts /\ r.sum # 0 THEN r.adc \div r.sum ELSE r.adc

tofOf(r) == getTOF(r.time, reference, MaxTOF)

\* Mutant: a readout outside the pulses is in none of the counters.
dropped_Uncounted(r) ==
  IF failures(r) # {} THEN {checks(r)[Min(failures(r))].counter, "ValidationErrors"} ELSE {}

\* The counters of a readout that does not become an event.
dropped(r) ==
  IF failures(r) # {} THEN {checks(r)[Min(failures(r))].counter, "ValidationErrors"}
  ELSE tofOf(r).counters

Drop(r) ==
  /\ failures(r) # {} \/ tofOf(r).tof = InvalidTof
  /\ counters' = increment(counters, dropped(r))
  /\ UNCHANGED <<vars, da00Vars>>

\* HashMap2D::get() finds what the geometry found, so it never throws.  A
\* histogram has the values of an integrating monitor; an event has as its
\* pixel the value, or that of the geometry.
Add(r) ==
  /\ failures(r) = {} /\ tofOf(r).tof # InvalidTof
  /\ counters' =
       LET c == increment(counters, {EventsOf[r.type], "CbmCounts"} \cup tofOf(r).counters)
       IN  IF r.type = "IBM" THEN [c EXCEPT !["NPOSCount"] = @ + normADC(r)] ELSE c
  /\ IF monitor(r).schema = "DA00"
     THEN /\ DA00!addEvent(tofOf(r).tof, IF r.type = "IBM" THEN normADC(r) ELSE 1)
          /\ UNCHANGED vars
     ELSE /\ addEvent([time |-> tofOf(r).tof,
                       pixel |-> IF r.type = "IBM" THEN normADC(r) ELSE calcPixel(r)])
          /\ UNCHANGED da00Vars

\* A round of the loop over the readouts.
ProcessReadout ==
  /\ todo # <<>> /\ todo' = Tail(todo)
  /\ Drop(Head(todo)) \/ Add(Head(todo))
  /\ UNCHANGED <<monitors, reference, packets>>

\* ProduceTimer ran out, after a packet or none: histograms wait for a pulse.
ProduceTimeout ==
  /\ todo = <<>> /\ counters["ProduceCauseTimeout"] < MaxTimeouts
  /\ produce
  /\ counters' = increment(counters, {"ProduceCauseTimeout"})
  /\ UNCHANGED <<da00Vars, monitors, reference, todo, packets>>

CbmNext == \/ todo = <<>> /\ \E p \in Packets : ReceivePacket(p)
           \/ ProcessReadout
           \/ ProduceTimeout

CbmSpec == CbmInit /\ [][CbmNext]_cbmVars
-----------------------------------------------------------------------------
CbmTypeOK ==
  /\ DA00!TypeOK
  /\ counters \in [Counters -> Nat] /\ packets \in 0 .. MaxPackets
  /\ todo # <<>> => ReferenceTime = reference.time /\ referenceTime = reference.time

\* What the histograms promise: see FrameStream.
ImplementsFrameStream == DA00!Stream!Spec

TotalsMatchBins == DA00!TotalsMatchBins
AxisIsTime == DA00!AxisIsTime

\* An event of a monitor with pixels has one of that monitor's pixels, whatever
\* readouts with other types or places came in between.
pixelOf(pixel, m) ==
  /\ m.type = "EVENT_2D" => pixel - m.offset \in 1 .. m.width * m.height
  /\ m.type = "EVENT_0D" => pixel = m.offset
EventsHavePixels ==
  \A n \in DOMAIN monitors, i \in 1 .. EventCount :
    monitors[n].schema = "EV44" => pixelOf(events[i].pixel, monitors[n])

count(S) == SumFunctionOnSet(counters, S)

\* Each readout is an event or counted as one error, by the time its packet is
\* processed.
ReadoutsAccounted ==
  /\ counters["Readouts"] =
       Len(todo) + counters["ValidationErrors"] + counters["CbmCounts"] +
       count(ParserErrors \cup {"TofHigh", "PrevTofNegative", "PrevTofHigh"})
  /\ counters["ValidationErrors"] = count(Validations)
  /\ counters["CbmCounts"] = count(Range(EventsOf))
  /\ counters["Readouts"] = count(ParserErrors \cup Range(ReadoutsOf))
=============================================================================
