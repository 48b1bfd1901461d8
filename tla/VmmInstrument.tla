---------------------------- MODULE VmmInstrument ---------------------------
(***************************************************************************)
(* The processing thread of the instruments with VMM3 readouts, one packet *)
(* with a good header a step: the data is split into readouts              *)
(* (common/readout/vmm3/VMM3Parser.cpp), the readouts become hits of event *)
(* builders (EventBuilder), and the events that these form are sent or     *)
(* counted (FreiaInstrument.cpp, TREXInstrument.cpp, NMXInstrument.cpp).   *)
(* What configuration, calibration and geometry make of a readout is part  *)
(* of the readout; its time is a number of nanoseconds.                    *)
(***************************************************************************)
EXTENDS EventBuilder, ESSTime

CONSTANTS Instruments,          \* Freia (Estia and TBLMB too), TREX, NMX
          MaxRing, MaxFEN,      \* of VMM3Config
          Units,                \* hybrids of Freia, panels of NMX: 0 .. Units - 1
          NX, NY, NZ, Depth,    \* of the geometry; Depth wires make a column
          AdcLimit,             \* VMM_ADC_10BIT_LIMIT
          MaxGapWire, MaxGapStrip,               \* of Freia
          MaxGridsSpan,                          \* of TREX
          MaxSpanX, MinSpanX, MaxSpanY, MinSpanY, MaxTimeSpan,  \* of NMX
          MaxTOF,
          Packets,     \* what each instrument can receive
          None,
          MaxPackets   \* bound on the packets

ASSUME InstrumentAssumption ==
  /\ Instruments \subseteq {"Freia", "TREX", "NMX"}
  /\ {MaxRing, MaxFEN, Units, NX, NY, NZ, AdcLimit, MaxGapWire, MaxGapStrip,
      MaxGridsSpan, MaxSpanX, MinSpanX, MaxSpanY, MinSpanY, MaxTimeSpan, MaxTOF,
      MaxPackets} \subseteq Nat
  /\ Depth \in Nat \ {0}

\* The checks of the parser, of which flaw is the first a readout fails.
ParserErrors == {"ErrorFiber", "ErrorFEN", "ErrorDataLength", "ErrorTimeFrac",
                 "ErrorBC", "ErrorADC", "ErrorVMM", "ErrorChannel"}

\* What can be wrong with a readout in processReadouts(), of which fault is the
\* first: first the checks of the geometry's validateReadoutData(), if any.
VMM3Validations == {"RingErrors", "FENErrors", "HybridMappingErrors"}
FreiaValidations ==
  VMM3Validations \cup {"WireChannelRangeErrors", "StripChannelRangeErrors"}
NMXValidations == VMM3Validations \cup {"ADCErrors"}
Validations == [Freia |-> FreiaValidations, TREX |-> {}, NMX |-> NMXValidations]

FreiaFaults == FreiaValidations \cup {"ADCBelowThreshold", "CoordOverflow"}
TREXFaults == {"HybridMappingErrors", "MinADC", "MappingErrors"}
Faults == [Freia |-> FreiaFaults, TREX |-> TREXFaults, NMX |-> NMXValidations]

\* Faults of a coordinate, counted for its plane too.
CoordFaults == {"WireChannelRangeErrors", "StripChannelRangeErrors", "CoordOverflow"}

\* calib is the top bit of GEO, over that of OTADC.
Readouts == [flaw : ParserErrors \cup {None},
             fault : (UNION {Faults[i] : i \in DOMAIN Faults}) \cup {None},
             calib : BOOLEAN, over : BOOLEAN,
             ring : 0 .. MaxRing, fen : 0 .. MaxFEN, unit : 0 .. Units - 1,
             plane : Planes, time : Nat, coord : Nat, weight : Nat]

\* whole says that the data is a number of whole readouts.
ASSUME PacketsAssumption ==
  \A i \in Instruments :
    Packets[i] \subseteq [time : Nat, prev : Nat, whole : BOOLEAN, data : Seq(Readouts)]

SpanErrors == {"EventsInvalidWireGap", "EventsInvalidStripGap",
               "ClustersTooLargeGridSpan", "ClustersTooLargeSpanX",
               "ClustersTooSmallSpanX", "ClustersTooLargeSpanY",
               "ClustersTooSmallSpanY", "ClustersTooLargeTimeSpan"}

\* The counters of events in one plane only, any and by plane.
Coincidence ==
  [Freia |-> <<"EventsNoCoincidence", "EventsMatchedStripOnly", "EventsMatchedWireOnly">>,
   TREX |-> <<"ClustersNoCoincidence", "ClustersMatchedWireOnly", "ClustersMatchedGridOnly">>,
   NMX |-> <<"ClustersNoCoincidence", "ClustersMatchedXOnly", "ClustersMatchedYOnly">>]

Counters ==
  ParserErrors \cup (UNION {Faults[i] : i \in DOMAIN Faults}) \cup SpanErrors \cup
  (UNION {ToSet(Coincidence[i]) : i \in DOMAIN Coincidence}) \cup TofCounters \cup
  {"ErrorSize", "Readouts", "DataReadouts", "CalibReadouts", "OverThreshold",
   "ValidationErrors", "InvalidXCoord", "InvalidYCoord", "MaxADC",
   "EventsMatchedClusters", "PixelErrors", "Events"}

VARIABLES
  instrument,  \* the one this EFU is for
  builders,    \* event builders: of a hybrid, of a FEN, of a panel
  counters,    \* of the parser, the geometry, the times and the instrument
  packets,     \* packets so far
  hits,        \* history: the hits inserted, with builder, packet, ring and FEN
  formed       \* history: the events of the builders and what became of them

vmmVars == <<instrument, builders, counters, packets, hits, formed>>

\* TREX never sets its builders to split.
VmmInit ==
  /\ instrument \in Instruments
  /\ \E split \in BOOLEAN :
       /\ instrument = "TREX" => ~split
       /\ builders =
            [i \in 0 .. (IF instrument = "TREX" THEN (MaxRing + 1) * (MaxFEN + 1)
                                                ELSE Units) - 1 |-> NewBuilder(split)]
  /\ counters = [c \in Counters |-> 0]
  /\ packets = 0 /\ hits = <<>> /\ formed = <<>>
-----------------------------------------------------------------------------
increment(c, S) == [x \in Counters |-> IF x \in S THEN c[x] + 1 ELSE c[x]]

\* One set of counters after the other.
incrementAll(c, sets) ==
  [x \in Counters |-> c[x] + Cardinality({i \in DOMAIN sets : x \in sets[i]})]

\* Mutant: a readout after a bad one is not looked at.
parse_Stops(p) ==
  LET bad == {i \in DOMAIN p.data : p.data[i].flaw # None}
  IN  IF bad = {} THEN p.data ELSE SubSeq(p.data, 1, Min(bad) - 1)

\* VMMParser.Result: a bad readout is left out.
parse(p) ==
  FlattenSeq([i \in DOMAIN p.data |->
                IF p.whole /\ p.data[i].flaw = None THEN <<p.data[i]>> ELSE <<>>])

parserCounters(r) ==
  {"Readouts"} \cup
  (IF r.flaw # None THEN {r.flaw}
   ELSE {IF r.calib THEN "CalibReadouts" ELSE "DataReadouts"} \cup
        (IF r.over THEN {"OverThreshold"} ELSE {}))

parsed(p) ==
  IF p.whole
  THEN incrementAll(counters, [i \in DOMAIN p.data |-> parserCounters(p.data[i])])
  ELSE increment(counters, {"ErrorSize"})
-----------------------------------------------------------------------------
\* The builder of a readout: of its hybrid, of its panel, and in TREX one
\* computed from ring and FEN, where the FENs of a ring are MaxFEN + 1.
builderOf(r) == IF instrument = "TREX" THEN r.ring * MaxFEN + r.fen ELSE r.unit

hitCounters(r) ==
  IF instrument = "Freia" /\ r.weight >= AdcLimit THEN {"MaxADC"} ELSE {}

\* The weight is looked at before the coordinate.  (NMX would count an overflow as
\* MappingErrors, but the parser lets no such channel pass.)
faultCounters(r) ==
  {r.fault} \cup (IF r.fault = "CoordOverflow" THEN hitCounters(r) ELSE {}) \cup
  (IF r.fault \in Validations[instrument] THEN {"ValidationErrors"} ELSE {}) \cup
  (IF r.fault \in CoordFaults
   THEN {IF r.plane = PlaneX THEN "InvalidXCoord" ELSE "InvalidYCoord"} ELSE {})

\* One round of the loop over the readouts.
processReadout(w, r) ==
  LET hit == [id |-> Len(w.hits) + 1, plane |-> r.plane, time |-> r.time,
              coord |-> r.coord, weight |-> r.weight]
      b == builderOf(r)
  IN  IF r.fault \in Faults[instrument]
      THEN [w EXCEPT !.counters = increment(@, faultCounters(r))]
      ELSE [builders |-> [w.builders EXCEPT ![b] = insert(@, hit)],
            counters |-> increment(w.counters, hitCounters(r)),
            hits |-> Append(w.hits, [hit |-> hit, builder |-> b, packet |-> packets + 1,
                                     from |-> <<r.ring, r.fen>>])]

\* Mutant: all leave what could go on in the next packet.
fullFlush_Never == FALSE

\* TREX leaves what could go on in the next packet.
fullFlush == instrument # "TREX"

processReadouts(p, c) ==
  LET w == FoldLeft(processReadout, [builders |-> builders, counters |-> c, hits |-> hits],
                    parse(p))
  IN  [w EXCEPT !.builders = [b \in DOMAIN @ |-> flush(@[b], fullFlush)]]
-----------------------------------------------------------------------------
\* The checks of an event in both planes, in order.
FreiaChecks(e) ==
  << [ok |-> ~hasGap(e.Y, MaxGapWire), counter |-> "EventsInvalidWireGap"],
     [ok |-> ~hasGap(e.X, MaxGapStrip), counter |-> "EventsInvalidStripGap"] >>

TREXChecks(e) ==
  << [ok |-> coordSpan(e.Y) <= MaxGridsSpan, counter |-> "ClustersTooLargeGridSpan"] >>

NMXChecks(e) ==
  << [ok |-> coordSpan(e.X) <= MaxSpanX, counter |-> "ClustersTooLargeSpanX"],
     [ok |-> coordSpan(e.X) >= MinSpanX, counter |-> "ClustersTooSmallSpanX"],
     [ok |-> timeSpan(e.X) <= MaxTimeSpan, counter |-> "ClustersTooLargeTimeSpan"],
     [ok |-> coordSpan(e.Y) <= MaxSpanY, counter |-> "ClustersTooLargeSpanY"],
     [ok |-> coordSpan(e.Y) >= MinSpanY, counter |-> "ClustersTooSmallSpanY"],
     [ok |-> timeSpan(e.Y) <= MaxTimeSpan, counter |-> "ClustersTooLargeTimeSpan"] >>

eventChecks(e) ==
  CASE instrument = "Freia" -> FreiaChecks(e)
    [] instrument = "TREX" -> TREXChecks(e)
    [] instrument = "NMX" -> NMXChecks(e)

\* The counter of the first check that fails, if any.
failure(checks) ==
  LET bad == {i \in DOMAIN checks : ~checks[i].ok}
  IN  IF bad = {} THEN {} ELSE {checks[Min(bad)].counter}

\* ESSGeometry: pixels are numbered from 1, 0 is none.
pixel3D(x, y, z) ==
  IF x < NX /\ y < NY /\ z < NZ THEN z * NX * NY + y * NX + x + 1 ELSE 0

\* By center of mass, where a column of TREX has Depth wires.
FreiaPixel(e) == pixel3D(center(e.X), center(e.Y), 0)
TREXPixel(e) == pixel3D(center(e.X) \div Depth, center(e.Y), center(e.X) % Depth)

\* By the coordinate that is last in time.
NMXPixel(e) == pixel3D(coordUtpc(e.X), coordUtpc(e.Y), 0)

calcPixel(e) ==
  CASE instrument = "Freia" -> FreiaPixel(e)
    [] instrument = "TREX" -> TREXPixel(e)
    [] instrument = "NMX" -> NMXPixel(e)

eventTime(e) ==
  IF instrument = "NMX" THEN timeEnd(asCluster(e)) ELSE timeStart(asCluster(e))

singlePlane(e) ==
  {Coincidence[instrument][1], Coincidence[instrument][IF e.X.hits # <<>> THEN 2 ELSE 3]}

\* What an event counts as, and its time of flight and pixel.
lost(S) == [counted |-> S, tof |-> InvalidTof, pixel |-> 0]
judged(failed, tof, pixel) ==
  IF failed # {} THEN lost(failed)
  ELSE IF tof.tof = InvalidTof THEN lost({"EventsMatchedClusters"} \cup tof.counters)
  ELSE IF pixel = 0 THEN lost({"EventsMatchedClusters", "PixelErrors"} \cup tof.counters)
  ELSE [counted |-> {"EventsMatchedClusters", "Events"} \cup tof.counters,
        tof |-> tof.tof, pixel |-> pixel]
outcomeOf(e, reference) ==
  IF eventHits(e) = <<>> THEN lost({})
  ELSE IF ~bothPlanes(e) THEN lost(singlePlane(e))
  ELSE judged(failure(eventChecks(e)), getTOF(eventTime(e), reference, MaxTOF), calcPixel(e))

ids(s) == {h.id : h \in ToSet(s)}

\* Mutant: the events stay in the builder.
emptied_Not(b) == b

emptied(b) == [b EXCEPT !.events = <<>>]

\* All builders' events.
allEvents(bs) ==
  FlattenSeq([i \in 1 .. Cardinality(DOMAIN bs) |-> bs[i - 1].events])

\* Those that are sent go to the serializer.
generateEvents(events, reference) ==
  [i \in DOMAIN events |->
     LET became == outcomeOf(events[i], reference)
     IN  [ids |-> ids(eventHits(events[i])), event |-> events[i], packet |-> packets + 1,
          counted |-> became.counted, tof |-> became.tof, pixel |-> became.pixel]]

\* The processing thread pops a packet whose header is good.
ProcessPacket(p) ==
  /\ packets < MaxPackets /\ packets' = packets + 1
  /\ \E w \in {processReadouts(p, parsed(p))} :
       \E g \in {generateEvents(allEvents(w.builders), [time |-> p.time, prev |-> p.prev])} :
         /\ builders' = [b \in DOMAIN w.builders |-> emptied(w.builders[b])]
         /\ counters' = incrementAll(w.counters, [i \in DOMAIN g |-> g[i].counted])
         /\ hits' = w.hits
         /\ formed' = formed \o g
  /\ UNCHANGED instrument

VmmNext == \E p \in Packets[instrument] : ProcessPacket(p)

VmmSpec == VmmInit /\ [][VmmNext]_vmmVars
-----------------------------------------------------------------------------
Hits == [id : Nat, plane : Planes, time : Nat, coord : Nat, weight : Nat]

BuildersTyped ==
  /\ instrument \in Instruments
  /\ \A b \in DOMAIN builders :
       /\ builders[b].hits = [p \in Planes |-> <<>>] /\ builders[b].events = <<>>
       /\ builders[b].current \in [Planes -> Seq(Hits)]
       /\ \A c \in ToSet(builders[b].unmatched) : c.hits \in Seq(Hits) \ {<<>>}
       /\ builders[b].latest \in [Planes -> Nat]
       /\ builders[b].stats \in [MatcherCounters -> Nat]
  /\ counters \in [Counters -> Nat]
  /\ packets \in 0 .. MaxPackets

\* The hits that a builder holds back.
held(b) ==
  FlattenSeq([i \in DOMAIN b.unmatched |-> b.unmatched[i].hits])
    \o b.current[PlaneX] \o b.current[PlaneY]

\* Each hit is in one place: held back by a builder, in one event, or discarded
\* with an event that could not be split; clustering, merging, requeueing and
\* splitting neither lose nor repeat one.
HitsAccounted ==
  LET inBuilders == [b \in DOMAIN builders |-> held(builders[b])]
      discarded == UNION {builders[b].discarded : b \in DOMAIN builders}
      number == SumFunction([b \in DOMAIN builders |-> Len(inBuilders[b])])
                  + Cardinality(discarded)
                  + SumFunction([n \in DOMAIN formed |-> Cardinality(formed[n].ids)])
  IN  /\ number = Len(hits)
      /\ (UNION {ids(inBuilders[b]) : b \in DOMAIN builders})
           \cup {h.id : h \in discarded} \cup (UNION {e.ids : e \in ToSet(formed)}) = DOMAIN hits

\* Hits come in the order of their times, but for those of one packet.
chronological(b) ==
  \A i, j \in DOMAIN hits :
    hits[i].builder = b /\ hits[j].builder = b /\ hits[i].packet < hits[j].packet
      => hits[i].hit.time <= hits[j].hit.time

\* Only TREX builds events across packets.
PerPacket == instrument \in {"Freia", "NMX"}

\* Hits that belong together wherever they are seen.
linked(i, j) ==
  /\ hits[i].builder = hits[j].builder
  /\ PerPacket => hits[i].packet = hits[j].packet
  /\ hits[i].hit.time <= hits[j].hit.time + MaxMatchingTimeGap
  /\ hits[j].hit.time <= hits[i].hit.time + MaxMatchingTimeGap

\* Events are the groups of hits linked in time, in both planes, complete and no
\* larger: cutting the data into packets, and clustering and matching what has
\* come so far, gives the events of all hits at once.  (Instruments that flush
\* fully do this with the hits of a packet.)
EventsAreComplete ==
  \A e \in ToSet(formed) :
    \A i \in e.ids :
      (chronological(hits[i].builder) /\ ~builders[hits[i].builder].split) =>
        /\ \A j \in DOMAIN hits : linked(i, j) => j \in e.ids
        /\ \/ \A j \in e.ids : hits[j].hit.time <= hits[i].hit.time
           \/ \E j \in e.ids : hits[j].hit.time > hits[i].hit.time /\ linked(i, j)

\* A builder that flushes fully keeps nothing for the next packet; another keeps
\* what is not long past in both planes, what begins after something that is not,
\* and one event at most that is long past.
NothingLingers ==
  \A b \in DOMAIN builders :
    LET kept == builders[b].unmatched
        past == {i \in DOMAIN kept : ready_to_be_matched(builders[b].latest, kept[i])}
        before(i) == {j \in DOMAIN kept : timeStart(kept[j]) <= timeStart(kept[i])}
    IN  IF PerPacket THEN held(builders[b]) = <<>>
        ELSE \A i, j \in past :
               before(i) \cup before(j) \subseteq past =>
                 timeStart(kept[i]) - timeEnd(kept[j]) <= MaxMatchingTimeGap

\* With splitting on, no event has hits of two particles side by side: it is
\* small, or in one piece in each plane.
SplitIsClean ==
  \A e \in ToSet(formed) :
    (\E i \in e.ids : builders[hits[i].builder].split) =>
      \/ coordSpan(e.event.X) < MaxCoordSpan /\ coordSpan(e.event.Y) < MaxCoordSpan
      \/ \A c \in {e.event.X, e.event.Y} :
           Len(groups(byCoordinate(c.hits), MinCoordGap)) <= 1

count(S) == SumFunctionOnSet(counters, S)

\* Every readout is a hit or counted as one error, and every event formed ends up
\* sent or counted, once.
EventsAccounted ==
  /\ counters["Readouts"] = Len(hits) + count(ParserErrors \cup Faults[instrument])
  /\ Cardinality({n \in DOMAIN formed : formed[n].ids # {}}) =
       count({Coincidence[instrument][1], "EventsMatchedClusters"} \cup SpanErrors)
  /\ counters["EventsMatchedClusters"] =
       count({"Events", "PixelErrors", "TofHigh", "PrevTofNegative", "PrevTofHigh"})
  /\ counters["Events"] = Cardinality({n \in DOMAIN formed : formed[n].pixel # 0})

\* "One builder per cassette" (TREXInstrument.h:54): an event has the hits of one
\* FEN.
OneBuilderPerFEN ==
  \A e \in ToSet(formed) : \A i, j \in e.ids : hits[i].from = hits[j].from

\* "hit with largest time" (Cluster.cpp:238): the pixel of an NMX event is where
\* its last hits are.
PixelIsLatest ==
  \A e \in ToSet(formed) :
    (instrument = "NMX" /\ e.pixel # 0) =>
      \E h \in ToSet(e.event.X.hits), g \in ToSet(e.event.Y.hits) :
        /\ h.time = timeEnd(e.event.X) /\ g.time = timeEnd(e.event.Y)
        /\ e.pixel = pixel3D(h.coord, g.coord, 0)
=============================================================================
