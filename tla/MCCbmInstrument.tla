--------------------------- MODULE MCCbmInstrument --------------------------
(***************************************************************************)
(* CbmInstrument with a histogram of two frames of three bins, and a       *)
(* monitor of each type beside it; configurations to be refused; packets   *)
(* of pulses in any order, with readouts of both monitors, too early and   *)
(* too late, each fault, flaws and bad sizes.                              *)
(***************************************************************************)
EXTENDS CbmInstrument

entry(fen, channel, type, schema) ==
  [fen |-> fen, channel |-> channel, type |-> type, schema |-> schema,
   width |-> 2, height |-> 1, offset |-> 5]
histogramEntry == entry(0, 1, "IBM", "DA00")
MCConfigurations ==
  {<<histogramEntry, entry(1, 0, type, "EV44")>> : type \in Types}
    \cup {<<histogramEntry, entry(0, 1, "EVENT_0D", "EV44")>>,
          <<histogramEntry, entry(2, 0, "EVENT_0D", "EV44")>>,
          <<histogramEntry, entry(1, 0, "EVENT_2D", "DA00")>>}

MCEvents == [time : 0 .. MaxTOF, pixel : 0 .. 7]

value(t, adc) ==
  [flaw |-> None, ring |-> MonitorRing, fen |-> 0, channel |-> 1, type |-> "IBM",
   x |-> 0, y |-> 0, time |-> t, adc |-> adc, sum |-> 2]
event(type, t, x) ==
  [value(t, 3) EXCEPT !.fen = 1, !.channel = 0, !.type = type, !.x = x]
packet(t, data) == [time |-> t, prev |-> IF t = 0 THEN 0 ELSE t - 4, whole |-> TRUE, data |-> data]

Faults(r) ==
  <<[r EXCEPT !.ring = MaxRing + 1], [r EXCEPT !.ring = 0], [r EXCEPT !.fen = 1],
    [r EXCEPT !.fen = 2, !.channel = 0], event("EVENT_2D", r.time, 2),
    [event("EVENT_2D", r.time, 0) EXCEPT !.y = 1]>>
OfEachType(t, x) == <<event("EVENT_0D", t, x), event("EVENT_2D", t, x), event("IBM", t, x)>>

MCPackets ==
  {packet(0, <<value(5, 3)>>), packet(4, <<value(7, 3), value(10, 3), value(11, 3)>>),
   packet(4, <<value(0, 3), value(7, 4)>>), packet(0, <<>>), packet(8, <<>>),
   packet(4, OfEachType(5, 1)), packet(4, Append(OfEachType(3, 0), value(6, 4))),
   packet(8, Faults(value(5, 3))), packet(4, <<event("IBM", 6, 0), [value(5, 3) EXCEPT !.flaw = "ErrorFEN"], value(5, 3)>>),
   [packet(8, <<value(9, 3)>>) EXCEPT !.whole = FALSE]}
=============================================================================
