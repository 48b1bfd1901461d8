--------------------------- MODULE MCVmmInstrument --------------------------
(***************************************************************************)
(* Packets for model checking VmmInstrument: one or two readouts of both   *)
(* planes at times a cluster, a matching gap, and more than the latency    *)
(* apart, in and out of order; tracks with a hole, with a coordinate hit   *)
(* twice, too long, and two at once with weights that tell them apart, do  *)
(* not, or cross; readouts with flaws and faults; data that is cut off;    *)
(* and pulses that put the events' times everywhere.                       *)
(***************************************************************************)
EXTENDS VmmInstrument

r(p, t, c, w) ==
  [flaw |-> None, fault |-> None, calib |-> FALSE, over |-> FALSE, ring |-> 0,
   fen |-> 0, unit |-> 0, plane |-> p, time |-> t, coord |-> c, weight |-> w]
x(t) == r(PlaneX, t, 0, 1)
y(t) == r(PlaneY, t, 0, 1)

packet(data) == [time |-> 0, prev |-> 0, whole |-> TRUE, data |-> data]
at(time, prev, data) == [time |-> time, prev |-> prev, whole |-> TRUE, data |-> data]

\* Moments of one and of both planes.
InTime ==
  {<<x(0), y(0)>>, <<x(1)>>, <<y(2)>>, <<x(0), y(0), x(7), x(14)>>, <<y(0), y(7), y(14)>>,
   <<x(14), y(14), x(7), y(7)>>, <<x(7), x(14), y(14)>>, <<x(21), y(21)>>,
   <<x(21)>>}

\* One plane goes on while the other has moments of its own.
Ongoing == <<y(0)>> \o [i \in 1 .. 8 |-> x(i + 1)] \o <<y(3), y(9), x(14), y(14), x(21)>>

\* Two particles at once in x and in y.
pair(wx, wy) == <<r(PlaneX, 0, 0, wx[1]), r(PlaneX, 0, 3, wx[2]),
                  r(PlaneY, 1, 0, wy[1]), r(PlaneY, 1, 3, wy[2])>>

\* With a hole in x and in y, of one plane too long in space (and without weight in
\* the other), in time.
Tracks ==
  {pair(<<1, 4>>, <<1, 4>>), pair(<<1, 4>>, <<4, 1>>), pair(<<1, 4>>, <<1, 2>>),
   <<r(PlaneX, 0, 0, 1), r(PlaneX, 1, 3, 1), y(1)>>,
   <<x(0), y(0), r(PlaneY, 0, 0, 1), r(PlaneY, 0, 2, 1)>>,
   <<r(PlaneX, 0, 2, 1), r(PlaneX, 1, 3, 1), r(PlaneY, 0, 1, 0)>>,
   <<r(PlaneX, 0, 1, 1), r(PlaneX, 1, 1, 1), r(PlaneX, 2, 1, 1), r(PlaneY, 0, 1, 1)>>}

Flaws == <<[x(0) EXCEPT !.flaw = "ErrorFiber"], [x(0) EXCEPT !.calib = TRUE],
           [x(0) EXCEPT !.flaw = "ErrorADC"], [y(0) EXCEPT !.over = TRUE]>>

Bad(faults) == {<<[x(0) EXCEPT !.fault = f, !.weight = AdcLimit], y(0)>> : f \in faults}

TwoUnits == <<x(0), [x(0) EXCEPT !.unit = 1], y(0), [y(0) EXCEPT !.unit = 1]>>

\* Pulses before, between and after the events.
Pulses ==
  {at(5, 0, <<x(0), y(0)>>), at(5, 2, <<x(0), y(0), x(14), y(14)>>),
   at(2, 2, <<x(7), y(7)>>)}

MCPackets ==
  [Freia |-> {packet(d) : d \in Tracks \cup {Flaws, TwoUnits}
                                \cup Bad({"RingErrors", "CoordOverflow"})} \cup Pulses,
   TREX |-> {packet(d) : d \in InTime \cup {Ongoing, <<x(0), y(0), r(PlaneY, 0, 2, 1)>>}
                               \cup Bad({"MinADC"})}
              \cup {[packet(<<x(0)>>) EXCEPT !.whole = FALSE], at(5, 0, <<x(14), y(14)>>)},
   NMX |-> {packet(d) : d \in Tracks \cup {TwoUnits} \cup Bad({"ADCErrors"})}
             \cup Pulses]

\* The last FEN of one ring and the first of the next.
MCCassettes ==
  LET seen(t) == <<[x(t) EXCEPT !.fen = MaxFEN], [y(t) EXCEPT !.ring = 1]>>
      alone(t) == <<x(t), y(t), [x(t) EXCEPT !.fen = MaxFEN]>>
  IN  [TREX |-> {packet(seen(t) \o seen(t + 7)) : t \in {0, 14, 28}}
                  \cup {packet(alone(t)) : t \in {0, 7, 14}}]
=============================================================================
