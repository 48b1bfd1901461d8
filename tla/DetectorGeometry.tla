-------------------------- MODULE DetectorGeometry --------------------------
(***************************************************************************)
(* From a readout to an event, in an instrument whose geometry is one of   *)
(* common/geometry/DetectorGeometry.h: the readout is checked against the  *)
(* configuration, its time of flight is asked for, and its pixel is        *)
(* calculated.  Each way to fail has a counter.  The geometries extend     *)
(* this module.                                                            *)
(***************************************************************************)
EXTENDS Integers, Sequences, FiniteSets

CONSTANT MaxReadouts   \* bound on the readouts of a behavior

ASSUME MaxReadoutsAssumption == MaxReadouts \in Nat

BaseCounters == {"RingErrors", "FENErrors", "RingMappingErrors", "TopologyError",
                 "ValidationErrors", "PixelErrors",
                 \* of the instrument
                 "ParseErrors", "Readouts", "TofErrors", "SerializerErrors", "Events"}

VARIABLES
  configuration,  \* what the program has been started with; never changes
  counters,
  readouts,       \* so far
  events          \* each with the readout it is from

vars == <<configuration, counters, readouts, events>>
-----------------------------------------------------------------------------
\* ESSGeometry::pixel2D() of an nx by ny plane: pixels are counted from 1, and 0
\* is no pixel.
pixel2D(nx, ny, x, y) ==
  IF x \in 0 .. nx - 1 /\ y \in 0 .. ny - 1 THEN 1 + x + nx * y ELSE 0

\* Two fibers make a ring.
calcRing(r) == r.fiber \div 2

\* A check, and the counter of the readouts that fail it.
check(ok, counter) == [ok |-> ok, counter |-> counter]

\* The ranges are inclusive.
validateRing(r, max) == check(calcRing(r) <= max, "RingErrors")
validateFEN(r, max) == check(r.fen <= max, "FENErrors")

\* The checks are made in order, until one fails.
validateAll(checks) == \A i \in DOMAIN checks : checks[i].ok

failure(checks) ==
  LET failed == {i \in DOMAIN checks : ~checks[i].ok}
  IN  checks[CHOOSE i \in failed : \A j \in failed : i <= j].counter

increment(S) == [c \in DOMAIN counters |-> IF c \in S THEN counters[c] + 1 ELSE counters[c]]
-----------------------------------------------------------------------------
\* Mutant: only the check counts.
Rejected_OneCounter(checks) ==
  /\ ~validateAll(checks)
  /\ counters' = increment({"Readouts", failure(checks)})
  /\ UNCHANGED events

\* A readout is rejected by the first check that fails.
Rejected(checks) ==
  /\ ~validateAll(checks)
  /\ counters' = increment({"Readouts", "ValidationErrors", failure(checks)})
  /\ UNCHANGED events

\* It has no time of flight (ESSTime).
NoTof ==
  /\ counters' = increment({"Readouts", "TofErrors"})
  /\ UNCHANGED events

\* What the calculation of a pixel comes to, with the counters it increments.
Pixel(pixel, C) == [pixel |-> pixel, counters |-> C]

\* Mutant: no pixel is an event too.
Calculated_AnyPixel(r, result, serializer, numSerializers) ==
  /\ counters' = increment({"Readouts", "Events"} \cup result.counters)
  /\ events' = events \cup {[readout |-> r, pixel |-> result.pixel,
                             serializer |-> serializer]}

\* The pixel has been calculated; the event is for a serializer, if there is one.
Calculated(r, result, serializer, numSerializers) ==
  LET verdict == CASE result.pixel = 0 -> "PixelErrors"
                   [] result.pixel # 0 /\ serializer >= numSerializers -> "SerializerErrors"
                   [] result.pixel # 0 /\ serializer < numSerializers -> "Events"
  IN  /\ counters' = increment({"Readouts", verdict} \cup result.counters)
      /\ events' = IF verdict = "Events"
                   THEN events \cup {[readout |-> r, pixel |-> result.pixel,
                                      serializer |-> serializer]}
                   ELSE events

\* The parser drops a readout, and never passes it on.
Dropped(checks) ==
  /\ ~validateAll(checks)
  /\ counters' = increment({"ParseErrors", failure(checks)})
  /\ readouts < MaxReadouts /\ readouts' = readouts + 1
  /\ UNCHANGED <<configuration, events>>

Timed(r, result, serializer, numSerializers) ==
  NoTof \/ Calculated(r, result, serializer, numSerializers)

\* One round of processReadouts().
ProcessReadout(r, checks, result, serializer, numSerializers) ==
  /\ readouts < MaxReadouts /\ readouts' = readouts + 1
  /\ \/ Rejected(checks)
     \/ validateAll(checks) /\ Timed(r, result, serializer, numSerializers)
  /\ UNCHANGED configuration
-----------------------------------------------------------------------------
\* Every readout is one event or is counted as one error; a rejected one is also
\* counted by exactly one of the checks, whatever the order of the checks and
\* whatever a failed calculation has counted.
Accounted ==
  /\ counters["Readouts"] + counters["ParseErrors"] = readouts
  /\ counters["Readouts"] = counters["ValidationErrors"] + counters["TofErrors"]
                            + counters["PixelErrors"] + counters["SerializerErrors"]
                            + counters["Events"]
  /\ Cardinality(events) <= counters["Events"]
=============================================================================
