-------------------------- MODULE MCCaenInstrument --------------------------
(***************************************************************************)
(* Packets and sections for model checking CaenInstrument: packets of no,  *)
(* one, one and a half and two readouts, with headers of both versions,    *)
(* under two pulses; a packet in every way the header's checks tell it     *)
(* from a good one; readouts of each fate and each way a section can be    *)
(* bad.  Or the packets of a generator of each kind.                       *)
(***************************************************************************)
EXTENDS UdpGenerator

time(h, l) == [high |-> h, low |-> l]

packet(v, size, pulse, prev) ==
  [size |-> size, pad |-> 0, version |-> v, cookie |-> TRUE, length |-> size,
   type |-> TRUE, queue |-> 0, seq |-> 0, timeSource |-> {"TIME_SOURCE"},
   pulse |-> time(pulse, 0), prev |-> time(prev, 0)]

Good ==
  {packet(0, HeaderSizeV0 + n, 2, 1) : n \in {4, 5, 6, 8}} \cup
  {packet(1, HeaderSizeV1, 2, 1), packet(0, HeaderSizeV0 + 8, 3, 2)}

\* Each of these but the ones of another queue or number is rejected, or
\* differs from the packet in a length only.
variants(p) ==
  {p, [p EXCEPT !.size = 0], [p EXCEPT !.size = 1], [p EXCEPT !.size = 21],
   [p EXCEPT !.pad = 1], [p EXCEPT !.version = 2], [p EXCEPT !.cookie = FALSE],
   [p EXCEPT !.size = 3, !.length = 3], [p EXCEPT !.length = 3],
   [p EXCEPT !.length = 5], [p EXCEPT !.type = FALSE],
   [p EXCEPT !.queue = 1], [p EXCEPT !.queue = 2], [p EXCEPT !.seq = 1],
   [p EXCEPT !.seq = 2],
   [p EXCEPT !.timeSource = {"SYNC_SOURCE", "TIMING_STATUS"}],
   [p EXCEPT !.timeSource = {"TIME_SOURCE", "EVEN_FIBRE_SYNC", "ODD_FIBRE_SYNC"}],
   [p EXCEPT !.pulse = time(2, 2)], [p EXCEPT !.prev = time(0, 2)],
   [p EXCEPT !.pulse = time(4, 0)], [p EXCEPT !.prev = time(3, 0)]}

MCPackets == Good \cup variants(packet(0, HeaderSizeV0, 2, 1))
                  \cup variants(packet(1, HeaderSizeV1, 2, 1))

\* Heartbeats of one queue, for the wrap of its numbers.
MCHeartbeats ==
  {[packet(0, HeaderSizeV0, 2, 1) EXCEPT !.seq = n] : n \in 0 .. SeqModulus - 1}

readout(t) == [claimed |-> CaenReadoutSize, ids |-> TRUE, time |-> t,
               valid |-> TRUE, pixel |-> 1, serializer |-> 1]

MCSections ==
  {readout(t) : t \in {time(0, 1), time(1, 1), time(2, 1), time(4, 1)}} \cup
  {[readout(time(2, 1)) EXCEPT !.serializer = 2],
   [readout(time(2, 1)) EXCEPT !.serializer = 3],
   [readout(time(2, 1)) EXCEPT !.pixel = 0],
   [readout(time(2, 1)) EXCEPT !.valid = FALSE],
   [readout(time(2, 1)) EXCEPT !.ids = FALSE],
   [readout(time(2, 1)) EXCEPT !.claimed = 3],
   [readout(time(2, 1)) EXCEPT !.claimed = 9]}

\* A section of any kind beside a good readout, first or second, or twice.
MCData ==
  LET r == readout(time(2, 1))
  IN  UNION { {<<a, r>>, <<r, a>>, <<a, a>>} : a \in MCSections }
-----------------------------------------------------------------------------
base == [source |-> "distribution", Frequency |-> 2, NumberOfPackets |-> 2,
         Loop |-> FALSE, HeaderVersion |-> 1, numBins |-> 2, EveryN |-> 1,
         records |-> 0, multiplicity |-> 1, TimeSource |-> {"TIME_SOURCE"},
         Randomise |-> FALSE, type |-> TRUE, readouts |-> {readout(time(0, 0))}]
lines == [base EXCEPT !.source = "text", !.HeaderVersion = 0, !.records = 5,
                      !.NumberOfPackets = 9,
                      !.readouts = {readout(time(0, 1)),
                                    [readout(time(1, 0)) EXCEPT !.serializer = 2]}]
fixed == [base EXCEPT !.source = "fixed", !.NumberOfPackets = 1]

\* A pulse of half a second or a whole one, readouts in pairs, three packets in
\* one pulse or in several, pulses without end, a file that ends within a
\* packet, and lines of text sent once, twice, and up to two packets.
Fitting ==
  {base, [base EXCEPT !.EveryN = 2, !.NumberOfPackets = 3, !.HeaderVersion = 0],
   [base EXCEPT !.source = "linear", !.Frequency = 1, !.NumberOfPackets = 0],
   [base EXCEPT !.source = "fixed", !.Loop = TRUE],
   [base EXCEPT !.source = "file", !.NumberOfPackets = 0, !.records = 6],
   lines, [lines EXCEPT !.NumberOfPackets = 2], [lines EXCEPT !.multiplicity = 2]}

\* A time source that is refused, another detector, a place it does not have,
\* bytes overwritten, times kept for three readouts, and lines whose times are
\* too late.
Unfit ==
  {[fixed EXCEPT !.TimeSource = {"EVEN_FIBRE_SYNC"}], [fixed EXCEPT !.type = FALSE],
   [fixed EXCEPT !.readouts = {[readout(time(0, 0)) EXCEPT !.valid = FALSE]}],
   [fixed EXCEPT !.Randomise = TRUE], [base EXCEPT !.EveryN = 3, !.Frequency = 4],
   [lines EXCEPT !.readouts = {readout(time(0, 1)), readout(time(2, 1))}]}

MCSettings == Fitting \cup Unfit
=============================================================================
