------------------------- MODULE HistogramSerializer ------------------------
(***************************************************************************)
(* The histogram serializer of                                             *)
(* src/common/kafka/serializer/DA00HistogramSerializer.h, for whole        *)
(* numbers: values are added to bins over AggregatedFrames frames, and the *)
(* total of each frame at an iterator into two summation vectors; a new    *)
(* reference time ends a frame, and the last one sends the histogram.      *)
(***************************************************************************)
EXTENDS HistogramParameters, Functions, Sequences

VARIABLES
  ReferenceTime,  \* of the current frame
  FrameCounter,
  iter,           \* SummedAxisIter and SummedDataIter: an index, or the end
  SummedAxis, SummedData,
  DataBins,       \* sum and number of values
  histogram,      \* what the producer callback was handed latest
  stats,          \* HistogramSerializerStats
  origin          \* history: the first reference time

vars == <<ReferenceTime, FrameCounter, iter, SummedAxis, SummedData, DataBins,
          histogram, stats, origin>>

Frames == 1 .. AggregatedFrames
end == AggregatedFrames + 1
Bins == 0 .. BinCount - 1
NoData == [b \in Bins |-> [sum |-> 0, count |-> 0]]

\* The axis' width is rounded down, and the bins end there.
Step == (Period - BinOffset) \div BinCount

StatNames == {"ProduceCalled", "ProduceRefTimeTriggered",
              "DataBeforeTimeOffsetDropped", "DataOverPeriodDropped",
              "DataOverPeriodLastBin"}

increment(S) == [s \in StatNames |-> IF s \in S THEN stats[s] + 1 ELSE stats[s]]

Init ==
  /\ ReferenceTime = NoTime /\ FrameCounter = 0 /\ iter = end
  /\ SummedAxis = [i \in Frames |-> 0] /\ SummedData = [i \in Frames |-> 0]
  /\ DataBins = NoData /\ histogram = NoHistogram
  /\ stats = [s \in StatNames |-> 0] /\ origin = NoTime

\* Where a time belongs, if anywhere.
binIndex(t) ==
  LET i == (t - BinOffset) \div Step
  IN  IF t < BinOffset THEN NoBin
      ELSE IF i < BinCount THEN i
      ELSE IF Strategy = "LastBin" THEN BinCount - 1 ELSE NoBin

outside(t) ==
  IF t < BinOffset THEN {"DataBeforeTimeOffsetDropped"}
  ELSE IF (t - BinOffset) \div Step < BinCount THEN {}
  ELSE {IF Strategy = "LastBin" THEN "DataOverPeriodLastBin" ELSE "DataOverPeriodDropped"}

addEvent(t, value) ==
  /\ stats' = increment(outside(t))
  /\ IF binIndex(t) = NoBin THEN UNCHANGED <<DataBins, SummedData>>
     ELSE /\ DataBins' = [DataBins EXCEPT ![binIndex(t)] =
                            [sum |-> @.sum + value, count |-> @.count + 1]]
          /\ SummedData' = [SummedData EXCEPT ![iter] = @ + value]
  /\ UNCHANGED <<ReferenceTime, FrameCounter, iter, SummedAxis, histogram, origin>>

\* An average is rounded down, and 0 in a bin without values.
aggregated(d) ==
  IF Aggregation = "SUM" \/ d.count = 0 THEN d.sum ELSE d.sum \div d.count

\* produce() and serialize(): a histogram without values is not sent.
produce ==
  /\ DataBins' = NoData
  /\ histogram' = IF DataBins = NoData THEN histogram
                  ELSE [time |-> ReferenceTime, axis |-> SummedAxis, totals |-> SummedData,
                        bins |-> [b \in Bins |-> aggregated(DataBins[b])]]

\* Mutant: the total of the frame that ends is left there for the next one.
cleared_Not(data, i) == data

cleared(data, i) == [data EXCEPT ![i] = 0]

wrap(n) == ((n + AxisModulus \div 2) % AxisModulus) - AxisModulus \div 2

\* Mutant: the histogram is sent a frame late.
lastFrame_Late == FrameCounter >= AggregatedFrames

lastFrame == FrameCounter + 1 >= AggregatedFrames

\* Mutant: the offset of the frame before is not taken along.
place_Alone(t) == wrap(t - ReferenceTime)

\* Where the frame of t is on the axis.
place(t) == wrap(SummedAxis[iter] + wrap(t - ReferenceTime))

\* The frame ends: the histogram is sent when it was the last, and the next
\* frame starts with no total.
nextFrame(t) ==
  /\ IF lastFrame
     THEN /\ produce
          /\ stats' = increment({"ProduceCalled", "ProduceRefTimeTriggered"})
          /\ FrameCounter' = 0 /\ iter' = 1
     ELSE /\ FrameCounter' = FrameCounter + 1 /\ iter' = iter + 1
          /\ UNCHANGED <<DataBins, histogram, stats>>
  /\ SummedData' = cleared(SummedData, iter')
  /\ SummedAxis' = [SummedAxis EXCEPT ![iter'] = place(t)]
  /\ ReferenceTime' = t
  /\ UNCHANGED origin

checkAndSetReferenceTime(t) ==
  \/ /\ ReferenceTime = NoTime
     /\ ReferenceTime' = t /\ origin' = t /\ iter' = 1
     /\ UNCHANGED <<FrameCounter, SummedAxis, SummedData, DataBins, histogram, stats>>
  \/ ReferenceTime = t /\ UNCHANGED vars
  \/ ReferenceTime \notin {NoTime, t} /\ nextFrame(t)

\* The users set a reference time before they add the first value.
Next ==
  \/ ReferenceTime # NoTime /\ \E t \in Offsets, v \in Values : addEvent(t, v)
  \/ \E t \in ReferenceTimes : checkAndSetReferenceTime(t)

Spec == Init /\ [][Next]_vars
-----------------------------------------------------------------------------
\* The iterator points at the frame that FrameCounter counts, and is at the end
\* until the first reference time.
TypeOK ==
  /\ ReferenceTime \in ReferenceTimes \cup {NoTime}
  /\ iter = IF ReferenceTime = NoTime THEN end ELSE FrameCounter + 1
  /\ FrameCounter \in 0 .. AggregatedFrames - 1
  /\ SummedAxis \in [Frames -> Int] /\ SummedData \in [Frames -> Nat]
  /\ DataBins \in [Bins -> [sum : Nat, count : Nat]]
  /\ stats \in [StatNames -> Nat]

\* The bin whose interval a time is in.
intervalOf(t) ==
  LET from(b) == BinOffset + b * Step
      inside == {b \in Bins : from(b) <= t /\ t < from(b + 1)}
  IN  IF inside # {} THEN CHOOSE b \in inside : TRUE
      ELSE IF Strategy = "LastBin" /\ t >= from(BinCount) THEN BinCount - 1 ELSE NoBin

\* The totals of the frames are those of the bins: no value is counted in a frame
\* of another histogram.
TotalsMatchBins ==
  ReferenceTime # NoTime =>
    SumFunctionOnSet(SummedData, 1 .. iter) = SumFunction([b \in Bins |-> DataBins[b].sum])

\* "Store time offset for pulse summation" (DA00HistogramSerializer.h:347): the
\* frame's place on the axis is the time since the first frame, as far as the
\* axis' type shows it: offsets of offsets that overflowed add up to it still.
AxisIsTime == ReferenceTime # NoTime => SummedAxis[iter] = wrap(ReferenceTime - origin)

\* The frames since the last histogram; a reader sees their times since the first
\* reference time, in the axis' type.
Stream == INSTANCE FrameStream WITH
  Frames <- AggregatedFrames,
  bin <- intervalOf,
  Published <- aggregated,
  FrameTimes <- ReferenceTimes,
  Shown <- wrap,
  first <- origin,
  frames <- IF ReferenceTime = NoTime THEN <<>>
            ELSE [i \in 1 .. iter |-> [time |-> SummedAxis[i], total |-> SummedData[i]]],
  bins <- DataBins,
  histogram <- IF histogram = NoHistogram THEN NoHistogram
               ELSE [times |-> histogram.axis, totals |-> histogram.totals,
                     bins |-> histogram.bins]
=============================================================================
