------------------------- MODULE HistogramParameters ------------------------
(***************************************************************************)
(* The parameters of a DA00HistogramSerializer, shared by the serializer   *)
(* and the instrument that owns one.                                       *)
(***************************************************************************)
EXTENDS Integers

CONSTANTS AggregatedFrames,
          Period, BinCount, BinOffset,
          Strategy,     \* "Drop" or "LastBin", for times beyond the bins
          Aggregation,  \* "SUM" or "AVG"
          AxisModulus,  \* 2 to the number of bits of the axis' type
          Offsets, Values, ReferenceTimes,
          NoBin, NoTime, NoHistogram

\* The constructor refuses a BinOffset beyond the Period, but neither no bins
\* nor bins of width 0.
ASSUME HistogramAssumption ==
  /\ AggregatedFrames \in Nat \ {0} /\ AxisModulus \in Nat \ {0}
  /\ {Period, BinCount, BinOffset} \subseteq Nat
  /\ 0 < BinCount /\ BinCount <= Period - BinOffset
  /\ Strategy \in {"Drop", "LastBin"} /\ Aggregation \in {"SUM", "AVG"}
  /\ NoBin \notin 0 .. BinCount - 1
  /\ Offsets \subseteq Nat /\ Values \subseteq Nat /\ ReferenceTimes \subseteq Nat
  /\ NoTime \notin ReferenceTimes
  /\ NoHistogram \notin
       [time : ReferenceTimes, axis : [1 .. AggregatedFrames -> Int],
        totals : [1 .. AggregatedFrames -> Nat], bins : [0 .. BinCount - 1 -> Nat]]
=============================================================================
