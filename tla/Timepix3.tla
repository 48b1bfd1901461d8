------------------------------ MODULE Timepix3 ------------------------------
(***************************************************************************)
(* The Timepix3 pipeline of src/modules/timepix3: the camera reports the   *)
(* start of each pulse as a TDC readout on its own, wrapping clock, the    *)
(* EVR reports the same start in absolute time, and the two are paired by  *)
(* the time they arrive.  Hits are placed on the absolute time of the last *)
(* pair, clustered packet by packet and handed to the EV44Serializer.      *)
(* Network and electronics are environment: readouts are late by at most   *)
(* Delay, lost and duplicated.                                             *)
(***************************************************************************)
EXTENDS Hierarchical2DClusterer

CONSTANTS
  Period,          \* FrequencyPeriodNs
  Threshold,       \* THRESHOLD_MS
  PixelMax,        \* PIXEL_MAX_TIMESTAMP_NS, where the camera's clock wraps
  TDCCounters,     \* the TDC trigger counter counts modulo this
  \* Of Config.h, as MaxTimeGap and MaxCoordGap are
  MinEventSizeHits, MinimumToTSum, MinEventTimeSpan,
  XResolution, YResolution, ScaleUpFactor, ParallelThreads,
  chunksPerDimension,  \* the whole part of the root of ParallelThreads
  Xs, Ys, Weights,     \* coordinates of hits, and times over threshold
  None,
  \* The environment
  Delay,           \* the most a readout is late
  ClockAtStart,    \* the camera's clock at time 0
  CounterAtStart,  \* the TDC counter of the pulse at time 0
  MaxLost,         \* the most TDC readouts lost in a row
  MaxOutage,       \* the longest time without a new pair
  MaxTime, MaxHits,  \* bounds on time and on the hits of a packet
  MaxEvents, MaxProduce, NoMessage, NoEvent  \* of EV44Serializer

ASSUME Timepix3Assumption ==
  /\ Period \in Nat \ {0} /\ Threshold \in Nat /\ Delay \in Nat
  /\ Delay + Threshold < Period
  /\ PixelMax \in Nat \ {0} /\ TDCCounters \in Nat \ {0}
  /\ {XResolution, YResolution, ScaleUpFactor, ParallelThreads} \subseteq Nat \ {0}
  /\ chunksPerDimension * chunksPerDimension <= ParallelThreads
  /\ ParallelThreads < (chunksPerDimension + 1) * (chunksPerDimension + 1)
  /\ MaxTime \in Nat /\ ClockAtStart \in Nat /\ CounterAtStart \in Nat
  /\ Xs \subseteq Nat /\ Ys \subseteq Nat /\ MaxEvents \in Nat \ {0}
  /\ None \notin Nat \cup [pulse : Nat, arrival : Nat] \cup [pulseTime : Nat, tdcClock : Nat]

Places == [x : Xs, y : Ys]
Pulses == 0 .. MaxTime \div Period
PulseTime(k) == k * Period
Clock(t) == (ClockAtStart + t) % PixelMax
\* Timepix3Geometry and ESSGeometry: the geometry is that of the upscaled pixels.
nx == XResolution * ScaleUpFactor
ny == YResolution * ScaleUpFactor
validateData(place) == place.x < nx /\ place.y < ny

\* The windows into which the pixels are partitioned for parallel clustering.
chunkSize == XResolution \div chunksPerDimension
Windows == 0 .. ParallelThreads - 1
getChunkWindowIndex(place) ==
  IF ParallelThreads = 1 THEN 0
  ELSE place.x \div chunkSize + chunksPerDimension * (place.y \div chunkSize)

\* The code takes the index for that of one of its vectors unchecked.  It is one for
\* a single window, which the shipped configuration has, and for more of them when
\* nothing is scaled up and the windows divide the pixels of a square evenly.
ASSUME WindowsAssumption ==
  \A place \in Places : validateData(place) => getChunkWindowIndex(place) \in Windows

pixel2D(x, y) == IF x < nx /\ y < ny THEN y * nx + x + 1 ELSE 0

\* The center of mass of a cluster, upscaled and rounded down.
calcPixelId(c) == pixel2D((c.xCoordMass * ScaleUpFactor) \div c.weightSum,
                          (c.yCoordMass * ScaleUpFactor) \div c.weightSum)

\* The TDC's clock wraps four times later than the pixels'.
TDCClock(t) == (ClockAtStart + t) % (4 * PixelMax)
TDCCounter(k) == (CounterAtStart + k) % TDCCounters

VARIABLES
  now,
  lastTDCData, lastEVRData,  \* pulse and arrival of the last readout accepted
  lastEpochESSPulseTime,     \* the last pair: pulseTime and tdcClock
  parsing,                   \* a packet of the camera is being parsed
  sub2DFrames,               \* the hits of the packet, by window
  clusters,                  \* clusters still to be published, in order
  latestTDC,                 \* history: the latest pulse whose TDC readout came
  \* EV44Serializer
  EventCount, events, referenceTime, MessageId, message,
  ProduceCalled, ProduceTriggeredMaxEvents, ProduceRefTimeTriggered

Events == [pulse : Nat, tof : Nat, at : SUBSET Nat]
Times == {PulseTime(k) : k \in Pulses}
Serializer == INSTANCE EV44Serializer

timing == <<lastTDCData, lastEVRData, lastEpochESSPulseTime, latestTDC>>
pixels == <<parsing, sub2DFrames, clusters>>
serializer == <<EventCount, events, referenceTime, MessageId, message,
                ProduceCalled, ProduceTriggeredMaxEvents,
                ProduceRefTimeTriggered>>
vars == <<now, timing, pixels, serializer>>

Init ==
  /\ now = 0
  /\ lastTDCData = None /\ lastEVRData = None
  /\ lastEpochESSPulseTime = None
  /\ parsing = FALSE /\ sub2DFrames = [w \in Windows |-> <<>>] /\ clusters = <<>>
  /\ latestTDC = None
  /\ Serializer!Init
-----------------------------------------------------------------------------
(* TimingEventHandler *)

\* Mutant: the quarter of the TDC's clock is not taken off.
tdcTimeInPixelClock_AsIs(stamp) == stamp

\* TDCDataEvent: the TDC's clock in the time of the pixels' clock.
tdcTimeInPixelClock(stamp) == stamp - PixelMax * (stamp \div PixelMax)

\* Mutant: a counter that starts over is recognised at 0 only.
dropped_ZeroOnly(last, counter) ==
  \/ counter < last /\ counter # 0
  \/ counter = last

\* A readout whose counter is behind or equal to the last one's is dropped.
dropped(last, counter) ==
  \/ counter < last /\ counter \notin {0, 1}
  \/ counter = last

\* Mutant: any two readouts make a pair.
isLastTimingDiffLowerThenThreshold_Always(tdc, evr) ==
  tdc # None /\ evr # None

isLastTimingDiffLowerThenThreshold(tdc, evr) ==
  /\ tdc # None /\ evr # None
  /\ tdc.arrival - evr.arrival \in -Threshold .. Threshold

\* A pair becomes the global time, and its pulse the reference time of the
\* serializer, whatever the serializer still holds.
publishData(tdc, evr) ==
  IF isLastTimingDiffLowerThenThreshold(tdc, evr)
  THEN /\ lastEpochESSPulseTime' =
            [pulseTime |-> PulseTime(evr.pulse),
             tdcClock |-> tdcTimeInPixelClock(TDCClock(PulseTime(tdc.pulse)))]
       /\ Serializer!setReferenceTime(PulseTime(evr.pulse))
  ELSE UNCHANGED <<lastEpochESSPulseTime, serializer>>

arrives(k) == PulseTime(k) <= now /\ now <= PulseTime(k) + Delay

\* A word of a type unknown, or a TDC readout of neither edge of either channel:
\* it is counted, no more.
OtherReadout ==
  /\ clusters = <<>>
  /\ parsing' = TRUE
  /\ UNCHANGED <<now, timing, sub2DFrames, clusters, serializer>>

\* A TDC readout in a packet of the camera.
TDCReadout(k) ==
  /\ arrives(k) /\ clusters = <<>>
  /\ parsing' = TRUE
  /\ latestTDC' = k
  /\ IF lastTDCData # None
        /\ dropped(TDCCounter(lastTDCData.pulse), TDCCounter(k))
     THEN UNCHANGED <<lastTDCData, lastEpochESSPulseTime, serializer>>
     ELSE LET tdc == [pulse |-> k, arrival |-> now]
          IN  lastTDCData' = tdc /\ publishData(tdc, lastEVRData)
  /\ UNCHANGED <<now, lastEVRData, sub2DFrames, clusters>>

\* An EVR readout is a packet of its own; its counter does not wrap.
EVRReadout(k) ==
  /\ arrives(k) /\ ~parsing /\ clusters = <<>>
  /\ IF lastEVRData # None /\ dropped(lastEVRData.pulse, k)
     THEN UNCHANGED <<lastEVRData, lastEpochESSPulseTime, serializer>>
     ELSE LET evr == [pulse |-> k, arrival |-> now]
          IN  lastEVRData' = evr /\ publishData(lastTDCData, evr)
  /\ UNCHANGED <<now, lastTDCData, latestTDC, pixels>>
-----------------------------------------------------------------------------
(* PixelEventHandler *)

\* A clock behind that of the pulse means that it wrapped since.
calculateGlobalTime(clock) ==
  LET pulse == lastEpochESSPulseTime
  IN  IF pulse.tdcClock > clock
      THEN pulse.pulseTime + (PixelMax - pulse.tdcClock) + clock
      ELSE pulse.pulseTime + (clock - pulse.tdcClock)

frameSize == FoldFunction(LAMBDA f, n : n + Len(f), 0, sub2DFrames)

\* A pixel readout of a hit at time t; one beyond the geometry or without a global
\* time is skipped.
PixelReadout(t, place, weight) ==
  /\ t \in now - Delay .. now /\ t >= 0 /\ clusters = <<>>
  /\ parsing' = TRUE
  /\ \/ /\ ~validateData(place) \/ lastEpochESSPulseTime = None
        /\ UNCHANGED sub2DFrames
     \/ /\ validateData(place) /\ lastEpochESSPulseTime # None
        /\ frameSize < MaxHits
        /\ LET w == getChunkWindowIndex(place)
               hit == [time |-> calculateGlobalTime(Clock(t)), x |-> place.x, y |-> place.y,
                       weight |-> weight, at |-> t, id |-> <<w, Len(sub2DFrames[w]) + 1>>]
           IN  sub2DFrames' = [sub2DFrames EXCEPT ![w] = Append(@, hit)]
  /\ UNCHANGED <<now, timing, clusters, serializer>>

\* The end of a packet of the camera: pushDataToKafka(), which sorts and clusters
\* the hits of each window, in parallel when there are several, and empties them.
processReadouts ==
  /\ parsing /\ clusters = <<>>
  /\ parsing' = FALSE
  /\ \E sorted \in [Windows -> UNION {sort_chronologically(sub2DFrames[w]) : w \in Windows}] :
       /\ \A w \in Windows : sorted[w] \in sort_chronologically(sub2DFrames[w])
       /\ clusters' = FlattenSeq([i \in 1 .. ParallelThreads |-> cluster(sorted[i - 1])])
  /\ sub2DFrames' = [w \in Windows |-> <<>>]
  /\ UNCHANGED <<now, timing, serializer>>

tooSmall(c) ==
  \/ c.hitCount < MinEventSizeHits \/ c.weightSum < MinimumToTSum
  \/ c.timeSpan < MinEventTimeSpan

\* Mutant: the time of flight is not compared with the period.
inPulse_AnyTof(tof) == tof >= 0

inPulse(tof) == tof >= 0 /\ tof <= Period

\* The true times of a cluster's first hits.
firstAt(c) == {h.at : h \in {g \in c.hits : g.time = c.timeStart}}

\* One round of publishEvents().  The time of flight is to the pulse of the
\* last pair, which may be later than the one the hits were placed by.
publishEvent(c) ==
  LET pulse == lastEpochESSPulseTime.pulseTime
      tof == c.timeStart - pulse
  IN  /\ clusters' = Tail(clusters)
      /\ \/ /\ tooSmall(c) \/ ~inPulse(tof) \/ calcPixelId(c) = 0
            /\ UNCHANGED serializer
         \/ /\ ~tooSmall(c) /\ inPulse(tof) /\ calcPixelId(c) # 0
            /\ Serializer!addEvent([pulse |-> pulse, tof |-> tof, at |-> firstAt(c)])
      /\ UNCHANGED <<now, timing, parsing, sub2DFrames>>

\* The processing thread's timer, checked between packets.
Timeout ==
  /\ ~parsing /\ clusters = <<>>
  /\ Serializer!produce
  /\ UNCHANGED <<now, timing, pixels>>

\* Time passes between packets, as far as the losses assumed allow.
Tick ==
  /\ ~parsing /\ clusters = <<>>
  /\ now < MaxTime
  /\ latestTDC # None
       => now < PulseTime(latestTDC + MaxLost + 1) + Delay
  /\ lastEpochESSPulseTime # None
       => now < lastEpochESSPulseTime.pulseTime + MaxOutage
  /\ now' = now + 1
  /\ UNCHANGED <<timing, pixels, serializer>>

Next ==
  \/ OtherReadout
  \/ \E k \in Pulses : TDCReadout(k)
  \/ \E k \in Pulses : EVRReadout(k)
  \/ \E t \in 0 .. MaxTime, place \in Places, weight \in Weights : PixelReadout(t, place, weight)
  \/ processReadouts
  \/ clusters # <<>> /\ publishEvent(Head(clusters))
  \/ Timeout
  \/ Tick

Spec == Init /\ [][Next]_vars
-----------------------------------------------------------------------------
Readouts == [pulse : Pulses, arrival : 0 .. MaxTime]

\* Hits are kept, and clusters wait, only under a global time, which
\* calculateGlobalTime() and publishEvents() dereference unchecked.
TypeOK ==
  /\ now \in 0 .. MaxTime
  /\ lastTDCData \in Readouts \cup {None}
  /\ lastEVRData \in Readouts \cup {None}
  /\ lastEpochESSPulseTime \in
       [pulseTime : Times, tdcClock : 0 .. PixelMax - 1] \cup {None}
  /\ parsing \in BOOLEAN
  /\ latestTDC \in Pulses \cup {None}
  /\ (frameSize > 0 \/ clusters # <<>>) => lastEpochESSPulseTime # None
  /\ EventCount \in 0 .. MaxEvents - 1

\* No fresh TDC readout is taken for an old one: the last accepted is of the
\* latest pulse reported, over duplicates, losses and the wrap of the counter.
\* (TimingEventHandler::applyData drops readouts by comparing counters.)
TimingCurrent == lastTDCData # None => lastTDCData.pulse = latestTDC

\* The absolute time and the camera's time of a pair are of the same pulse,
\* although the pairing looks at arrival times alone.
PulsesPaired ==
  lastEpochESSPulseTime # None =>
    lastEpochESSPulseTime.tdcClock = Clock(lastEpochESSPulseTime.pulseTime)

\* Every event waiting in the serializer was computed with the true time of
\* its first hit: neither the wraps of the clock, nor hits from before the
\* pulse, nor a new pair in the middle of a packet forge a time of flight
\* (calculateGlobalTime and the checks of publishEvents).
TofTrue ==
  \A i \in 1 .. EventCount : \A t \in events[i].at :
    /\ events[i].pulse + events[i].tof = t
    /\ events[i].tof <= Period

\* The clusters of a packet share no hit, and hits of one pixel close in time,
\* which one particle made, are never shared out between two of them, in
\* whatever order they came and equal times are sorted, and wherever the windows
\* are cut (clusterHits, cluster_by_x).
ClustersApart ==
  \A i, j \in DOMAIN clusters : i < j =>
    \A g \in clusters[i].hits, h \in clusters[j].hits :
      /\ g.id # h.id
      /\ (g.x = h.x /\ g.y = h.y) =>
           g.time - h.time \notin -MaxTimeGap .. MaxTimeGap

\* An event leaves in a message that bears the pulse its time of flight is
\* relative to (EV44Serializer.h: "time of event in relation to pulse time").
SentUnderOwnPulse ==
  message # NoMessage =>
    \A i \in DOMAIN message.events : message.events[i].pulse = message.time
=============================================================================
