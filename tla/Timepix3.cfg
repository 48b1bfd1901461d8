\* Outages end before the camera's clock has wrapped around: MaxOutage, Delay
\* and Period together stay below PixelMax.
CONSTANTS
  Period = 3
  Threshold = 1
  PixelMax = 12
  TDCCounters = 4
  MaxTimeGap = 1
  MinEventSizeHits = 2
  MinEventTimeSpan = 1
  MaxCoordGap = 2
  MinimumToTSum = 3
  XResolution = 4
  YResolution = 2
  ScaleUpFactor = 2
  ParallelThreads = 1
  chunksPerDimension = 1
  Xs = {1, 2, 4}
  Ys = {0}
  Weights = {2}
  None = None
  Delay = 1
  ClockAtStart = 8
  CounterAtStart = 3
  MaxLost = 1
  MaxOutage = 6
  MaxTime = 7
  MaxHits = 2
  MaxEvents = 2
  MaxProduce = 1
  NoMessage = NoMessage
  NoEvent = NoEvent
SPECIFICATION Spec
INVARIANTS ClustersApart TimingCurrent PulsesPaired TofTrue
\* Time ends at MaxTime, and the bound on produce() stops additions.
CHECK_DEADLOCK FALSE
