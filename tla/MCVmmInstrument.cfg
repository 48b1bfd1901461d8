\* Three packets; two rings of two FENs, two hybrids or panels; 8 x 8 pixels; a
\* latency of four gaps.
CONSTANTS
  SecInNs = 4
  ESSClockFreqHz = 2
  InvalidTof = InvalidTof
  MaxClusteringTimeGap = 1
  MaxCoordGap = 0
  MaxMatchingTimeGap = 1
  Latency = 4
  MaxCoordSpan = 3
  MinCoordGap = 1
  CoefficientLow = 8
  CoefficientHigh = 12
  CoefficientScale = 10
  Instruments = {"Freia", "TREX", "NMX"}
  MaxRing = 1
  MaxFEN = 1
  Units = 2
  NX = 4
  NY = 2
  NZ = 2
  Depth = 2
  AdcLimit = 4
  MaxGapWire = 0
  MaxGapStrip = 0
  MaxGridsSpan = 2
  MaxSpanX = 3
  MinSpanX = 1
  MaxSpanY = 3
  MinSpanY = 1
  MaxTimeSpan = 2
  MaxTOF = 6
  Packets <- MCPackets
  None = None
  MaxPackets = 3
SPECIFICATION VmmSpec
INVARIANTS HitsAccounted EventsAreComplete NothingLingers SplitIsClean EventsAccounted
\* The bounds end every behaviour.
CHECK_DEADLOCK FALSE
