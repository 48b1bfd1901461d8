\* Messages of two events, histograms of two frames with bins of two; the pulses
\* 0, 4 and 8 in any order, on an axis of 3 bits that shows -4 to 3; four
\* packets and one timeout.
CONSTANTS
  SecInNs = 4
  ESSClockFreqHz = 2
  InvalidTof = InvalidTof
  MaxEvents = 2
  Events <- MCEvents
  Times = {0, 4, 8}
  ReferenceTimes = {0, 4, 8}
  NoMessage = NoMessage
  NoEvent = NoEvent
  MaxProduce = 12
  AggregatedFrames = 2
  Period = 7
  BinCount = 3
  BinOffset = 0
  Strategy = "Drop"
  Aggregation = "AVG"
  AxisModulus = 8
  Offsets = {0, 1, 2, 3, 4, 5, 6, 7}
  Values = {0, 1, 2}
  NoBin = NoBin
  NoTime = NoTime
  NoHistogram = NoHistogram
  Configurations <- MCConfigurations
  MaxRing = 2
  MonitorRing = 1
  MaxFENId = 1
  NormalizeIBMReadouts = TRUE
  MaxTOF = 6
  Packets <- MCPackets
  None = None
  MaxPackets = 4
  MaxTimeouts = 1
SPECIFICATION CbmSpec
INVARIANTS EventsHavePixels ReadoutsAccounted
PROPERTIES ImplementsEventStream ImplementsFrameStream
\* The bounds end every behaviour.
CHECK_DEADLOCK FALSE
