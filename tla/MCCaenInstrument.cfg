\* Two packets of up to two readouts, two serializers, messages of two events;
\* two output queues, whose numbers do not wrap; a clock of two ticks in a
\* second of four nanoseconds; pulses two seconds apart at most.
CONSTANTS
  SecInNs = 4
  ESSClockFreqHz = 2
  InvalidTof = InvalidTof
  MinDataSize = 2
  MaxUdpDataSize = 20
  HeaderSizeV0 = 3
  HeaderSizeV1 = 4
  MaxOutputQueues = 2
  SeqModulus = 4
  MaxPulseTimeDiffNS = 8
  Packets <- MCPackets
  None = None
  MaxCalls = 2
  DataHeaderSize = 2
  CaenReadoutSize = 4
  MaxTOF = 6
  numSerializers = 2
  MaxEvents = 2
  Sections <- MCSections
  Data <- MCData
  MaxTimeouts = 1
  BufferSize = 16
  UdpMaxSizeBytes = 7
  MaxFuzzed = 1
  GeneratorSettings <- MCSettings
  MaxNow = 10
  MaxSent = 3
  MaxInFlight = 2
SPECIFICATION GeneratedSpec
INVARIANTS AcceptedIsSound SeqErrorsExact EventsAccounted EventsTrue GeneratedAccepted
PROPERTY RejectionsCounted
\* The bounds end every behaviour.
CHECK_DEADLOCK FALSE
