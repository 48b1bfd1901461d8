\* A FIFO of two indices and the smallest ring of buffers that is safe with it.
\* The FIFO is met empty, half full and full; four packets take the input
\* thread around the four buffers and back to the first; two packet
\* contents suffice to tell a lost, repeated or overtaken packet.
CONSTANTS
  Size = 2
  Entries = 4
  Packets = {p, q}
  None = None
  MonitorPeriod = 3
  MonitorSamples = 1
  MaxPackets = 4
SPECIFICATION FairSpec
INVARIANTS NoOverwrite PacketsAccounted
PROPERTIES ImplementsBoundedFifo ImplementsLossyQueue QueueDrained StopReturns
\* The system really stops: both threads are joined.
CHECK_DEADLOCK FALSE
