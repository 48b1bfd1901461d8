\* A FIFO of two packets, messages of two events and packets of up to three.
\* All bounds are capacities of the system: the loop goes on forever.
CONSTANTS
  Size = 2
  MaxEvents = 2
  PacketEvents = 3
  MaxMessages = 2
SPECIFICATION FairSpec
PROPERTIES ProducedInTime ReportsServed
