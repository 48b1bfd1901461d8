\* Four containers of one thread share three slots of two bytes: requests
\* that fit, that are too large, and that find the pool exhausted, in every
\* order of allocation and deallocation up to seven allocations.
CONSTANTS
  Threads = {t1}
  Containers = {c1, c2, c3, c4}
  NumSlots = 3
  SlotBytes = 2
  Requests = {1, 2, 3}
  HeapBlocks = {b1, b2, b3, b4}
  Null = Null
  MaxAllocs = 7
SPECIFICATION Spec
INVARIANTS NoSharing NoSlotLost
SYMMETRY Symmetry
\* The bound on allocations ends every behaviour.
CHECK_DEADLOCK FALSE
