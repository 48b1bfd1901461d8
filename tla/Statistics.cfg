\* Two stats of the detector, and three the thread adds, one of them twice:
\* one registration beyond the capacity is enough to move the storage.
CONSTANTS
  First = 2
  Names = {3, 4, 5}
  MaxCreated = 4
SPECIFICATION Spec
INVARIANT ReadsValid
CHECK_DEADLOCK FALSE
