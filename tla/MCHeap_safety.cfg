SPECIFICATION Spec
CONSTANTS
  BASE = 8
  SIZE = 26
  HEADER = 2
  MIN_ENTRY_SIZE = 1
  Requests <- Requests4
INVARIANTS
  HeapSound
  BlocksServed
  RefusedOnlyWhenFull
PROPERTY
  BlocksStay
CHECK_DEADLOCK FALSE
