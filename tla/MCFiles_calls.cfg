SPECIFICATION Spec
CONSTANTS
  x = x  y = y
  Byte = {x, y}
  Junk = Junk
  Disk <- SmallDisk
  Modules <- TwoModules
  COUNT = 5
  HALF = 4
  HEAP = 2
  Paths <- SomePaths
  Opens <- SomeOpens
  Offsets <- SomeOffsets
  Ids = {3, 4}
  MAX_NODES = 14
  NULL = NULL
VIEW Unreturned
INVARIANTS
  TreeSound
  ExclusiveCreates
PROPERTY
  ImplementsFileStore
CHECK_DEADLOCK FALSE
