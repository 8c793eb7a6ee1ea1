SPECIFICATION Spec
CONSTANTS
  PAGE = 2
  START = 2
  END = 13
  RECORDS = 3
  Lengths = {2, 6}
  Headers <- Headers2
  STACK = 2
  Framebuffer <- Screen
  Garbage = {1}
  None = None
INVARIANTS
  SpaceSound
  RecordsAccounted
  SearchesExact
PROPERTIES
  FramesStay
  ImplementsAddressSpace
CHECK_DEADLOCK FALSE
