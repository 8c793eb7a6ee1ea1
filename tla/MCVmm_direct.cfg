SPECIFICATION Spec
CONSTANTS
  PAGE = 2
  START = 2
  END = 11
  RECORDS = 3
  Lengths = {2, 4, 6}
  Headers <- Headers2
  STACK = 2
  Framebuffer <- Screen
  Garbage = {0, 1}
  None = None
PROPERTY
  ImplementsExactly
CHECK_DEADLOCK FALSE
