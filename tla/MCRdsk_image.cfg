SPECIFICATION RdskSpec
CONSTANTS
  a = a  b = b  x = x  y = y
  Name = {a, b}
  Contents <- Contents3
  GROW = 2
  MAX_DIRS = 4
  MAX_FILES = 3
  None = None
SYMMETRY SymmetricNames
INVARIANTS
  ImageFaithful
  ListsAll
  ImageSound
CHECK_DEADLOCK FALSE
