SPECIFICATION Spec
CONSTANTS
  Cpu = {c1, c2}
  PMM_MAX_ORDER = 2
  PAGE = 16
  REGION = 1
  RECORD = 1
  Zone <- Zones2
  Standard = "normal"
  Memory <- Memory2
  Orders = {0}
  None = None
  c1 = c1
  c2 = c2
INVARIANTS
  ReservedForOwner
CHECK_DEADLOCK FALSE
