SPECIFICATION Spec
CONSTANTS
  c1 = c1  c2 = c2
  t1 = t1  t2 = t2  t3 = t3
  p1 = p1  p2 = p2
  i1 = i1  i2 = i2  d1 = d1  d2 = d2
  None = None
  BSP = c1
  CPU <- CPU2
  Proc = {p1, p2}
  ProcOf <- Owner
  idle_thread <- Idle
  dummy_thread <- Dummy
  UThread <- OneThread
INVARIANT
  DestroyedProcessIsUnlinked
