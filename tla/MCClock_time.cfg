CONSTANTS
  bsp = bsp  ap = ap  t1 = t1 
  None = None
  CPU = {bsp, ap}
  BSP = bsp
  NANOSECONDS_IN_SECOND = 4
  PIT_TIMER_FREQ = 2
  Timers = {t1}
  Lengths <- MCLengths
  boot_timestamp <- MCboot_timestamp
  TICKS = 3
SPECIFICATION FairSpec
INVARIANTS ClocksSound TimersOnTime
PROPERTY TickCounted
