CONSTANTS
  bsp = bsp  ap1 = ap1  dead = dead  s = s  kernel = kernel
  None = None
  CPU <- MCCPU
  BSP = bsp
  cpus <- MCcpus
  init_failed = {dead}
  Space = {s}
  Kernel = kernel
  Rights <- MCRights
  OPS = 2
SPECIFICATION FairSpec
INVARIANTS SlotPerCpu TablesSound StaleOnlyAfterMiss
PROPERTIES EveryCpuStarts ShootdownEnds
