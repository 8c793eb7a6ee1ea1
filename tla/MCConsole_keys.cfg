CONSTANTS
  Loggers = {c0, c1}
  ch_width = 2  ch_height = 1
  None = None
  Wirings <- MCWirings
  LATE = 1
  ShiftKeys = {"kshift"}
  g_layout_us <- MCg_layout_us
  Shifted <- MCShifted
  NUL = "NUL"
  PRESSES = 4  CODES = 1
  WIDTH = 11  HEIGHT = 7  FONT = 2
  MAX_CHARS = 2
  g_path <- MCg_path
  Greeting <- MCGreeting
  ClearCommand <- MCClear  ExecCommand <- MCExec
  Printed <- MCPrinted  Messages <- MCMessages  Stale <- MCStale
  WORD = 6  Bits <- MCBits  NotGiven = NotGiven
SPECIFICATION Spec
INVARIANTS FormatAdheresToC IdentitiesTrue KeyboardsFound KernelDrawsOnItsScreen ScreenSound
PROPERTY ImplementsMailbox
CHECK_DEADLOCK FALSE
