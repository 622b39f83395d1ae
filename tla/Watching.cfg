SPECIFICATION MCSpec
CONSTANTS
  MaxClock = 4
  MaxWindows = 1
  MaxChatter = 1
  CoarseClock = FALSE
  Swaps = {{"r", "s"}}
INVARIANTS
  WritesAreRouted
  NoRunWithoutAWrite
CHECK_DEADLOCK FALSE
