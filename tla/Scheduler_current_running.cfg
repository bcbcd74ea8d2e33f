CONSTANTS
  NULL = NULL
  MaxPid = 3
  TimeSlice = 2
SPECIFICATION Spec
INVARIANT OnlyCurrentRunning
