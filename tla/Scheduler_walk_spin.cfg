CONSTANTS
  NULL = NULL
  MaxPid = 4
  TimeSlice = 2
SPECIFICATION Spec
INVARIANT ScheduleWalkEnds
