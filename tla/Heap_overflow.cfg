CONSTANTS
  Page = 4
  HeapSize = 16
  Sizes = {0, 3, 6}
  MaxAllocs = 4
SPECIFICATION Spec
CHECK_DEADLOCK FALSE
INVARIANT WithinArena
