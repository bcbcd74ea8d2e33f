CONSTANTS
  W = 8
  MaxTicks = 4
  MaxEarly = 2
SPECIFICATION Spec
CHECK_DEADLOCK FALSE
PROPERTY TimerTicks
