CONSTANTS
  W = 8
  FreqInputs = {5, 20}
  MsInputs = {1, 100, 200}
  MaxTicks <- MCMaxTicks
  MaxEarly = 2
SPECIFICATION Spec
CHECK_DEADLOCK FALSE
PROPERTY SleepLongEnough
