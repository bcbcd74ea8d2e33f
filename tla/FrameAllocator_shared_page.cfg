CONSTANTS
  s1 = s1
  s2 = s2
  s3 = s3
  NoFrame = NoFrame
  NFrames = 8
  WordBits = 4
  NReserved = 2
  Slots <- MCSlots
  Tables <- MCTables
  TableOf <- SharedPageTableOf
  InitTables = {0}
SPECIFICATION Spec
INVARIANT NoDoubleAllocation
