CONSTANTS
  s1 = s1
  s2 = s2
  s3 = s3
  NoFrame = NoFrame
  NFrames = 4
  WordBits = 2
  NReserved = 2
  Slots <- MCSlots
  Tables <- MCTables
  TableOf <- OwnPageTableOf
  InitTables = {0}
SPECIFICATION Spec
INVARIANT ReservedNeverAllocated
