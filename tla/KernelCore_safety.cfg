CONSTANTS
  s1 = s1
  s2 = s2
  s3 = s3
  NoFrame = NoFrame
  NFrames = 8
  WordBits = 4
  NReserved = 2
  Slots <- MCSlots
  Tables <- MCTables
  TableOf <- OwnPageTableOf
  InitTables = {}
  Page = 4
  HeapSize = 64
  Sizes = {0, 3, 6}
  MaxAllocs = 5
  DirSize = 9
  TableSize = 4
  NULL = NULL
  MaxPid = 3
  TimeSlice = 2
  k1 = k1
  k2 = k2
  NoKey = NoKey
  Keys <- MCKeys
  Size = 3
  AtomicDec = TRUE
SPECIFICATION Spec
CHECK_DEADLOCK FALSE
INVARIANT TypeOK NoDoubleAllocation BitmapExact BlocksDisjoint AlignedBlocksAligned
INVARIANT ListExact CurrentNeverTerminated
PROPERTY FirstFit FifoSpec
