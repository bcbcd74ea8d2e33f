CONSTANTS
  k1 = k1
  k2 = k2
  NoKey = NoKey
  Keys <- MCKeys
  Size = 3
  AtomicDec = FALSE
SPECIFICATION Spec
PROPERTY FifoSpec
