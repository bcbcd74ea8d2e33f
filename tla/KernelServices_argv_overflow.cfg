CONSTANTS
  n1 = n1  n2 = n2  n3 = n3  n4 = n4  n5 = n5  res = res
  k1 = k1  k2 = k2  k3 = k3  x1 = x1
  NoNode = NoNode  Overflow = Overflow
  Nodes <- MCNodes
  Paths <- MCPaths
  Resources = {res}
  Uids = {1, 2}
  Gids = {1, 2}
  Perms <- MCPerms
  MaxEntries = 3
  MaxLogs = 3
  MaxEvents = 7
  Fields = {"dst_port", "protocol"}
  Values = {0, 1, 2}
  MaxRules = 3
  VGA_WIDTH = 3
  VGA_HEIGHT = 2
  TAB_SIZE = 4
  Chars = {"a", "b"}
  Blank = " "
  W = 6
  FreqInputs = {5, 20, 2000}
  MsInputs = {1, 100, 200}
  MaxTicks <- MCMaxTicks
  MaxEarly = 2
  Keys <- MCKeys
  KeySizes = {16, 24, 32, 20}
  Plains <- MCPlains
  Ivs <- MCIvs
  Messages <- MCMessages
  KeyHandles <- MCKeyHandles
  CtxHandles = {x1}
  MAX_CRYPTO_KEYS = 2
  KeyLengths = {2}
  Msgs <- MCMsgs
  MaxKeyId = 4
  GarbageRules <- MCGarbageRules
  SecLevels = {0, 1, 2, 3, 4}
  MaxArgs = 2
  Lines <- MCLines
  CommandNames <- MCCommandNames
SPECIFICATION Spec
SYMMETRY NodeSymmetry
CHECK_DEADLOCK FALSE
INVARIANT ArgvNullWithinArgv
