CONSTANTS
  Keys <- MCKeys
  KeySizes = {16}
  Plains <- MCPlains
  Ivs = {}
  Messages <- MCMessages
  MaxLogs = 2
  MaxEvents = 5
  Fields = {"dst_port"}
  Values = {0, 1}
  MaxRules = 2
  KeyHandles = {}
  CtxHandles = {}
  MAX_CRYPTO_KEYS = 2
  KeyLengths = {2}
  Msgs <- MCMsgs
  MaxKeyId = 2
  GarbageRules <- MCGarbageRules
  SecLevels = {0, 1, 2, 3, 4}
SPECIFICATION SecSpec
CHECK_DEADLOCK FALSE
INVARIANT SecurityRoundTrip
