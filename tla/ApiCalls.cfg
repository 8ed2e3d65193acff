SPECIFICATION CallsSpec
CONSTANTS
  Half = 4
  MaxGap = 1
  MESSAGE_SIZE = 268
  TagMod = 4
  CompletionTimeout = 1
  CertTimeout = 2
  MaxCalls = 3
  MaxLoss = 1
  Row <- ApiRows
INVARIANTS
  EndsOnTime
  SetIsGot
CHECK_DEADLOCK FALSE
