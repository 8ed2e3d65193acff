SPECIFICATION Spec
CONSTANTS
  t1 = t1
  t2 = t2
  h = h
  f = f
  query = query
  mask_get = mask_get
  Caller = {t1, t2}
  Pump = {h}
  OpCode = {query, mask_get}
  MaskGet = mask_get
  Flag = {f}
  TagMod = 3
  SlowCalls = FALSE
  BootStatQuery = FALSE
  BadPars = FALSE
  MaxCalls = 3
  MaxNotify = 1
  MaxLoss = 0
  MaxRepeat = 1
INVARIANTS
  ResponseIsOwn
  SendFindsTxIdle
  FlagsAccounted
  WaitingFlagsWake
SYMMETRY Threads
CHECK_DEADLOCK FALSE
