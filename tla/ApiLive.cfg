SPECIFICATION FairSpec
CONSTANTS
  t1 = t1
  h = h
  f = f
  query = query
  mask_get = mask_get
  Caller = {t1}
  Pump = {h}
  OpCode = {query, mask_get}
  MaskGet = mask_get
  Flag = {f}
  TagMod = 4
  SlowCalls = TRUE
  BootStatQuery = TRUE
  BadPars = TRUE
  MaxCalls = 2
  MaxNotify = 1
  MaxLoss = 1
  MaxRepeat = 0
PROPERTIES
  CallsReturn
  FlagsReported
CHECK_DEADLOCK FALSE
