\* One application, which may close the manager; the demux fails once.
SPECIFICATION FairSpec
CONSTANTS
  App = {a1}
  Slot = {f1}
  Chan = {c1}
  Pid = {p1}
  Crc = {0}
  Op <- AllButAttr
  Timeout = 10
  MaxMsg = 2
  MaxCalls = 5
  MaxFail = 1
  a1 = a1
  f1 = f1
  c1 = c1
  p1 = p1
PROPERTIES CallsReturn TimeoutComes DeInitOnlyHangsOnTask
CHECK_DEADLOCK FALSE
