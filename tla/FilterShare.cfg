\* Two applications share the channels of two PIDs; the demux fails once.
SPECIFICATION Spec
CONSTANTS
  App = {a1, a2}
  Slot = {f1, f2}
  Chan = {c1, c2}
  Pid = {p1, p2}
  Crc = {0, 1}
  Op <- SharingCalls
  Timeout = 0
  MaxMsg = 1
  MaxCalls = 5
  MaxFail = 1
  a1 = a1
  a2 = a2
  f1 = f1
  f2 = f2
  c1 = c1
  c2 = c2
  p1 = p1
  p2 = p2
SYMMETRY Interchangeable
INVARIANTS DataOnlyWhileStarted UsedChannelExists NoChannelLeaks
