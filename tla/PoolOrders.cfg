\* Instances come and go in every order, in a pool that fits two of them.
SPECIFICATION Spec
CONSTANTS
  rx = rx
  tx = tx
  third = third
  Inst = {rx, tx, third}
  ListWords = 1
  ObjWords = 5
  IpcWords = 4
  MesWords = 3
  PoolWords = 35
  MaxCreates = 6
INVARIANTS
  LiveBlocksKept
  NothingLeaks
SYMMETRY Instances
CHECK_DEADLOCK FALSE
