SPECIFICATION Spec
CONSTANTS
    InBufs = {i1}
    OutBufs = {o1, o2}
    NoBuf = NoBuf
    Commands = {"state", "flush_in"}
    MaxCommands = 1
    MaxReconfigs = 2
    MaxErrors = 1
INVARIANTS
    OneOwner
    FtbSignalled
    DisabledPortIsDrained
CHECK_DEADLOCK FALSE
