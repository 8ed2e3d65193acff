SPECIFICATION LiveSpec
CONSTANTS
    InBufs = {i1}
    OutBufs = {o1}
    NoBuf = NoBuf
    Commands = {"state", "seek", "flush", "flush_in", "flush_out", "quit"}
    MaxCommands = 1
    MaxReconfigs = 1
    MaxErrors = 0
INVARIANTS
    EtbSignalled
    SeekHandsOutAlone
    NoStaleEvent
PROPERTIES
    CommandsReturn
    ReconfigEnds
ACTION_CONSTRAINT Overlaps
CHECK_DEADLOCK FALSE
