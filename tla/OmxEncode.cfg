SPECIFICATION LiveSpec
CONSTANTS
    InBufs = {i1}
    OutBufs = {o1}
    NoBuf = NoBuf
    Commands <- AllCommands
    MaxEvents = 2
INVARIANTS
    QueuedIsSignalled
    EachHeaderInOnePlace
    FreedIsUnused
    CommandIsOver
PROPERTIES
    CommandsReturn
    ExitHangsOnBuffersOnly
CHECK_DEADLOCK FALSE
