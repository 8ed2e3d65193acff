\* Every demux sample with a table, every call that may fail, every schedule.
SPECIFICATION FairSpec
CONSTANT Program <- DemuxProgram
INVARIANTS LadderMatches ThreadUsesHeld DependentsGoFirst
PROPERTY MainEnds
CHECK_DEADLOCK FALSE
