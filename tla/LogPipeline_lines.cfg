SPECIFICATION FairSpec
CONSTANTS
    Servers = {s1}
    Limit = 1
    Room = 1
    MaxLines = 3
    MaxBreaks = 1
INVARIANTS
    NothingLost
    InOrder
    DumpIsComplete
PROPERTIES
    EveryDumpEnds
CHECK_DEADLOCK FALSE
