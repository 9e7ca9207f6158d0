SPECIFICATION FairSpec
CONSTANTS
    Requesters = {r1, r2}
    Writers = {w1, w2}
    NoWriter = NoWriter
    MaxRequests = 2
    MaxDrops = 1
INVARIANTS
    PermitsMatch
    AnsweredAfterRun
    NoUseAfterFree
    TwiceOnlyAfterDrop
PROPERTIES
    EveryRequestAnswered
CHECK_DEADLOCK FALSE
