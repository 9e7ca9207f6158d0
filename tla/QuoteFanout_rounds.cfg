SPECIFICATION FairSpec
CONSTANTS
    N = 2
    MaxRequests = 3
    MaxEmpty = 1
    MaxTexts = 2
    Patience = 1
    Nobody = Nobody
INVARIANTS
    RoundIsOver
PROPERTIES
    Rounds
    EveryRequestAnswered
CHECK_DEADLOCK FALSE
