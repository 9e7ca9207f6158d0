SPECIFICATION Spec
CONSTANTS
    N = 1
    MaxRequests = 2
    MaxEmpty = 1
    MaxTexts = 2
    Patience = 1
    Nobody = Nobody
INVARIANTS
    ReturnedWithQuote
CHECK_DEADLOCK FALSE
