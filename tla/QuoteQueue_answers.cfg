SPECIFICATION FairSpec
CONSTANTS
    Requesters = {r1, r2}
    QuoteThreads = {q1, q2}
    Stocks = {k1}
    Blocks = {b1, b2, b3, b4, b5, b6}
    None = None
    MaxFailures = 1
INVARIANTS
    OneOwner
    OneAnswer
    AnsweredHasPrice
PROPERTIES
    EveryRequestAnswered
CONSTRAINT Timely
CHECK_DEADLOCK FALSE
