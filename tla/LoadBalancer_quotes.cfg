SPECIFICATION FairSpec
CONSTANTS
    Conns = {c1, c2}
    Handlers = {h1, h2}
    Nobody = Nobody
    Stocks <- TwoStocks
    QuoteTo = 1
    MaxRequests = 3
    MaxTime = 2
    MaxEmpty = 1
INVARIANTS
    CellsAreWhole
    QuoteOfItsStock
PROPERTIES
    ServesQuotes
    EveryRequestAnswered
CHECK_DEADLOCK FALSE
