SPECIFICATION Spec
CONSTANTS
    Users = {u1}
    Letters <- Alphabet
    Stocks <- OneStock
    NoStock = NoStock
    TransIDs = {1}
    Amounts = {1, 2}
    Levels = {1, 2}
    Prices <- LowOrHigh
    QuoteTo = 1
    MaxTriggers = 2
    MaxMoney = 2
    MaxShares = 2
INVARIANTS
    SellStaysCovered
