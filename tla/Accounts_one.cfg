SPECIFICATION FairSpec
CONSTANTS
    Users = {u1}
    Letters <- Alphabet
    Stocks <- TwoStocks
    NoStock = NoStock
    TransIDs = {1, 2}
    Amounts = {3}
    Levels = {1, 3}
    Prices <- Quotes
    QuoteTo = 0
    MaxTriggers = 2
    MaxMoney = 6
    MaxShares = 1
INVARIANTS
    TypeOK
    Solvent
    MoneyConserved
    StoreAgrees
PROPERTIES
    LockReleased
