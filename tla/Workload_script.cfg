SPECIFICATION FairWorkload
CONSTANTS
    u1 = u1
    u2 = u2
    Users = {u1, u2}
    Threads = {t1}
    Conns = {0, 1}
    Trigger = Trigger
    Nobody = Nobody
    DumpLog = DumpLog
    Sum <- SumOfName
    Lines = 3
    Scripts <- SomeScripts
    MaxSent = 3
    MaxVisits = 1
    MaxBreaks = 1
INVARIANTS
    KeepsScript
    RowsAreRight
PROPERTIES
    EveryLineExecuted
CHECK_DEADLOCK FALSE
