SPECIFICATION FairPoolSpec
CONSTANTS
    Users = {u1, u2}
    Threads = {t1, t2}
    Conns = {c1, c2}
    Trigger = Trigger
    Nobody = Nobody
    MaxSent = 2
    MaxVisits = 1
    MaxOpen = 2
    MaxSockets = 2
    MaxErrors = 1
INVARIANTS
    TypeOK
    PermitsMatch
    LengthIsBacklog
    OneAtATime
    OneHolder
PROPERTIES
    Serialised
    EveryClientServed
CHECK_DEADLOCK FALSE
