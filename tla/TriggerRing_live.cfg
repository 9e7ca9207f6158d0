SPECIFICATION FairSpec
CONSTANTS
    Users = {u1, u2}
    Types = {buy}
    Triggers = {t1, t2}
    Null = Null
    Nobody = Nobody
    Handler = Handler
INVARIANTS
    TypeOK
    RingIsWhole
    ExecutesLive
PROPERTIES
    EveryCommandEnds
    PassEnds
CHECK_DEADLOCK FALSE
