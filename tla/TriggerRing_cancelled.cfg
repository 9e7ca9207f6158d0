SPECIFICATION Spec
CONSTANTS
    Users = {u1}
    Types = {buy}
    Triggers = {t1, t2}
    Null = Null
    Nobody = Nobody
    Handler = Handler
INVARIANTS
    CancelledIsGone
CHECK_DEADLOCK FALSE
