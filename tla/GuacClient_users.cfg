SPECIFICATION Spec
CONSTANTS
    Users = {u1, u2}
    Owner = u1
    Timers = {t1, t2}
    NULL = NULL
INVARIANTS OnOneList PromotedSynced OnePromotion
CHECK_DEADLOCK FALSE
