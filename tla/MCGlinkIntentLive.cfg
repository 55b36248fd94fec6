SPECIFICATION FairSpec
CONSTANTS
    Threads = {t1, t2}
    Lens = {1, 2}
    SZ_8K = 1
    BaseIntents <- MCBaseIntents
    CbIrqs = {FALSE}
    Faults = {"nomem", "abort"}
    MaxSends = 2
CHECK_DEADLOCK FALSE
INVARIANTS NoFalseAlarm
PROPERTIES SendReturns SentIsDelivered
