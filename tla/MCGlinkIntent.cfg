SPECIFICATION Spec
CONSTANTS
    Threads = {t1, t2}
    Lens = {1, 2}
    SZ_8K = 1
    BaseIntents <- MCBaseIntents
    CbIrqs = {FALSE, TRUE}
    Faults = {"nomem", "slow"}
    MaxSends = 3
SYMMETRY Symmetry
CHECK_DEADLOCK FALSE
INVARIANTS DataHasRoom EndsAgree DeliveredAsSent NoIntentLeaked
