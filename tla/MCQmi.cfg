SPECIFICATION FairSpec
CHECK_DEADLOCK FALSE
CONSTANTS
    c1 = c1
    c2 = c2
    look = look
    serv = serv
    None = None
    Client <- MCClient
    Lookup <- MCLookup
    Service <- MCService
    NIds = 3
    MaxSocks = 3
    Budgets <- MCBudgets
INVARIANTS
    NoDanglingTxn
    AnswerIsOwn
    NoLostWakeup
    
    ReleaseStopsHandling

    
