SPECIFICATION FairSpec
CONSTANTS
    c1 = c1
    c2 = c2
    a1 = a1
    a2 = a2
    None = None
    Client <- MCClient
    Addr <- MCAddr
    num_tcs = 2
    MaxCalls <- MCTwoAndOne
    Calls <- MCCalls
INVARIANTS
    TransferIntact
    WaitedOnePerAddress
    CompletedIsServed
    RequestIsLive
    
PROPERTIES
    SolverFindsIdle
    CallReturns
