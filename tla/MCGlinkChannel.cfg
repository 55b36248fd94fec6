SPECIFICATION FairSpec
CONSTANTS
    Faults = {"nodev", "abort", "remove"}
    MaxOpens = 3
    MaxBinds = 3
    MaxLocals = 1
CHECK_DEADLOCK FALSE
INVARIANTS   OpenAckNotLost ReleasedAfterClose RemovedFreesOpened
PROPERTIES RemoteCloseAnswered ProbeReturns
