SPECIFICATION FairSpec
CONSTANTS
    QRTR_TX_FLOW_HIGH = 3
    QRTR_TX_FLOW_LOW = 2
    Senders = {s1, s2}
    MaxSends = 6
    Faults = {"xmit"}
CHECK_DEADLOCK FALSE
PROPERTIES FailedConfirmDoesNotStall
