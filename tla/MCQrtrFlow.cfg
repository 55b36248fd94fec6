SPECIFICATION FairSpec
CONSTANTS
    QRTR_TX_FLOW_HIGH = 3
    QRTR_TX_FLOW_LOW = 2
    Senders = {s1, s2}
    MaxSends = 9
    Faults = {"xmit", "drop", "unregister", "signal", "timeout"}
CHECK_DEADLOCK FALSE
INVARIANTS ConfirmationUnderWay   
PROPERTIES BlockedSenderProceeds
