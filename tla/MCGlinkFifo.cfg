SPECIFICATION FairSpec
CONSTANTS
    Length = 48
    Writers = {w1, w2}
    Requests <- MCRequests
    MaxSends = 3
CHECK_DEADLOCK FALSE
INVARIANTS RingInv
  
