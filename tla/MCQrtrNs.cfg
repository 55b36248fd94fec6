SPECIFICATION Spec
CONSTANTS
    a = a
    b = b
    Node <- MCNode
    ServerPort <- MCServerPort
    LookupPort <- MCLookupPort
    Budgets <- MCBudgets
INVARIANTS
    
    
    HelloExchanged
CHECK_DEADLOCK FALSE
