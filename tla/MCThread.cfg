SPECIFICATION FairSpec
CONSTANTS
    Children = {x1, x2, x3}
    x1 = x1
    x2 = x2
    x3 = x3
    Creator = Creator
    Null = Null
INVARIANT Handover
PROPERTY StartReturns
CHECK_DEADLOCK FALSE
