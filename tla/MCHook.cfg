SPECIFICATION FairSpec
CONSTANTS
    Fibers = {f1, f2}
    Fds = {1}
    Timeouts = {TRUE}
    f1 = f1
    f2 = f2
    Null = Null
    MaxCalls = 2
    MaxOpens = 2
INVARIANT WokenOnce
INVARIANT TimeoutIsOwn
PROPERTY WaitEnds
CHECK_DEADLOCK FALSE
