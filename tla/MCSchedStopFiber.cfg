SPECIFICATION FairSpec
CONSTANTS
    Workers = {w1}
    Caller = caller
    UseCaller = FALSE
    UserFibers = {f1}
    Callbacks = {}
    Pins = {}
    Behaviours = {}
    AnyThread = AnyThread
    Null = Null
    MaxYields = 1
    MaxSubmits = 1
    MaxStarts = 1
PROPERTY StopReturns
