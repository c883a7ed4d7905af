SPECIFICATION FairSpec
CONSTANTS
    Workers = {w1, w2}
    Caller = caller
    UseCaller = TRUE
    UserFibers = {}
    Callbacks = {c1, c2}
    Pins = {w1, caller}
    Behaviours = {"throw", "spawn", "hold"}
    AnyThread = AnyThread
    Null = Null
    MaxYields = 1
    MaxSubmits = 1
    MaxStarts = 1
INVARIANT NoAssertFails
INVARIANT StopDrains
PROPERTY ImplementsTaskPool
PROPERTY StopReturns
PROPERTY QueuedRuns
