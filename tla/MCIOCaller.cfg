SPECIFICATION FairSpec
CONSTANTS
    Workers = {w1}
    Callbacks = {c1}
    Timers = {x1}
    Handlers = {e1}
    Pins = {}
    InTasks = {"schedule"}
    Delays = {1}
    w1 = w1
    c1 = c1
    x1 = x1
    e1 = e1
    Caller = caller
    UseCaller = TRUE
    MaxTimeout = 1
    Half = 4
    PipeCapacity = 8
    AnyThread = AnyThread
    Null = Null
PROPERTY ImplementsTaskPool
PROPERTY StopReturns
PROPERTY WorkRuns
