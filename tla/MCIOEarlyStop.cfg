SPECIFICATION Spec
CONSTANTS
    Workers = {w1}
    Callbacks = {c1}
    Timers = {x1}
    Handlers = {}
    Pins = {}
    InTasks = {"schedule", "timer", "event"}
    Delays = {1}
    w1 = w1
    c1 = c1
    x1 = x1
    Caller = caller
    UseCaller = FALSE
    MaxTimeout = 1
    Half = 4
    PipeCapacity = 8
    AnyThread = AnyThread
    Null = Null
INVARIANT StopLeavesNothing
