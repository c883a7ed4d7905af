SPECIFICATION FairSpec
CONSTANTS
    Workers = {w1, w2}
    Caller = caller
    UseCaller = FALSE
    UserFibers = {f1}
    Callbacks = {c1}
    Pins = {}
    Behaviours = {"ready", "register"}
    AnyThread = AnyThread
    Null = Null
    MaxYields = 2
    MaxSubmits = 1
    MaxStarts = 2
INVARIANT ActiveBoundsWorkers
INVARIANT SingleOwner
 
PROPERTY WokenIsTaken
