SPECIFICATION Spec
CONSTANTS
    Writers = {w1}
    Users = {u1}
    Loaders = {c1}
    Names = {0, 1}
    Root = 0
    Files = {"app.log", "user.log"}
    UserAppender = 12
    UserFile = "user.log"
    RootAppender = 11
    Objects = {21, 22}
    Patterns <- Pats
    UserPatterns <- NewPats
    DefaultPattern <- M
    Docs <- Documents
    Sharing = "once"
    Null = Null
    MaxClock = 2
    MaxEvents = 1
    MaxCalls = 2
    MaxLoads = 3
    Letters = {"m", "d", "q"}
    Others = {"-"}
    MaxPattern = 5
INVARIANT InheritedFollows
INVARIANT NoStaleAppenders
INVARIANT LocksInOrder
INVARIANT PatternsRead
PROPERTY DeliveredOnce
CHECK_DEADLOCK FALSE
