SPECIFICATION FairSpec
CONSTANTS
    Fds = {2}
    Users = {u1}
    IOThreads = {t1, t2}
    Ops = {"add", "del", "cancel", "all"}
    Errors = {}
    u1 = u1
    t1 = t1
    t2 = t2
    InitialSize = 2
    Null = Null
    MaxAdds = 3
    MaxObjects = 2
PROPERTY ReadyIsTriggered
CHECK_DEADLOCK FALSE
