SPECIFICATION Spec
CONSTANTS
    Fds = {2, 4}
    Users = {u1, u2}
    IOThreads = {t1}
    Ops = {"add", "del", "all"}
    Errors = {2}
    u1 = u1
    u2 = u2
    t1 = t1
    InitialSize = 2
    Null = Null
    MaxAdds = 2
    MaxObjects = 2
SYMMETRY Symmetry
INVARIANT PendingCounts
INVARIANT HandlersConserved
INVARIANT KernelAgrees
CHECK_DEADLOCK FALSE
