SPECIFICATION Spec
CONSTANTS
    Timers = {2, 4}
    Addresses = {1, 3, 5}
    IOThreads = {t1, t2}
    Recurring = {4}
    Periods = {0, 2}
    Hour = 1
    MaxClock = 2
    MaxJumps = 1
SYMMETRY Symmetry
INVARIANT TypeOK
INVARIANT ArmedIffInSet
INVARIANT OneShotOnce
INVARIANT FrontAnnounced
PROPERTY CollectsExactlyDue
