SPECIFICATION FairSpec
CONSTANTS
    Threads = {main, t1}
    Main = main
    Names = {"port", "host", "jobs", "Port"}
    LookupRejects = {"jobs", "Port"}
    LoadRejects = {"Port"}
    Types = {int}
    Values = {"v1", "v2"}
    Docs <- Documents
    Listeners = {l1, l2}
    Throwing = {l2}
    Late = FALSE
    Null = Null
    MaxCalls = 3
INVARIANT ValueHeard
INVARIANT DeletedIsSilent
INVARIANT LoadApplies
PROPERTY CallsReturn
CHECK_DEADLOCK FALSE
