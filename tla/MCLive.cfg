CONSTANTS
    Workspaces = {w1}
    Paths = {p1, p2}
    Callers = {c1, c2}
    MaxCalls = 3
    MaxIds = 2
    MaxRemovals = 1
    Targets = {t1}
    Unstamped = Unstamped
    MaxOwner = 1
    MaxMoves = 3
    MaxWrites = 2
    MaxRestarts = 1
    Checkouts = {r}
    MaxVersion = 3
    MaxRequests = 3
    MaxTasks = 3
SPECIFICATION MCFairSpec
INVARIANTS SingleProject WatchesRegistered
PROPERTIES InitSparesCalls RemovalsReachBindings Settles NeverOlder StatusCatchesUp
CHECK_DEADLOCK FALSE
