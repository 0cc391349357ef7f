CONSTANTS
    Workspaces = {w1}
    Paths = {p1}
    Callers = {c1}
    MaxCalls = 2
    MaxIds = 2
    MaxRemovals = 1
SPECIFICATION FairSpec
PROPERTY BindingsResolve
CHECK_DEADLOCK FALSE
