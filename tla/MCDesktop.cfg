CONSTANTS
    Workspaces = {w1}
    Targets = {t1, t2}
    Unstamped = Unstamped
    MaxOwner = 2
    MaxMoves = 3
    MaxWrites = 2
    MaxRestarts = 1
    None = None
    Named = {n1, n2}
    Projects = {p}
    MaxChanges = 2
    Params = {"apps", "open"}
    Texts = {"", "a"}
    Blank = ""
    Found <- MCFound
    KeptOpen = {"open"}
    MaxKeys = 2
    Width = 3
    Kinds = {"noise", "urgent"}
    Rules <- MCRules
    MaxQueued = 2
    MaxRequests = 3
SYMMETRY Symmetry
SPECIFICATION MCSpec
INVARIANTS ProjectsNotInherited SingleProject   NotificationsKept
PROPERTIES SparesFreshBinds BaselineAfterCleanup
CHECK_DEADLOCK FALSE
