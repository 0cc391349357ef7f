CONSTANTS
    Workspaces = {w1}
    Targets = {t1}
    Unstamped = Unstamped
    MaxOwner = 1
    MaxMoves = 3
    MaxWrites = 2
    MaxRestarts = 1
SPECIFICATION Spec
INVARIANT LinksNotInherited
CHECK_DEADLOCK FALSE
