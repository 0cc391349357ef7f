CONSTANTS
    Ids = {a, b}
    Dates = {""}
    Roots <- MCRoots
    Statuses = {"in-progress", "completed"}
    MaxProjects = 2
    MaxEvents = 4
    MaxGoalSteps = 5
    MaxTime = 5
    MaxRows = 4
    Nothing = Nothing
    w1 = a
    w2 = b
    w3 = w3
    pr = pr
    w = w
    DayLength = 2
    MaxClock = 3
    MaxInputs = 3
    Workspaces = {a, b, w3}
    None = None
    SlotLength = 2
    MaxQueue = 2
    MaxSeconds = 3
    MaxStates = 3
    Subjects = {s1, s2}
    RelNames = {r}
    Targets = {t1, t2}
    Metadata = {m1}
    Keep = Keep
    Callers = {c1, c2}
    Watched = r
    WatchedOnly = {s1}
    MaxCalls = 2
    Subscribers = {a, b}
    MaxRestarts = 1
    MaxVersion = 2
    MaxFaults = 1
    Objects = {p, q}
    MaxServiceChanges = 5
    MaxGarbled = 1
    x = x
    y = y
    z = z
    k1 = k1
    k2 = k2
    Items = {x, y, z}
    MaxLength = 3
    MaxUpdates = 2
    Values = {u, v}
    MaxListed = 2
    MaxChanges = 3
    MaxRetired = 1
    MaxPending = 1
    MaxSeen = 2
    MaxAgentTime = 2
    MaxAgentEvents = 4
SYMMETRY Symmetry
SPECIFICATION MCSpec
INVARIANTS  HistoryReplays TimesAddUp  RecordsShown StreamsFollow ListsShown
PROPERTY RowsKept
CHECK_DEADLOCK FALSE
