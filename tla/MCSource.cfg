CONSTANTS
    Native = {n1, n2}
    PublicIds = {n1, n2, a1, a2}
    Windows = {w1}
    None = None
    MaxChanges = 2
    MaxQueue = 3
    MaxGeneration = 3
    o1 = o1
    o2 = o2
    v1 = v1
    v2 = v2
    v3 = v3
    d1 = d1
    d2 = d2
    Outputs = {o1, o2}
    Layouts = {"scrolling", "master"}
    MaxCalls = 1
    MaxEvents = 1
SPECIFICATION MCFairSpec
INVARIANTS ReferencesRegistered OneLifePerIdentity CommandsDoAsAsked
PROPERTIES Converges NoPartialTopology KeepsIdentities
CHECK_DEADLOCK FALSE
