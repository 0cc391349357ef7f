CONSTANTS
    Subjects = {s1, s2}
    RelNames = {r1}
    Targets = {t1, t2}
    Metadata = {m1, m2}
    Keep = Keep
    Garbage = Garbage
    MaxUnsynced = 2
    Count = 2
    Focused = 1
    Named = {1}
    Projects = {p}
    None = None
    Explicit = {"work"}
    Recipes = {"none", "tagged"}
    MaxOpened = 2
    MaxEvents = 2
    MaxCalls = 2
    MaxFailures = 1
    MaxTogether = 2
SYMMETRY Symmetry
SPECIFICATION MCSpec
INVARIANTS SingleRecord AlwaysLoadable FileMatchesMemory   SavesHold
PROPERTIES OnlyOnRequest KeepsItsPromise RestoresHonest
