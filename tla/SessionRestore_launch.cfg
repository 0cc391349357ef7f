CONSTANTS
    Count = 2
    Focused = 1
    Named = {1}
    Projects = {p}
    None = None
    Explicit = {"work"}
    Recipes = {"tagged"}
    MaxOpened = 2
    MaxEvents = 1
    MaxCalls = 2
    MaxFailures = 0
SPECIFICATION Spec
INVARIANT LaunchedOnce
CHECK_DEADLOCK FALSE
