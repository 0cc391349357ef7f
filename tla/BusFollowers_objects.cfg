CONSTANTS
    Paths = {p, q}
    MaxChanges = 5
    MaxGarbled = 0
SPECIFICATION Spec
INVARIANT ObjectsUpToDate
CHECK_DEADLOCK FALSE
