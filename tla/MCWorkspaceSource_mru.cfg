CONSTANTS
    Native = {n1, n2}
    PublicIds = {n1, n2, a1, a2}
    Windows = {w1}
    None = None
    MaxChanges = 2
    MaxQueue = 3
    MaxGeneration = 3
SPECIFICATION Spec
INVARIANT MruRegistered
CHECK_DEADLOCK FALSE
