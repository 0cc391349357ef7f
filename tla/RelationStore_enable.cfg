CONSTANTS
    Subjects = {s1}
    RelNames = {r1}
    Targets = {t1, t2}
    Metadata = {m1}
    Keep = Keep
    Garbage = Garbage
    MaxUnsynced = 2
SPECIFICATION Spec
INVARIANT EnablingIsDurable
