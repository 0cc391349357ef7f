CONSTANTS
    g = g
    h = h
    Goals = {g, h}
    Parent <- MCParent
    Project = p
    None = None
    MaxEvents = 3
    Lives = {1, 2}
    c1 = c1
    c2 = c2
    c3 = c3
    Workers = {w}
    QueueSize = 1
SPECIFICATION MCFairSpec
 
PROPERTIES WorkFollows RequestsServed
CHECK_DEADLOCK FALSE
