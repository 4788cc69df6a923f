SPECIFICATION Spec
CONSTANTS
    k1 = k1
    p1 = p1
    p2 = p2
    t1 = t1
    t2 = t2
    None = None
    Keys = {k1}
    Tasks = {t1, t2}
    Polls = {p1, p2}
    Cap = 1
    MaxPrint = 2
    MaxEvents = 1
    MaxOps = 1
    MaxFaults = 1
INVARIANTS TypeOK WorkIsLinked NeverAutoRetried
PROPERTY DismissedStays
SYMMETRY Symmetry
CHECK_DEADLOCK FALSE
