SPECIFICATION FairSpec
CONSTANTS
    k1 = k1
    p1 = p1
    p2 = p2
    t1 = t1
    t2 = t2
    None = None
    Keys = {k1}
    Tasks = {t1, t2}
    Polls = {p1}
    Cap = 1
    MaxPrint = 2
    MaxEvents = 1
    MaxOps = 1
    MaxFaults = 1
PROPERTY ComesBack
CHECK_DEADLOCK FALSE
