SPECIFICATION Spec
CONSTANTS
    t1 = t1
    t2 = t2
    d1 = d1
    d2 = d2
    p1 = p1
    Tasks = {t1, t2}
    Projects = {p1}
    ProjectOf <- OneProject
    Drivers <- MCDrivers
    Slots = 1
    Nobody = Nobody
    Claimed = Claimed
    MaxCrash = 1
    MaxOps = 3
    MaxFails = 1
INVARIANTS TypeOK OneDriver EntriesAreHeld OrphansAreResumed NeverStranded DoneIsDone
SYMMETRY Symmetry
CHECK_DEADLOCK FALSE
