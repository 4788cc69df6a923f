SPECIFICATION Spec
CONSTANTS
    b1 = b1
    b2 = b2
    Branches = {b1, b2}
    None = None
    MaxCommits = 2
    MaxRebases = 0
    MaxAsks = 2
    MaxFaults = 1
SYMMETRY Symmetry
INVARIANT TypeOK
INVARIANT ShownIsQueued
CHECK_DEADLOCK FALSE
