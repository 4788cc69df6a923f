SPECIFICATION Spec
CONSTANTS
    b1 = b1
    b2 = b2
    Branches = {b1, b2}
    None = None
    MaxCommits = 2
    MaxRebases = 1
    MaxAsks = 1
    MaxFaults = 1
SYMMETRY Symmetry
INVARIANT OneReviewAtATime
INVARIANT MergedWasReady
INVARIANT ProgressIsReal
CHECK_DEADLOCK FALSE
