SPECIFICATION Spec
CONSTANTS
    reviewer = reviewer
    approve = approve
    merge = merge
    None = None
    Processes <- MCProcesses
    Slow = 1
    MaxUpdates = 1
    MaxFaults = 2
INVARIANTS TypeOK TimeoutMeansBusy
PROPERTY Implements
CHECK_DEADLOCK FALSE
