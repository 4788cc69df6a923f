SPECIFICATION Spec
CONSTANTS
    p = p
    q = q
    p1 = p1
    p2 = p2
    q1 = q1
    None = None
    Names = {p, q}
    Dirs = {p1, p2, q1}
    Basename <- MCBasename
    Requests = {r1, r2}
    First = p1
    Cloned = {p1, p2}
    OldRows = {1, 2}
    PageLimit = 1
    MaxRequests = 3
    MaxRepos = 3
    MaxRows = 4
    MaxFaults = 1
SYMMETRY Requests2
INVARIANTS TypeOK ConfiguredIsWhole RunningIsSafe LostOnlyExposed EntriesAreKept KeysExist
CHECK_DEADLOCK FALSE
