SPECIFICATION Spec
CONSTANTS
    MaxEdits = 2
    MaxLive = 1
    MaxCrash = 0
    MaxOps = 2
    MaxIter = 2
    Grant = 1
    RequireReview = TRUE
    ShipMode = "push"
    HasAlert = FALSE
    Benchmark = FALSE
INVARIANT ApprovalStands
INVARIANT ParkedIsTip
INVARIANT MergeAttemptApproved
INVARIANT NoUnshippedNoChanges
INVARIANT NeverMergesTwice
PROPERTY GateNeverSelfRoutes
PROPERTY ShippedMeansLanded
CHECK_DEADLOCK FALSE
