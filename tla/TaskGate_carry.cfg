SPECIFICATION Spec
CONSTANTS
    MaxEdits = 1
    MaxLive = 2
    MaxCrash = 1
    MaxOps = 1
    MaxIter = 2
    Grant = 1
    RequireReview = TRUE
    ShipMode = "push"
    HasAlert = FALSE
    Benchmark = TRUE
INVARIANT TypeOK
INVARIANT LandedWasReviewed
INVARIANT MergeAttemptApproved
INVARIANT ParkedIsTip
CHECK_DEADLOCK FALSE
