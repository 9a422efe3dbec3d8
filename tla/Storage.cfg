CONSTANTS
    Buckets <- MCBuckets
    Lengths <- MCLengths
    MaxNames = 2
    MaxInsertions = 2
    MayFail = TRUE
SPECIFICATION Spec
INVARIANTS FreedOnce NothingElseLeaks
CHECK_DEADLOCK FALSE
