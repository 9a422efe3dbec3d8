CONSTANTS
    Names <- MCNames
    Verdicts <- MCVerdicts
    Answers <- OneLetter
    Unwritable <- SomeFail
    Unreadable <- SomeClosed
    MaxArgs = 2
    MaxRuns = 2
    MaxEdits = 3
SPECIFICATION Spec
INVARIANTS TypeOK NameFits OneHandlePerQuestion StaleOnlyIfNotWritten
PROPERTIES Consent ImplementsBatch EveryRunEnds
CHECK_DEADLOCK FALSE
