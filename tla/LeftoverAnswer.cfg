CONSTANTS
    Names <- MCNames
    Verdicts <- FewVerdicts
    Answers <- Words
    Unwritable = {}
    Unreadable = {}
    MaxArgs = 2
    MaxRuns = 2
    MaxEdits = 2
SPECIFICATION Spec
PROPERTY AskedEachTime
CHECK_DEADLOCK FALSE
