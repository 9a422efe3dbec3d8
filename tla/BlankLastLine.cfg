CONSTANTS
    Letters <- MCLetters
    Digits <- MCDigits
    Marks <- MCMarks
    Reserved <- MCReserved
    Ident <- MCIdent
    MaxLine = 6
    MaxLabel = 3
    Sources <- BlankEnd
SPECIFICATION Spec
INVARIANT BlankLinesIgnored
CHECK_DEADLOCK FALSE
