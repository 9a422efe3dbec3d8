CONSTANTS
    Letters <- MCLetters
    Digits <- MCDigits
    Marks <- MCMarks
    Reserved <- MCReserved
    Ident <- MCIdent
    MaxLine = 6
    MaxLabel = 3
    Sources <- AllSources
SPECIFICATION Spec
INVARIANTS TypeOK PositionsTrue BodiesWhole VerdictExact DeliversStatements
PROPERTIES Termination ImplementsSubstitution
CHECK_DEADLOCK FALSE
