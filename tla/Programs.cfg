SPECIFICATION Spec
CONSTANTS
    Names <- MCNames
    NoName = NoName
    OpcodeOf <- MCOpcodeOf
    RegisterOf <- MCRegisterOf
    Ident <- MCIdent
    Lines <- ProgramLines
    MaxLines = 4
    MaxSymbols = 2
    MayFail <- AnyFile
INVARIANTS
    TypeOK
    Layout
    ObjectContiguous
    SharedRegisterWord
    CurrentInstruction
    RejectedWritesNothing
    NoUnresolvedWord
    LabelsMarkStatements
    ReferencesResolved
PROPERTIES
    ImplementsTwoPass
    WordsOnlyGrow
    FirstDefinitionStays
    RejectionIsFinal
    Termination
