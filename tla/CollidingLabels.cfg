SPECIFICATION Spec
CONSTANTS
    Names <- CollidingNames
    NoName = NoName
    OpcodeOf <- MCOpcodeOf
    RegisterOf <- MCRegisterOf
    Ident <- CollidingIdent
    Lines <- CollidingLines
    MaxLines = 2
    MaxSymbols = 4
    MayFail <- NoFile
INVARIANT
    RepeatsShareTheirName
