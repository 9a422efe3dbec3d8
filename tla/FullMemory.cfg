SPECIFICATION Spec
CONSTANTS
    Names <- MCNames
    NoName = NoName
    OpcodeOf <- MCOpcodeOf
    RegisterOf <- MCRegisterOf
    Ident <- MCIdent
    Lines <- LongStringLines
    MaxLines = 4
    MaxSymbols = 4
    MayFail <- NoFile
INVARIANT
    FitsInMemory
