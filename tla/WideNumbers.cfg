SPECIFICATION Spec
CONSTANTS
    Names <- MCNames
    NoName = NoName
    OpcodeOf <- MCOpcodeOf
    RegisterOf <- MCRegisterOf
    Ident <- MCIdent
    Lines <- WideLines
    MaxLines = 1
    MaxSymbols = 4
    MayFail <- NoFile
INVARIANT
    NumbersKept
