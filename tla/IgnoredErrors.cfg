SPECIFICATION Spec
CONSTANTS
    Names <- MCNames
    NoName = NoName
    OpcodeOf <- MCOpcodeOf
    RegisterOf <- MCRegisterOf
    Ident <- MCIdent
    Lines <- ErrorLines
    MaxLines = 2
    MaxSymbols = 4
    MayFail <- NoFile
INVARIANT
    ErrorsBlockOutput
