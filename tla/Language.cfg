SPECIFICATION Spec
CONSTANTS
    Names <- MCNames
    NoName = NoName
    OpcodeOf <- MCOpcodeOf
    RegisterOf <- MCRegisterOf
    Ident <- MCIdent
    Lines <- LanguageLines
    MaxLines = 1
    MaxSymbols = 2
    MayFail <- NoFile
INVARIANTS
    SharedRegisterWord
    CurrentInstruction
    NothingIgnored
PROPERTIES
    ImplementsTwoPass
