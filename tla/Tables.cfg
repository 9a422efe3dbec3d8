CONSTANTS
    Labels <- Chained
    Values = {"a", "b"}
    NodeLabel <- MCNodeLabel
    HASH_TABLE_SIZE = 307
    hashFunctionV2 <- MChashFunctionV2
    hashFunction <- MChashFunction
    getKey <- MCgetKey
    MaxCount = 3
    MayFail = TRUE
SPECIFICATION Spec
INVARIANTS TypeOK ChainsSound
PROPERTIES ImplementsDictionary WalksEnd
