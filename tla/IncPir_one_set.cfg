SPECIFICATION Spec
CONSTANTS
    k1 = k1
    k2 = k2
    Key <- MCKey
    Prp <- MCPrp
    Kdf <- MCKdf
    InitRange = 3
    SetSize = 2
    NbrSets = 1
    MaxDb = 7
    UModulus = 16
    BatchSizes = {1, 2}
INVARIANTS
    TypeOK
    HintExact
    SoundNeverThrows
    SizeConserved
    NoZeroDivisor
    ServerInBounds
    FindAgrees
PROPERTIES
    BatchExchanges
CONSTRAINT SpoiltOnlyWhenSmall
CHECK_DEADLOCK FALSE
