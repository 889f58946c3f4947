SPECIFICATION Spec
CONSTANTS
    k1 = k1
    k2 = k2
    Key <- MCKey1
    Prp <- MCPrp
    Kdf <- MCKdf
    InitRange = 3
    SetSize = 2
    NbrSets = 2
    MaxDb = 4
    UModulus = 16
    BatchSizes = {1}
INVARIANTS
    RecoverExact
PROPERTY ImplementsHintStore
CHECK_DEADLOCK FALSE
