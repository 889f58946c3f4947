SPECIFICATION Spec
CONSTANTS
    k1 = k1
    k2 = k2
    Key <- MCKey
    Prf <- MCPrf
    Points = 4
    Elements = 2
    DbSize = 5
    SetSize = 8
    NbrSets = 2
INVARIANTS
    TypeOK
    HintsUntilRefreshed
    RecoversExactlyWithHint
    SetHoldsIndex
PROPERTY RefreshExactlyAtPoint
CHECK_DEADLOCK FALSE
