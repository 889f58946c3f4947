SPECIFICATION Spec
CONSTANTS
    MaxLgn = 5
    Pow <- MCPow
INVARIANTS
    PuncturedAgrees
    BreadthAgrees
    KeysAvoidThePoint
PROPERTY Returns
CHECK_DEADLOCK FALSE
