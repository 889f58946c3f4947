SPECIFICATION Spec
CONSTANTS
    Key <- MCKey
    ROUNDS = 7
    MaxRange = 20
    RoundFunc <- MCRoundFunc
INVARIANTS
    TypeOK
    RoundTrip
PROPERTIES
    Returns
CHECK_DEADLOCK FALSE
