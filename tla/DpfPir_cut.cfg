\* Keys that end in 0xFF, against the assertion of test.cpp.
SPECIFICATION MCSpec
CONSTANTS
    Fns = {"pir2"}
    Sizes = {4}
    Indexings <- MCAllIndexings
    Heights = {10}
    Points <- MCPoints
    Heads = {90}
    Nodes <- MCNodes
    Elsewhere <- MCElsewhere
    Repeats = 2
INVARIANT KeysArriveUnchanged
CHECK_DEADLOCK FALSE
