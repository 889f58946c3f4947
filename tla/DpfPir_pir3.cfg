\* The version of the answer that shifts by bytes.
SPECIFICATION MCSpec
CONSTANTS
    Fns = {"pir3"}
    Sizes = {8}
    Indexings <- MCAllIndexings
    Heights = {10}
    Points <- MCPoints
    Heads = {90}
    Nodes <- MCNodes
    Elsewhere <- MCElsewhere
    Repeats = 2
INVARIANT EveryVersionSelects
CHECK_DEADLOCK FALSE
