\* The store: every byte in front of a second one, and up to 32 records under two
\* servers, in all versions of answer_pir.  The retrieval: keys of 87 bytes (three of
\* them beside the padding) and of 105 bytes (one).
SPECIFICATION MCSpec
CONSTANTS
    Fns = {"pir1", "pir2", "pir3", "pir4", "pir5", "idea_speed_comparison"}
    Sizes = {4, 8, 16, 32}
    Indexings <- MCAllIndexings
    Heights = {10, 11}
    Points <- MCPoints
    Heads = {90, 255}
    Nodes <- MCNodes
    Elsewhere <- MCElsewhere
    Repeats = 2
INVARIANTS
    PartialSums
    AnswersAreTheSelection
    KeysAreCutAlike
    AnswerIsExact
CHECK_DEADLOCK FALSE
