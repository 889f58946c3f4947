SPECIFICATION MCSpec
CONSTANTS
    Modes = {"online", "refresh", "ck"}
    Load = 2
    DbSize = 4
    SetSize = 2
    NbrSets = 2
    Blocks <- MCBlocks
    Keys <- MCKeys
    Numbers = {0, 7}
    MaxLen = 2
INVARIANTS
    RightExactlyForTheLastSet
    RacesOnlyExchangeAnswers
    RefreshFitsIfAppliedInOrder
    RoundTrips
