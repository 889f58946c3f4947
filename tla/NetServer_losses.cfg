SPECIFICATION Spec
CONSTANTS
    Modes = {"run", "run_refresh", "run_offline", "baseline",
             "ck_online", "ck_offline", "dpf"}
    Load = 3
    Backlog = 2
    MaxRuns = 2
    MaxKills = 1
    MaxFails = 1
INVARIANTS
    FailsOnlyAfterALoss
    AddsBetweenThePhases
    ThroughputExact
    LeaksOnlyFailedReceives
PROPERTIES
    ClientsAreServed
CHECK_DEADLOCK FALSE
