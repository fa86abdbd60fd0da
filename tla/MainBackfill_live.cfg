SPECIFICATION FairSpec
CONSTANTS
    Top = 3
    RANGE_SIZE = 2
    MAIN_MAX_RANGES = 2
    MAIN_WORKERS = 2
    Broken <- NoBroken
    Established = TRUE
    MaxKills = 2
    MaxStops = 1
    MaxDowngrades = 1
    MaxSupervisorCrashes = 1
CHECK_DEADLOCK FALSE
INVARIANT ClaimsDisjoint
INVARIANT NoHole
PROPERTY HistoryPriced
