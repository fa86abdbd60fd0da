SPECIFICATION FairSpec
CONSTANTS
    c1 = c1
    c2 = c2
    Missing = Missing
    Top = 3
    RANGE_SIZE = 1
    RAW_WORKERS = 2
    RAW_FAILED_RETRY_LIMIT = 2
    Chains <- OneChain
    MaxFaults = 1
    MaxGaps = 0
    MaxInsertErrors = 0
    MaxReadErrors = 0
INVARIANT NoHoles
PROPERTY SettledForever
PROPERTY HistoryCompletes
