SPECIFICATION Spec
CONSTANTS
    c1 = c1
    c2 = c2
    Missing = Missing
    Top = 3
    RANGE_SIZE = 2
    RAW_WORKERS = 2
    RAW_FAILED_RETRY_LIMIT = 2
    Chains <- TwoChains
    MaxFaults = 1
    MaxGaps = 1
    MaxInsertErrors = 1
    MaxReadErrors = 0
INVARIANT Disjoint
INVARIANT CompletedIsWhole
PROPERTY CompletedDataStable
PROPERTY HotRetriesBounded
