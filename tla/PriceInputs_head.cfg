SPECIFICATION FairSpec
CONSTANTS
    LAST_DAY = 1
    LIVE_WINDOW = 0
    MAX_STALE = 1
    SETTLE_RECENT = 1
    MaxQuotes = 1
    MaxFaults = 1
    Pools = {p1}
    Kinds <- MCKinds
INVARIANT Inv
PROPERTY ReferenceConverges
