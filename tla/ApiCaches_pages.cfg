SPECIFICATION AllFairSpec
CONSTANTS
    Keys = {"value", "address"}
    MaxEntries = 1
    OldAge = 5
    PageOrder <- OnePage
    OtherTtl = 1
    FRESH = 1
    STALE = 2
    MAX_AGE = 2
    Readers <- OneReader
    MaxCrashes = 1
    HEAD_TIMEOUT = 2
    HEAD_STALE = 2
    STATUS_TTL = 1
    STATUS_QUERY = 1
CHECK_DEADLOCK FALSE
PROPERTY SeedNeverOlder
PROPERTY PagesRecomputed
INVARIANT Inv
INVARIANT HeadSound
PROPERTY FreshAgain
