SPECIFICATION FairSpec
CONSTANTS
    First = 2
    Last = 4
    Assets = {"BSX", "KSM"}
    Moved <- MovedBlocks
    Swaps <- SwapBlocks
    Upgrades <- UpgradeBlocks
    BATCH = 2
    CHUNK = 2
    Deferred = TRUE
    Fresh = TRUE
    MaxCrashes = 2
    MaxLate = 0
CHECK_DEADLOCK FALSE
INVARIANT ExactlyOnce
PROPERTY EventuallyPublished
PROPERTY ImplementsLedger
