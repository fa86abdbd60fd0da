SPECIFICATION ToolsSpec
CONSTANTS
    First = 2
    Last = 4
    Assets = {"KSM"}
    Moved <- MovedBlocks
    Swaps <- SwapBlocks
    Upgrades <- NoUpgrades
    BATCH = 1
    CHUNK = 2
    Deferred = FALSE
    Fresh = FALSE
    MaxCrashes = 1
    MaxLate = 1
    Candles <- Intervals
    Width <- Blocks
    CHUNK_SIZE = 1
    SAFETY_LAG = 1
    Exotic <- NoExotic
    ToolsAlone = TRUE
    MaxTools = 2
    MaxToolCrashes = 1
CHECK_DEADLOCK FALSE
INVARIANT Inv
INVARIANT CandlesExact
INVARIANT CheckpointKept
