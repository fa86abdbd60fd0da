SPECIFICATION AllSpec
CONSTANTS
    Who = {"a", "b"}
    Tokens = {"5"}
    Genesis <- AtGenesis
    Bodies <- TwoBodies
    LiveStart = 2
    CHUNK = 2
    LastBlock = 3
    MaxForks = 1
    MaxSeeds = 1
    MaxLosses = 1
    MaxTroubles = 2
    AssetIds = {"0", "5"}
    Native = "0"
    Entries <- MCEntries
    FirstFollowed = 2
    LastHeight = 5
    ScanInterval <- MCInterval
    MaxLapses = 1
    MaxPublished = 1
    Assets = {"K", "B", "X", "Y"}
    Markets <- MCMarkets
    Published = {"K", "B", "X"}
    MAX_HOPS = 3
    MIN_LIQUIDITY = 1
    KEPT = 2
    PRICE_UNIT = 4
    TRUNC = 4
    DIGITS = 1
    Traders = {"a", "b"}
    Contents <- MCContents
CHECK_DEADLOCK FALSE
INVARIANT BalancesSound
INVARIANT RegistrySound
INVARIANT BlockSound
