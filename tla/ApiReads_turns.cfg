SPECIFICATION AllSpec
CONSTANTS
    Candidates <- Rows
    Arrivals <- NewBlock
    Requests <- AnyRequest
    PROBE = 1
    SEED = 1
    WIDEN = 2
    CEILING = 4
    DAY = 2
    Swaps = {1, 2, 3}
    Hooked = {2}
    Handed = {1, 3}
    Drainers = {"api"}
    BATCH = 2
    MAX_BATCHES = 2
    LastStamp = 2
    MaxFaults = 1
    Accounts = {"a", "b"}
    MaxLock = 1
    MIN_ROWS = 1
    FLOOR = 2
    Queries = {"q"}
    LastTick = 3
    MaxChanges = 1
    MaxSlips = 1
    Holders = {"a", "b"}
    Tags <- Pairs
    Horizon = 4
    MAX_TIMELINE_STEPS = 2
    MAX_SCHEDULED_TRANCHES = 2
    Voters = {"a", "b"}
    Ballots <- TwoBallots
    Dispatched <- VoteExtrinsics
    FirstVoted = 3
    MoreBlocks = 1
    MaxItems = 3
CHECK_DEADLOCK FALSE
INVARIANT WindowSound
INVARIANT QueueSound
INVARIANT SnapshotsSound
INVARIANT TimelineSound
INVARIANT VotesSound
