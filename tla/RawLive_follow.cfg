SPECIFICATION FairSpec
CONSTANTS
    Top = 3
    MaxReorgs = 1
    MaxCrashes = 1
    MaxUnanswered = 2
    REORG_MAX_DEPTH = 2
CHECK_DEADLOCK FALSE
PROPERTY TipRecovers
INVARIANT Inv
PROPERTY RollbackJustified
