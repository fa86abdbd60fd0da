SPECIFICATION FairFeedSpec
CONSTANTS
    Tabs <- OneTab
    Top = 2
    MaxFaults = 1
PROPERTY CatchesUp
INVARIANT FeedSound
