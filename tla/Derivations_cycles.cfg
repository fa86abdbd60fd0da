SPECIFICATION FairSpec
CONSTANTS
    Procs <- Container
    Once = {}
    Months <- OneMonth
    Wholes <- Farm
    ReadFirst <- FarmFirst
    FirstValued = 2
    MaxRows = 3
    MaxGrowth = 2
    MaxNow = 2
    MaxFaults = 1
PROPERTY NeverBack
PROPERTY Converges
PROPERTY Settles
INVARIANT Inv
