CONSTANTS
    Convs = {1, 2}
    Dates = {1, 2}
    Above = 1
    Below = 0
    MaxWrites = 3
    MaxDrops = 1
    MaxPushes = 1
    MaxSeeks = 1
    MaxUpsets = 2
SPECIFICATION FairSpec
CHECK_DEADLOCK FALSE
INVARIANTS
    BelievedIsKnown
    RowsAtRest
PROPERTY
    Settles
