CONSTANTS
    Items = {i1, i2}
    None = None
    MaxChanges = 2
    MaxPushes = 1
    MaxBehind = 1

SPECIFICATION FairSpec
CHECK_DEADLOCK FALSE

PROPERTY
    ImplementsListMirror
