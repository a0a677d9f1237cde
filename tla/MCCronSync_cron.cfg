CONSTANTS
    a1 = a1
    a2 = a2
    Accounts = {a1, a2}
    Intervals = {1, 2}
    IntervalOf <- OneEach
    Other = Other
    NoLock = NoLock
    MaxAlarms = 2
    MaxFaults = 2

SPECIFICATION FairSpec
CHECK_DEADLOCK FALSE

INVARIANTS
    CronInStep

PROPERTIES
    CompleteIsSafe
    Concludes
