CONSTANTS
    s1 = s1
    v1 = v1
    o1 = o1
    c1 = c1
    c2 = c2
    b1 = b1
    online = online
    happy = happy
    NoResource = NoResource
    NoJob = NoJob
    NoThing = NoThing
    Simple = {s1}
    Complex = {c1, c2}
    Bins = {b1}
    BinOf <- MCBinOf
    NonPersistent = {}
    Orphans = {}
    Resources = {online, happy}
    Needs <- MCNeeds
    MaxBatch = 2
    MaxCrashes = 2
    MaxFailures = 1
    MaxAborts = 1
    MaxFlips = 3

SPECIFICATION Spec
CHECK_DEADLOCK FALSE

INVARIANTS
    OneHome
    QueueIsDurable
    NoRawForgotten
    SortedByNeed
    PlannedBinHasMarker
    QueueEmptyIsTrue
