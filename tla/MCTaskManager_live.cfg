CONSTANTS
    s1 = s1
    v1 = v1
    o1 = o1
    c1 = c1
    c2 = c2
    b1 = b1
    online = online
    happy = happy
    NoResource = NoResource
    NoJob = NoJob
    NoThing = NoThing
    Simple = {s1, o1, v1}
    Complex = {c1, c2}
    Bins = {b1}
    BinOf <- MCBinOf
    NonPersistent = {v1}
    Orphans = {o1}
    Resources = {}
    Needs <- MCNeeds
    MaxBatch = 2
    MaxCrashes = 1
    MaxFailures = 0
    MaxAborts = 0
    MaxFlips = 0

SPECIFICATION FairSpec
CHECK_DEADLOCK FALSE

INVARIANTS
    RunsInOrder
    OwedIsDurable

PROPERTIES
    AcceptedIsPlanned
    OwedIsExecuted
