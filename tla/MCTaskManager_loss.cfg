CONSTANTS
    s1 = s1
    v1 = v1
    o1 = o1
    c1 = c1
    c2 = c2
    b1 = b1
    online = online
    happy = happy
    NoResource = NoResource
    NoJob = NoJob
    NoThing = NoThing
    Simple = {s1}
    Complex = {}
    Bins = {b1}
    BinOf <- MCBinOf
    NonPersistent = {}
    Orphans = {}
    Resources = {}
    Needs <- MCNeeds
    MaxBatch = 1
    MaxCrashes = 1
    MaxFailures = 0
    MaxAborts = 0
    MaxFlips = 0

SPECIFICATION Spec
CHECK_DEADLOCK FALSE

INVARIANT
    NoTaskLost
