CONSTANTS
    refresh = refresh
    grow = grow
    download = download
    conv = conv
    flush = flush
    Bins = {refresh, grow, download}
    Reissued = {download}
    Simple = {conv}
    PlanOnly = {flush}
    Spawns <- MCSpawns
    Requests = {refresh, grow, download}
    Follow = flush
    Restored = {refresh}
    None = None
    MaxTasks = 4
    MaxNotices = 1

SPECIFICATION FairSpec
CHECK_DEADLOCK FALSE

INVARIANT
    GroupsAccount

PROPERTY
    PromiseKeptUnlessLeaky
