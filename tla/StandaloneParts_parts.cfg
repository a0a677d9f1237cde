SPECIFICATION AnySpec
CONSTANTS
    None = None
    Convs <- OneAndTwo
    Dates <- OneAndTwo
    Ahead = 2
    MaxWrites = 3
    Msgs <- OneAndTwo
    Drafts = {2}
    Folders = {"in", "out"}
    Watched = "in"
    Conv = "conv"
    Absent = Absent
    MaxTasks = 3
    MaxReads = 2
    Parts = {"a1", "r1"}
    BodySize <- Bodies
    PartSize <- Files
    SnippetLength = 1
    ChunkSize = 2
    MaxRequests = 3
    MaxTroubles = 1
    Kinds = {"text", "wrote", "sig", "delim", "legal", "list", "product"}
    Quotes = {1, 2}
    MaxScan = 3
    MaxRepeat = 2
    Deepest = 2
    Byte = 3
    MaxLines = 4
    MaxReplied = 2
    MaxReplies = 3
    Ids = {1, 2, 3, 4, 5}
    Needy = {2, 3, 4}
    Keys = {0, 1}
    MaxInserts = 5
    MaxRemovals = 1
    MaxAsked = 2
INVARIANTS
    DataInStep
    TextInStep
    TasksInStep
CHECK_DEADLOCK FALSE
