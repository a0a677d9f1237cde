CONSTANTS
    c1 = c1
    c2 = c2
    c3 = c3
    t1 = t1
    t2 = t2
    Callers = {c1, c2, c3}
    MaxConns = 3
    Retries = 3
    None = None
    Mails <- ThreeOf
    DateOf <- Dates
    MaxSyncs = 2
    MaxChanges = 1
    MaxClears = 1
    MaxCrashes = 1
    Boxes <- Paths
    InboxPath <- Inbox
    InboxNames = {5, 8}
    OutboxPath <- Outbox
    Virtual <- Subjects
    Workers = {t1, t2}
    Base = 3
    MaxFolders = 6
    MaxEvents = 4
    Kinds = {"phabricator", "bugzilla", "ical"}
    Items <- TwoItems
    Slots = {1, 2}
    InRange = {1}
    SizeOf <- Lengths
    AuthoredOf <- Authored
    Page = 1
    Start = 1
    MaxDate = 2
    MaxTasks = 2
    MaxConvs = 3
    MaxEdits = 3
    MaxLookups = 2
    MaxTexts = 3
    Passwords = {p1, p2}
    p1 = p1
    p2 = p2
    MaxMods = 2
    MaxTries = 2
    MaxWindows = 2

SPECIFICATION AnySpec
CHECK_DEADLOCK FALSE

INVARIANTS
    AccountInStep
    NewsAreTrue
    ServerIsMirrored
    ServersAreTrue
    CredentialsInStep

PROPERTY
    Answered
