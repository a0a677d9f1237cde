SPECIFICATION AnyFairSpec
CONSTANTS
    N = 2
    Flags = {"Seen"}
    GmailFlags = {"Seen", "Work"}
    Label = "Work"
    None = None
    Old = {1}
    Thread <- OneThread
    MaxUmids = 2
    MaxEvents = 4
    MaxOthers = 3
INVARIANTS
    TablesAccount
    AllInStep
PROPERTIES
    AllPlayed
CHECK_DEADLOCK FALSE
