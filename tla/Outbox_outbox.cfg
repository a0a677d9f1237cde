SPECIFICATION FairSpec
CONSTANTS
    None = None
    Absent = Absent
    Messages = {m1, m2}
    Existing = {m1}
    AccountTypes = {"append", "local"}
    MaxCommands = 4
    MaxFaults = 2
INVARIANTS
    SentOnce
    OutboxInStep
PROPERTIES
    DraftsStayHome
    SendsSettle
CHECK_DEADLOCK FALSE
