SPECIFICATION AnySpec
CONSTANTS
    view1 = view1
    view2 = view2
    search = search
    derived = derived
    item = item
    inbox = inbox
    None = None
    Lists <- MCLists
    Kids <- MCKids
    Items <- MCItems
    Parent <- MCParent
    Folder <- MCFolder
    MaxEvents = 5
    Addresses = {e1}
    Persons = {p1, p2}
    Slots = {1, 2}
    MaxHits = 1
    MaxEmpty = 1
    MaxDeeds = 4
    Nobody = Nobody
    Unknown = Unknown
    s = s
    Flags = {s}
    Seen = s
    Flagged = s
    Letters = {1, 2, 3}
    Talk <- MCTalk
    Early = {1, 3}
    MaxOps = 2
    MaxChanges = 4
    a1 = a1
    a2 = a2
    f1 = f1
    f2 = f2
    f3 = f3
    Owners = {a1, a2}
    Dirs = {f1, f2, f3}
    Of <- MCOf
    Later = {f2, a2, f3}
    MaxActs = 6
    me = me
    x = x
    y = y
    Composers = {c1}
    People = {me, x, y}
    Me = me
    Alias = Alias
    Edited <- MCEdited
    MaxCrashes = 1
INVARIANTS
    BridgeInStep
    ContactsInStep
    AskedIsDone
    ComposeInStep
PROPERTIES
    SeeksMoveTheirView
CHECK_DEADLOCK FALSE
