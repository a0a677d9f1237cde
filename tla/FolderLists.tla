----------------------------- MODULE FolderLists -----------------------------
(***************************************************************************)
(* The folders of an account: FoldersTOC, which holds them in memory in    *)
(* the order they are shown in; sync_folder_list of an IMAP account, which *)
(* makes them agree with the mailboxes of the server; and the virtual      *)
(* folders that the tasks of a feed account bring into being when they     *)
(* first name them (ensureLocalVirtualFolder).                             *)
(*                                                                         *)
(* A path is a sequence of names, and a name a number, for the order.  A   *)
(* task's folders are written, and put in the TOC, in one turn.            *)
(***************************************************************************)
EXTENDS Integers, Sequences, FiniteSets, SequencesExt

CONSTANTS
    Boxes,          \* paths of mailboxes that the server may have, beside the inbox
    InboxPath,      \* "INBOX", with its speculative name
    InboxNames,     \* what the server may call it
    OutboxPath,     \* local only; the server may have a mailbox of this name, too
    Virtual,        \* paths of virtual folders
    Workers,        \* tasks of a feed account
    Base,           \* of the digits of folder ids, 64 in the code
    Nil,
    MaxFolders,     \* bound: ids issued
    MaxEvents       \* bound: changes of the server, failures, restarts

Local == {OutboxPath}
Ids   == 0..(MaxFolders - 1)

VARIABLES
    kind,           \* "imap" or "feed"
    (* the server *)
    boxes, inboxName,
    (* the database *)
    stored,         \* folders by id
    owner,          \* of each id, the path its sync state was made for
    named,          \* ids that messages on disk are filed under
    (* FoldersTOC *)
    foldersById, items, folderSortStrings, nextFolderNum,
    pendingByPath,  \* _pendingFoldersByPath: ids
    (* tasks *)
    planned,        \* sync_folder_list has been planned
    job,            \* of each worker: paths it waits for, ids it will file under
    (* history *)
    listed,         \* the mailboxes when they were last listed
    issued,         \* paths that ids were issued for, with ids issued twice
    renamed, misfiled,
    events

folderVars == <<kind, boxes, inboxName, stored, owner, named, foldersById, items, folderSortStrings,
                nextFolderNum, pendingByPath, planned, job, listed, issued, renamed, misfiled, events>>

Event == events < MaxEvents /\ events' = events + 1

-----------------------------------------------------------------------------
(* Folders and their order. *)

LexBefore(s, t) ==
    \E i \in 1..Len(t) : /\ \A j \in 1..(i - 1) : j <= Len(s) /\ s[j] = t[j]
                         /\ i > Len(s) \/ s[i] < t[i]

\* The key of a folder in the database: encodeInt does not pad.
Key(id) == IF id < Base THEN <<id>> ELSE <<id \div Base, id % Base>>

Priority(type) == CASE type = "inbox" -> 1 [] type = "outbox" -> 2 [] OTHER -> 3

Meta(path, type, name, parent, serverPath) ==
    [path |-> path, type |-> type, name |-> name, parent |-> parent, serverPath |-> serverPath]

\* _makeFolderSortString, with the parents that are known by now.  Paths have two names at most.
SortString(known, folder) ==
    LET own(f) == <<Priority(f.type), f.name>>
    IN  IF folder.parent # Nil /\ known[folder.parent] # Nil
        THEN own(known[folder.parent]) \o own(folder)
        ELSE own(folder)

NoTOC == [byId |-> [i \in Ids |-> Nil], items |-> << >>, sort |-> << >>]

\* _addFolder, by binary search.
AddFolder(toc, entry) ==
    LET s == SortString(toc.byId, entry.folder)
        k == Cardinality({i \in DOMAIN toc.sort : LexBefore(toc.sort[i], s)})
    IN  [byId  |-> [toc.byId EXCEPT ![entry.id] = entry.folder],
         items |-> InsertAt(toc.items, k + 1, entry.id),
         sort  |-> InsertAt(toc.sort, k + 1, s)]

\* _removeFolderById.
RemoveFolder(toc, id) ==
    LET k == CHOOSE i \in DOMAIN toc.items : toc.items[i] = id
    IN  [byId |-> [toc.byId EXCEPT ![id] = Nil], items |-> RemoveAt(toc.items, k), sort |-> RemoveAt(toc.sort, k)]

TOC == [byId |-> foldersById, items |-> items, sort |-> folderSortStrings]

\* The TOC and the database after a task has added, changed and removed folders.
Write(toc, added, removed) ==
    LET after == FoldLeft(RemoveFolder, FoldLeft(AddFolder, toc, added), SetToSeq(removed))
    IN  /\ foldersById' = after.byId /\ items' = after.items /\ folderSortStrings' = after.sort
        /\ stored' = after.byId

Known == {i \in Ids : foldersById[i] # Nil}

\* foldersByPath; getCanonicalFolderByType.
AtPath(path)   == {i \in Known : foldersById[i].path = path}
IsMissing(type) == \A i \in Known : foldersById[i].type # type

Issued(entries) == issued \cup {<<e.id, e.folder.path>> : e \in Range(entries)}

-----------------------------------------------------------------------------
(* IMAP: sync_folder_list. *)

\* plan: the folders that must exist offline.
EnsureEssentialOfflineFolders ==
    /\ kind = "imap" /\ ~planned /\ planned' = TRUE
    /\ LET wanted == SelectSeq(<<Meta(InboxPath, "inbox", InboxPath[1], Nil, TRUE),
                                 Meta(OutboxPath, "outbox", OutboxPath[1], Nil, FALSE)>>,
                               LAMBDA f : IsMissing(f.type))
           added  == [i \in DOMAIN wanted |-> [id |-> nextFolderNum + i - 1, folder |-> wanted[i]]]
       IN  /\ nextFolderNum + Len(added) <= MaxFolders
           /\ nextFolderNum' = nextFolderNum + Len(added)
           /\ Write(TOC, added, {})
           /\ issued' = Issued(added)
    /\ UNCHANGED <<kind, boxes, inboxName, owner, named, pendingByPath, job, listed, renamed, misfiled, events>>

ParentPath(path) == SubSeq(path, 1, Len(path) - 1)

\* The folders that walkBoxes makes, parents before their children: ids in the order of the walk.
NewFolders(order) ==
    LET id(k)     == nextFolderNum + k - 1
        parent(p) == IF Len(p) = 1 THEN Nil
                     ELSE IF \E k \in DOMAIN order : order[k] = ParentPath(p)
                          THEN id(CHOOSE k \in DOMAIN order : order[k] = ParentPath(p))
                          ELSE CHOOSE i \in AtPath(ParentPath(p)) : TRUE
    IN  [k \in DOMAIN order |->
            [id |-> id(k), folder |-> Meta(order[k], "normal", Last(order[k]), parent(order[k]), TRUE)]]

\* Folders of the server whose path was not seen.
Dead == {i \in Known : foldersById[i].path \notin boxes \cup {InboxPath} /\ foldersById[i].serverPath}

\* execute: a box at the path of a local folder is taken for that folder; the
\* inbox gets the server's name for it in place, and keeps its sort string.
SyncFolders ==
    /\ kind = "imap" /\ planned /\ planned' = FALSE
    /\ LET new   == {p \in boxes : AtPath(p) = {}}
           inbox == CHOOSE i \in Known : foldersById[i].path = InboxPath
           toc   == [TOC EXCEPT !.byId[inbox].name = inboxName]
       IN  /\ nextFolderNum + Cardinality(new) <= MaxFolders
           /\ nextFolderNum' = nextFolderNum + Cardinality(new)
           /\ \E order \in SetToSeqs(new) :
                /\ \A j, k \in DOMAIN order : order[j] = ParentPath(order[k]) => j < k
                /\ Write(toc, NewFolders(order), Dead)
                /\ issued' = Issued(NewFolders(order))
           /\ renamed' = (renamed \/ foldersById[inbox].name # inboxName)
           /\ misfiled' = misfiled \ Dead
    /\ listed' = boxes
    /\ UNCHANGED <<kind, boxes, inboxName, owner, named, pendingByPath, job, events>>

\* The server is not reached: the task is over, until the next one.
SyncFails ==
    /\ planned /\ planned' = FALSE /\ Event
    /\ UNCHANGED <<kind, boxes, inboxName, stored, owner, named, foldersById, items, folderSortStrings,
                   nextFolderNum, pendingByPath, job, listed, issued, renamed, misfiled>>

\* Another client makes a mailbox, or deletes one with those below it, or the
\* server calls the inbox something else.
ServerChanges ==
    /\ kind = "imap" /\ Event
    /\ \/ /\ \E p \in Boxes \ boxes : /\ ParentPath(p) \in boxes \cup {InboxPath, << >>}
                                      /\ boxes' = boxes \cup {p}
          /\ UNCHANGED inboxName
       \/ \E p \in boxes : boxes' = {q \in boxes : ~IsPrefix(p, q)} /\ UNCHANGED inboxName
       \/ inboxName' \in InboxNames \ {inboxName} /\ UNCHANGED boxes
    /\ UNCHANGED <<kind, stored, owner, named, foldersById, items, folderSortStrings, nextFolderNum,
                   pendingByPath, planned, job, listed, issued, renamed, misfiled>>

\* The first sync of a folder makes its sync state; nobody deletes it with the folder.
SyncFolder(id) ==
    /\ kind = "imap" /\ id \in Known /\ foldersById[id].serverPath /\ owner[id] = Nil
    /\ owner' = [owner EXCEPT ![id] = foldersById[id].path]
    /\ UNCHANGED <<kind, boxes, inboxName, stored, named, foldersById, items, folderSortStrings,
                   nextFolderNum, pendingByPath, planned, job, listed, issued, renamed, misfiled, events>>

-----------------------------------------------------------------------------
(* Feeds: virtual folders. *)

Idle == [waits |-> {}, files |-> {}]

\* ensureLocalVirtualFolder: the folder is there, or pending, or becomes pending.
EnsureLocalVirtualFolder(t, path) ==
    /\ kind = "feed"
    /\ IF AtPath(path) # {}
       THEN /\ \E i \in AtPath(path) : /\ i \notin job[t].files
                                       /\ job' = [job EXCEPT ![t].files = @ \cup {i}]
            /\ UNCHANGED <<pendingByPath, nextFolderNum>>
       ELSE LET id == IF pendingByPath[path] # Nil THEN pendingByPath[path] ELSE nextFolderNum IN
            /\ path \notin job[t].waits /\ id < MaxFolders
            /\ job' = [job EXCEPT ![t] = [waits |-> @.waits \cup {path}, files |-> @.files \cup {id}]]
            /\ pendingByPath' = [pendingByPath EXCEPT ![path] = id]
            /\ nextFolderNum' = IF pendingByPath[path] # Nil THEN nextFolderNum ELSE nextFolderNum + 1
    /\ UNCHANGED <<kind, boxes, inboxName, stored, owner, named, foldersById, items, folderSortStrings,
                   planned, listed, issued, renamed, misfiled, events>>

\* _onTaskFinishing, of a task that succeeds: its pending folders are written with it.
Finish(t) ==
    /\ job[t].files # {}
    /\ LET mine  == {p \in job[t].waits : pendingByPath[p] # Nil}
           order == SetToSeq(mine)
           added == [k \in DOMAIN order |->
                       [id |-> pendingByPath[order[k]],
                        folder |-> Meta(order[k], "normal", Last(order[k]), Nil, FALSE)]]
       IN  /\ Write(TOC, added, {})
           /\ pendingByPath' = [p \in Virtual |-> IF p \in mine THEN Nil ELSE pendingByPath[p]]
           /\ issued' = Issued(added)
    /\ named' = named \cup job[t].files
    /\ job' = [job EXCEPT ![t] = Idle]
    /\ UNCHANGED <<kind, boxes, inboxName, owner, nextFolderNum, planned, listed, renamed, misfiled, events>>

\* Mutant of Fail: what the task waited for is no longer pending, whoever else waits.
FailForAll(t) ==
    /\ job[t].files # {} /\ Event
    /\ pendingByPath' = [p \in Virtual |-> IF p \in job[t].waits THEN Nil ELSE pendingByPath[p]]
    /\ job' = [job EXCEPT ![t] = Idle]
    /\ UNCHANGED <<kind, boxes, inboxName, stored, owner, named, foldersById, items, folderSortStrings,
                   nextFolderNum, planned, listed, issued, renamed, misfiled>>

\* Of one that fails: what no other task waits for is no longer pending.
Fail(t) ==
    /\ job[t].files # {} /\ Event
    /\ LET shared == UNION {job[o].waits : o \in Workers \ {t}}
       IN  pendingByPath' = [p \in Virtual |-> IF p \in job[t].waits \ shared THEN Nil ELSE pendingByPath[p]]
    /\ job' = [job EXCEPT ![t] = Idle]
    /\ UNCHANGED <<kind, boxes, inboxName, stored, owner, named, foldersById, items, folderSortStrings,
                   nextFolderNum, planned, listed, issued, renamed, misfiled>>

\* The process ends; FoldersTOC is made from the database, in the order of its
\* keys, and issues ids from the highest that is left.
Restart ==
    /\ Event
    /\ LET left  == {i \in Ids : stored[i] # Nil}
           order == SetToSortSeq(left, LAMBDA a, b : LexBefore(Key(a), Key(b)))
           toc   == FoldLeft(AddFolder, NoTOC,
                             [k \in DOMAIN order |-> [id |-> order[k], folder |-> stored[order[k]]]])
       IN  /\ foldersById' = toc.byId /\ items' = toc.items /\ folderSortStrings' = toc.sort
           /\ nextFolderNum' = IF left = {} THEN 0 ELSE 1 + CHOOSE i \in left : \A j \in left : j <= i
           /\ misfiled' = {i \in left : stored[i].parent # Nil /\ LexBefore(Key(i), Key(stored[i].parent))}
    /\ pendingByPath' = [p \in Virtual |-> Nil] /\ job' = [t \in Workers |-> Idle]
    /\ renamed' = FALSE
    /\ UNCHANGED <<kind, boxes, inboxName, stored, owner, named, planned, listed, issued>>

-----------------------------------------------------------------------------
FolderInit ==
    /\ kind \in {"imap", "feed"}
    /\ boxes \in {{}, {p \in Boxes : Len(p) = 1}} /\ inboxName \in InboxNames
    /\ foldersById = NoTOC.byId /\ items = << >> /\ folderSortStrings = << >> /\ nextFolderNum = 0
    /\ stored = NoTOC.byId /\ owner = [i \in Ids |-> Nil] /\ named = {}
    /\ pendingByPath = [p \in Virtual |-> Nil] /\ planned = FALSE /\ job = [t \in Workers |-> Idle]
    /\ listed = {} /\ issued = {} /\ renamed = FALSE /\ misfiled = {} /\ events = 0

FolderNext ==
    \/ EnsureEssentialOfflineFolders \/ SyncFolders \/ SyncFails \/ ServerChanges
    \/ \E id \in Ids : SyncFolder(id)
    \/ \E t \in Workers, path \in Virtual : EnsureLocalVirtualFolder(t, path)
    \/ \E t \in Workers : Finish(t) \/ Fail(t)
    \/ Restart

FolderSpec == FolderInit /\ [][FolderNext]_folderVars

-----------------------------------------------------------------------------
(* Properties. *)

\* The folders of the server are the mailboxes it had when they were listed last,
\* but for one at the path of a local folder; each path has one folder, whose
\* parent is the folder of the path above it; and every message is filed under
\* folders that there are.
FoldersAreBoxes ==
    /\ foldersById = stored
    /\ {foldersById[i].path : i \in {j \in Known : foldersById[j].serverPath}} \ {InboxPath} = listed \ Local
    /\ \A i, j \in Known : foldersById[i].path = foldersById[j].path => i = j
    /\ \A i \in Known : foldersById[i].parent # Nil =>
         foldersById[i].parent \in AtPath(ParentPath(foldersById[i].path))
    /\ named \subseteq Known

\* Folders are shown in the order of their sort strings, each once, and a child below its parent.
\* Excepted are lists in which the inbox got a new name, and folders that
\* were loaded before their parents.
ListIsInOrder ==
    /\ Range(items) = Known /\ Len(items) = Cardinality(Known)
    /\ ~renamed /\ misfiled = {} =>
         \A j, k \in DOMAIN items : j < k =>
             ~LexBefore(SortString(foldersById, foldersById[items[k]]),
                        SortString(foldersById, foldersById[items[j]]))

\* Unless its id was that of another folder before, a folder has its own sync state.
SyncStateIsOwn ==
    \A i \in Known :
        (\A e \in issued : e[1] = i => e[2] = foldersById[i].path) => owner[i] \in {Nil, foldersById[i].path}

=============================================================================
