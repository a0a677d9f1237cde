------------------------------- MODULE MailData -------------------------------
(***************************************************************************)
(* What MailDB keeps of a conversation: the records of the conversation    *)
(* and its messages, the rows that list them by folder, the counts that    *)
(* triggers maintain, the message cache, and the lists of messages of a    *)
(* conversation and of a folder (both ConversationTOC).                    *)
(*                                                                         *)
(* A task reads the conversation and its messages (beginMutate), changes   *)
(* or adds messages, churns the conversation and writes (finishMutate),    *)
(* which emits its events at once.  One task runs at a time (TaskManager). *)
(* Reads are served in the order of their transactions, so what a read     *)
(* finds is fixed when it is issued, although it is told later.            *)
(***************************************************************************)
EXTENDS Integers, Sequences, FiniteSets, SequencesExt

CONSTANTS
    Msgs,        \* messages of the conversation, numbered, for the order of lists
    Drafts,      \* those of them that are drafts
    Folders,
    Dates,
    Watched,     \* the folder whose list of messages is open at times
    Conv,        \* the list of the conversation
    Absent,      \* no entry in a cache
    None,        \* no record
    MaxWrites,   \* bound: tasks
    MaxReads     \* bound: lists opened, reads of single messages, cache drops

Views == {Conv, Watched}

VARIABLES
    (* the database *)
    msgs, conv,
    convRows, msgRows,   \* TBL_CONV_IDS_BY_FOLDER, TBL_MSG_IDS_BY_FOLDER
    unread, count,       \* localUnreadConversations, localMessageCount of each folder
    (* memory *)
    cache,               \* messageCache
    task,                \* what the task that runs has read
    reads,               \* reads of a message under way, with what they find
    tocs,                \* of each view: closed, loading or live, rows, buffered events
    (* history *)
    ids,                 \* messages that have existed: ids are not issued again
    crowded,             \* an unread conversation was added in several folders at once
    ghosts,              \* of each view: messages that have left the folder alive
    redated,             \* messages whose date changed while they were in the cache
    overtaken,           \* messages that were written while they were read
    used

disk    == <<msgs, conv, convRows, msgRows, unread, count>>
history == <<ids, crowded, ghosts, redated, overtaken>>
vars    == <<disk, cache, task, reads, tocs, history, used>>

Message == [date : Dates, folders : SUBSET Folders \ {{}}, seen : BOOLEAN]
NoTask  == [stage |-> "none", pre |-> None, shared |-> {}]
Closed  == [phase |-> "closed", rows |-> << >>, buffered |-> << >>, found |-> None]

-----------------------------------------------------------------------------
(* Churn, and the rows of a conversation. *)

Latest(dates) == CHOOSE d \in dates : \A e \in dates : e <= d

\* churnConversationDriver, or null when no message is left; drafts count for the
\* date of a conversation of drafts only.
Churned(after) ==
    LET left  == {m \in Msgs : after[m] # None}
        dated == IF left \subseteq Drafts THEN left ELSE left \ Drafts
    IN  IF left = {} THEN None
        ELSE [date    |-> Latest({after[m].date : m \in dated}),
              folders |-> UNION {after[m].folders : m \in left},
              unread  |-> \E m \in left : ~after[m].seen]

FoldersOf(record) == IF record = None THEN {} ELSE record.folders

\* The rows that _processConvAdditions and _processConvMutations leave.
ConvRowsAfter(old, new) ==
    IF new = None \/ old = None \/ old.date # new.date
    THEN (convRows \ {<<f, old.date>> : f \in FoldersOf(old)})
         \cup {<<f, new.date>> : f \in FoldersOf(new)}
    ELSE (convRows \ {<<f, new.date>> : f \in old.folders \ new.folders})
         \cup {<<f, new.date>> : f \in new.folders \ old.folders}

\* The unread_count trigger.  A new conversation is announced once for each
\* of its folders, and each time counted in all of them.
UnreadAfter(old, new) ==
    LET Delta(f) ==
            CASE old = None /\ new.unread -> IF f \in new.folders THEN Cardinality(new.folders) ELSE 0
              [] old # None /\ new # None /\ old.unread /\ new.unread ->
                   (IF f \in new.folders \ old.folders THEN 1 ELSE 0)
                   - (IF f \in old.folders \ new.folders THEN 1 ELSE 0)
              [] old # None /\ new # None /\ ~old.unread /\ new.unread ->
                   IF f \in new.folders THEN 1 ELSE 0
              [] old # None /\ old.unread -> IF f \in old.folders THEN -1 ELSE 0
              [] OTHER -> 0
    IN  IF old = None /\ new = None THEN unread ELSE [f \in Folders |-> unread[f] + Delta(f)]

-----------------------------------------------------------------------------
(* Messages: their rows, their counts, and the events of a write. *)

MsgRowsOf(m, record) == {<<f, record.date, m>> : f \in FoldersOf(record)}

\* _processMessageAdditions and _processMessageMutations, for the messages in touched.
MsgRowsAfter(pre, after, touched) ==
    LET Gone(m)  == IF after[m] = None \/ pre[m].date # after[m].date THEN MsgRowsOf(m, pre[m])
                    ELSE {<<f, after[m].date, m>> : f \in pre[m].folders \ after[m].folders}
        Added(m) == IF pre[m] = None \/ after[m] = None \/ pre[m].date # after[m].date
                    THEN MsgRowsOf(m, after[m])
                    ELSE {<<f, after[m].date, m>> : f \in after[m].folders \ pre[m].folders}
    IN  (msgRows \ UNION {Gone(m) : m \in {t \in touched : pre[t] # None}})
        \cup UNION {Added(m) : m \in touched}

\* The message_count trigger.
CountAfter(pre, after, touched) ==
    [f \in Folders |->
        count[f] + Cardinality({m \in touched : f \in FoldersOf(after[m]) \ FoldersOf(pre[m])})
                 - Cardinality({m \in touched : f \in FoldersOf(pre[m]) \ FoldersOf(after[m])})]

DateOf(record) == IF record = None THEN 0 ELSE record.date

Concerns(v, pre, after, m) == v = Conv \/ v \in FoldersOf(pre[m]) \cup FoldersOf(after[m])

\* The tocChange events of a view: additions come before mutations.
Events(v, pre, after, touched) ==
    LET Event(m) ==
            [id |-> m, preDate |-> DateOf(pre[m]), postDate |-> DateOf(after[m]),
             item |-> after[m] # None,
             freshlyAdded |-> \/ pre[m] = None
                              \/ v # Conv /\ v \in FoldersOf(after[m]) \ FoldersOf(pre[m])]
        Of(ms) == LET order == SetToSortSeq({m \in ms : Concerns(v, pre, after, m)}, LAMBDA a, b : a < b)
                  IN  [i \in DOMAIN order |-> Event(order[i])]
    IN  Of({m \in touched : pre[m] = None}) \o Of({m \in touched : pre[m] # None})

-----------------------------------------------------------------------------
(* ConversationTOC. *)

Before(a, b) == a.date > b.date \/ (a.date = b.date /\ a.id > b.id)

SortedRows(set) == SetToSortSeq(set, Before)

Inserted(rows, row) ==
    SelectSeq(rows, LAMBDA r : Before(r, row)) \o <<row>> \o SelectSeq(rows, LAMBDA r : ~Before(r, row))

\* bsearchMaybeExists answers null when there is no such row, which splice takes for 0.
Spliced(rows, row) ==
    IF \E i \in DOMAIN rows : rows[i] = row
    THEN RemoveAt(rows, CHOOSE i \in DOMAIN rows : rows[i] = row)
    ELSE IF rows = << >> THEN << >> ELSE Tail(rows)

\* A message that has left the folder is an item, and not fresh: it stays.
OnTOCChange(rows, change) ==
    LET old == [id |-> change.id, date |-> change.preDate]
        new == [id |-> change.id, date |-> change.postDate]
    IN  CASE change.freshlyAdded -> Inserted(rows, new)
          [] ~change.freshlyAdded /\ ~change.item -> Spliced(rows, old)
          [] ~change.freshlyAdded /\ change.item /\ change.preDate # change.postDate ->
               Inserted(Spliced(rows, old), new)
          [] OTHER -> rows

Replayed(rows, changes) == FoldLeft(OnTOCChange, rows, changes)

\* The lists after a write; onConvChange empties the one of a conversation that is gone.
TocsAfter(pre, after, touched) ==
    [v \in Views |->
        LET t       == tocs[v]
            changes == Events(v, pre, after, touched)
            rows    == IF v = Conv /\ Churned(after) = None THEN << >> ELSE t.rows
        IN  CASE t.phase = "live"    -> [t EXCEPT !.rows = Replayed(rows, changes)]
              [] t.phase = "loading" -> [t EXCEPT !.buffered = @ \o changes]
              [] OTHER               -> t]

Listed(v) == {[id |-> m, date |-> msgs[m].date] :
                 m \in {x \in Msgs : msgs[x] # None /\ (v = Conv \/ v \in msgs[x].folders)}}

\* query.execute: the read is issued and events are buffered from now on.
Open(v) ==
    /\ used.reads < MaxReads /\ used' = [used EXCEPT !.reads = @ + 1]
    /\ tocs[v].phase = "closed"
    /\ tocs' = [tocs EXCEPT ![v] = [phase |-> "loading", rows |-> SortedRows(Listed(v)), buffered |-> << >>,
                                   found |-> IF v = Conv THEN msgs ELSE None]]
    /\ ghosts' = [ghosts EXCEPT ![v] = {}]
    /\ UNCHANGED <<disk, cache, task, reads, ids, crowded, redated, overtaken>>

\* The rows arrive (for a conversation with the messages, which are cached) and
\* query.bind plays the buffered events.
Loaded(v) ==
    /\ tocs[v].phase = "loading"
    /\ tocs' = [tocs EXCEPT ![v] = [phase |-> "live", rows |-> Replayed(@.rows, @.buffered),
                                    buffered |-> << >>, found |-> None]]
    /\ cache' = [m \in Msgs |-> IF v = Conv /\ cache[m] = Absent /\ tocs[v].found[m] # None
                                THEN tocs[v].found[m] ELSE cache[m]]
    /\ UNCHANGED <<disk, task, reads, history, used>>

Close(v) ==
    /\ tocs[v].phase = "live"
    /\ tocs' = [tocs EXCEPT ![v] = Closed]
    /\ UNCHANGED <<disk, cache, task, reads, history, used>>

-----------------------------------------------------------------------------
(* Reads of messages, and the cache. *)

\* MailDB.read for a row that a list shows; what is in the cache is not read.
ReadMessage(m) ==
    /\ used.reads < MaxReads
    /\ cache[m] = Absent /\ msgs[m] # None /\ \A r \in reads : r.id # m
    /\ reads' = reads \cup {[id |-> m, found |-> msgs[m]]}
    /\ used' = [used EXCEPT !.reads = @ + 1]
    /\ UNCHANGED <<disk, cache, task, tocs, history>>

ReadAnswers ==
    \E r \in reads :
        /\ reads' = reads \ {r}
        /\ cache' = IF cache[r.id] = Absent THEN [cache EXCEPT ![r.id] = r.found] ELSE cache
        /\ UNCHANGED <<disk, task, tocs, history, used>>

BeingRead == {r.id : r \in reads} \cup (IF tocs[Conv].phase = "loading" THEN Msgs ELSE {})

\* The time-out of _considerCachePressure.
EmptyCache ==
    /\ used.reads < MaxReads /\ used' = [used EXCEPT !.reads = @ + 1]
    /\ \E m \in Msgs : cache[m] # Absent
    /\ cache' = [m \in Msgs |-> Absent]
    /\ task' = [task EXCEPT !.shared = {}]
    /\ redated' = {}
    /\ overtaken' = overtaken \cap BeingRead
    /\ UNCHANGED <<disk, reads, tocs, ids, crowded, ghosts>>

-----------------------------------------------------------------------------
(* Tasks. *)

\* beginMutate with messagesByConversation reads the database whatever is cached;
\* a message that is not cached is, and the task has the very object that is.
BeginMutate ==
    /\ task.stage = "none" /\ used.writes < MaxWrites
    /\ LET missing == {m \in Msgs : msgs[m] # None /\ cache[m] = Absent}
       IN  /\ cache' = [m \in Msgs |-> IF m \in missing THEN msgs[m] ELSE cache[m]]
           /\ task' = [stage |-> "mutate", pre |-> msgs, shared |-> missing]
    /\ UNCHANGED <<disk, reads, tocs, history, used>>

\* What is deleted leaves the cache, what is added or modified enters it; when the
\* date changes nobody tells the cache, and only a task that changed the very
\* object that is cached has changed it there too.
CacheAfter(pre, after, touched) ==
    [m \in Msgs |->
        CASE m \notin touched -> cache[m]
          [] m \in touched /\ after[m] = None -> Absent
          [] m \in touched /\ after[m] # None /\ pre[m] # None /\ pre[m].date # after[m].date ->
               IF m \in task.shared THEN after[m] ELSE cache[m]
          [] OTHER -> after[m]]

\* finishMutate, with the messages in touched changed to what they are in after.
FinishMutate(after, touched) ==
    LET pre == task.pre
        new == Churned(after)
    IN  /\ task.stage = "mutate" /\ touched # {}
        /\ msgs' = after /\ conv' = new
        /\ convRows' = ConvRowsAfter(conv, new)
        /\ msgRows' = MsgRowsAfter(pre, after, touched)
        /\ unread' = UnreadAfter(conv, new)
        /\ count' = CountAfter(pre, after, touched)
        /\ cache' = CacheAfter(pre, after, touched)
        /\ tocs' = TocsAfter(pre, after, touched)
        /\ task' = NoTask
        /\ ids' = ids \cup {m \in Msgs : after[m] # None}
        /\ crowded' = (crowded \/ (conv = None /\ new # None /\ new.unread /\ Cardinality(new.folders) > 1))
        /\ ghosts' = [v \in Views |->
                        ghosts[v] \cup {m \in touched : /\ after[m] # None
                                                        /\ v \in FoldersOf(pre[m]) \ FoldersOf(after[m])}]
        /\ redated' = redated \cup {m \in touched \ task.shared :
                                      /\ pre[m] # None /\ after[m] # None /\ cache[m] # Absent
                                      /\ pre[m].date # after[m].date}
        /\ overtaken' = overtaken \cup (touched \cap BeingRead)
        /\ used' = [used EXCEPT !.writes = @ + 1]
        /\ UNCHANGED reads

Changed(m, record) == [task.pre EXCEPT ![m] = record]
Known == {m \in Msgs : task.pre[m] # None}

\* sync_message and draft_create add a message to a folder.
AddMessage(m, date, f, seen) ==
    /\ task.stage = "mutate" /\ m \notin ids
    /\ FinishMutate(Changed(m, [date |-> date, folders |-> {f}, seen |-> seen]), {m})

\* Gmail's sync_conv adds a whole conversation, each message with its labels.
AddConversation(ms, date, folders, seen) ==
    /\ task.stage = "mutate" /\ conv = None /\ ms # {} /\ ms \cap (ids \cup Drafts) = {}
    /\ FinishMutate([m \in Msgs |-> IF m \in ms
                                   THEN [date |-> date, folders |-> folders[m], seen |-> seen]
                                   ELSE None], ms)

\* store_flags, and sync_conv told of other flags.
ChangeFlags(m) ==
    /\ task.stage = "mutate" /\ m \in Known
    /\ FinishMutate(Changed(m, [task.pre[m] EXCEPT !.seen = ~@]), {m})

\* A send, its abort and store_labels change the folders of a message.
ChangeFolders(m, folders) ==
    /\ task.stage = "mutate" /\ m \in Known /\ task.pre[m].folders # folders
    /\ FinishMutate(Changed(m, [task.pre[m] EXCEPT !.folders = folders]), {m})

\* draft_save.
ChangeDate(m, date) ==
    /\ task.stage = "mutate" /\ m \in Known \cap Drafts /\ task.pre[m].date # date
    /\ FinishMutate(Changed(m, [task.pre[m] EXCEPT !.date = date]), {m})

\* sync_conv told of deletions, draft_delete.
RemoveMessages(ms) ==
    /\ task.stage = "mutate" /\ ms # {} /\ ms \subseteq Known
    /\ FinishMutate([m \in Msgs |-> IF m \in ms THEN None ELSE task.pre[m]], ms)

-----------------------------------------------------------------------------
Init ==
    /\ msgs = [m \in Msgs |-> None] /\ conv = None
    /\ convRows = {} /\ msgRows = {}
    /\ unread = [f \in Folders |-> 0] /\ count = [f \in Folders |-> 0]
    /\ cache = [m \in Msgs |-> Absent] /\ task = NoTask /\ reads = {}
    /\ tocs = [v \in Views |-> Closed]
    /\ ids = {} /\ crowded = FALSE /\ ghosts = [v \in Views |-> {}]
    /\ redated = {} /\ overtaken = {}
    /\ used = [writes |-> 0, reads |-> 0]

Next ==
    \/ BeginMutate
    \/ \E m \in Msgs, date \in Dates, f \in Folders, seen \in BOOLEAN : AddMessage(m, date, f, seen)
    \/ \E ms \in SUBSET Msgs, date \in Dates, seen \in BOOLEAN :
         \E folders \in [ms -> SUBSET Folders \ {{}}] : AddConversation(ms, date, folders, seen)
    \/ \E m \in Msgs : ChangeFlags(m)
    \/ \E m \in Msgs, folders \in SUBSET Folders \ {{}} : ChangeFolders(m, folders)
    \/ \E m \in Msgs, date \in Dates : ChangeDate(m, date)
    \/ \E ms \in SUBSET Msgs : RemoveMessages(ms)
    \/ \E v \in Views : Open(v) \/ Loaded(v) \/ Close(v)
    \/ \E m \in Msgs : ReadMessage(m)
    \/ ReadAnswers
    \/ EmptyCache

Spec == Init /\ [][Next]_vars

-----------------------------------------------------------------------------
(* Properties. *)

TypeOK ==
    /\ msgs \in [Msgs -> Message \cup {None}]
    /\ cache \in [Msgs -> Message \cup {None, Absent}]
    /\ \A v \in Views : tocs[v].phase \in {"closed", "loading", "live"}
    /\ task.shared \subseteq Msgs /\ overtaken \subseteq Msgs

\* A list that is open shows exactly the messages that the database has for it, in
\* order, whatever was written while it was loaded; but for messages that have
\* left a folder alive, which its list of messages keeps.
ListsAreExact ==
    \A v \in Views : tocs[v].phase = "live" =>
        SelectSeq(tocs[v].rows, LAMBDA r : r.id \notin ghosts[v])
            = SortedRows({r \in Listed(v) : r.id \notin ghosts[v]})

\* The rows by folder and the counts agree with the records.  The count of unread
\* conversations does unless one was added to several folders at once.
IndexAndCountsAgree ==
    /\ convRows = {<<f, DateOf(conv)>> : f \in FoldersOf(conv)}
    /\ msgRows = UNION {MsgRowsOf(m, msgs[m]) : m \in Msgs}
    /\ \A f \in Folders :
         /\ count[f] = Cardinality({m \in Msgs : f \in FoldersOf(msgs[m])})
         /\ ~crowded => unread[f] = (IF f \in FoldersOf(conv) /\ conv.unread THEN 1 ELSE 0)

\* A message that is cached is as it is in the database, unless its date changed
\* while it was cached, or it was written while it was read.
CacheIsCurrent ==
    \A m \in Msgs \ (redated \cup overtaken) : cache[m] \in {Absent, msgs[m]}

=============================================================================
