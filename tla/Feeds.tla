-------------------------------- MODULE Feeds --------------------------------
(***************************************************************************)
(* Accounts that show what is not mail as conversations: the revisions of  *)
(* Phabricator, the bugs of Bugzilla and the events of a calendar (ical).  *)
(* sync_refresh asks what has changed and makes a task for each item; the  *)
(* tasks sync_drev and sync_bug fetch theirs, and sync_uid carries what it *)
(* is to write.  A task becomes the messages of one conversation.          *)
(*                                                                         *)
(* An item has slots: transactions, the events of a bug's history, the     *)
(* occurrences of a calendar event.  Dates are seconds.  The tasks are     *)
(* simple tasks: once planned, they are in memory only.                    *)
(***************************************************************************)
EXTENDS Integers, Sequences, FiniteSets, SequencesExt, FiniteSetsExt

CONSTANTS
    Kinds,          \* SUBSET {"phabricator", "bugzilla", "ical"}
    Items,          \* 1..n: their ids, and those of their conversations unless it is a calendar
    Slots,          \* 1..n
    InRange,        \* occurrences within the range that is synced, which never moves
    SizeOf,         \* lengths of the comments 1..n; 0 is a change of attributes
    AuthoredOf,     \* of each, what is left of it without quotes and blank ends
    Page,           \* revisions that one search returns, 100 on the server
    Start,          \* the date from which a new account syncs
    Nil,
    MaxDate, MaxTasks, MaxConvs, MaxEdits   \* bounds

Convs == 1..MaxConvs

VARIABLES
    feed,
    (* the server *)
    now,
    server,         \* of each item: when it changed last, its diff, and its slots
    (* the sync state *)
    cursor,         \* lastDateModifiedEpochSecs, lastChangeDatestamp
    known,          \* uidToConvIdAndLastModified
    nextConvId,
    (* tasks *)
    tasks,          \* in the order they were made
    job,            \* the sync_drev that runs, between its two answers
    (* the database *)
    convs,          \* conversations: the slots they were churned from, the diff
    messages,       \* by conversation and slot
    (* history *)
    lost,           \* conversations with a task that failed, or that the process did not survive
    overtaken,      \* conversations with a task that ran after a later one
    sameSecond,     \* items that changed twice in one second
    edits

feedVars == <<feed, now, server, cursor, known, nextConvId, tasks, job, convs, messages, lost, overtaken, sameSecond, edits>>

Empty      == [s \in Slots |-> Nil]
Filled(of) == {s \in Slots : of[s] # Nil}
Edit       == edits < MaxEdits /\ edits' = edits + 1
Calendar   == feed = "ical"

-----------------------------------------------------------------------------
(* The server. *)

\* An item changes, and with it the date of its last change.
Changed(i, item) ==
    /\ server' = [server EXCEPT ![i] = [item EXCEPT !.stamp = now]]
    /\ sameSecond' = IF server[i].stamp = now THEN sameSecond \cup {i} ELSE sameSecond
    /\ Edit
    /\ UNCHANGED <<feed, now, cursor, known, nextConvId, tasks, job, convs, messages, lost, overtaken>>

NextSlots(i) ==
    LET free == Slots \ Filled(server[i].slots)
    IN  IF Calendar \/ free = {} THEN free ELSE {CHOOSE s \in free : \A t \in free : s <= t}

\* Something new: a comment, a change of attributes with a new diff, an occurrence.
Adds(i) ==
    \E s \in NextSlots(i), text \in IF Calendar THEN {1} ELSE {0, 1} :
        /\ Changed(i, [server[i] EXCEPT !.slots[s] = [text |-> text, modified |-> now],
                                        !.diff     = IF text = 0 THEN @ + 1 ELSE @])

\* A comment is edited, an occurrence is changed.
Edits(i) ==
    \E s \in Filled(server[i].slots), text \in DOMAIN SizeOf :
        /\ feed = "bugzilla" \/ text <= 2
        /\ server[i].slots[s].text \notin {0, text}
        /\ Changed(i, [server[i] EXCEPT !.slots[s] = [text |-> text, modified |-> now]])

\* An occurrence is deleted, and with the last the event.
Drops(i) ==
    /\ Calendar
    /\ \E s \in Filled(server[i].slots) : Changed(i, [server[i] EXCEPT !.slots[s] = Nil])

Passes ==
    /\ now < MaxDate /\ now' = now + 1
    /\ UNCHANGED <<feed, server, cursor, known, nextConvId, tasks, job, convs, messages, lost, overtaken, sameSecond, edits>>

There == {i \in Items : Filled(server[i].slots) # {}}

-----------------------------------------------------------------------------
(* sync_refresh. *)

\* foundDrev and foundBug name the item; a sync_uid has the slots with it.
Task(conv, slots) == [conv |-> conv, slots |-> slots, planned |-> FALSE]

\* Ties are in the order of ids.
Older(i, j) == server[i].stamp < server[j].stamp \/ (server[i].stamp = server[j].stamp /\ i < j)

\* What one search returns: a page of revisions with the oldest change first, or every bug.
FoundSince(from) ==
    LET after == {i \in There : server[i].stamp >= from}
        older(i) == {j \in after : Older(j, i)}
    IN  IF feed = "bugzilla" THEN after ELSE {i \in after : Cardinality(older(i)) < Page}

\* Mutant of Highest: a cursor that is not inclusive.
HighestPlusOne(found, from) == IF found = {} THEN from ELSE 1 + Max({server[i].stamp : i \in found})

\* The cursor after the items found; without any it stays.
Highest(found, from) == IF found = {} THEN from ELSE Max({server[i].stamp : i \in found})

\* execute, for revisions and bugs.
RefreshByDate ==
    /\ ~Calendar /\ job = Nil
    /\ LET from  == IF cursor = Nil THEN Start ELSE cursor
           found == FoundSince(from)
       IN  /\ Len(tasks) + Cardinality(found) <= MaxTasks
           /\ cursor' = Highest(found, from)
           /\ tasks' = tasks \o SetToSeq({Task(i, Empty) : i \in found})
    /\ UNCHANGED <<feed, now, server, known, nextConvId, job, convs, messages, lost, overtaken, sameSecond, edits>>

\* processEvents: a new conversation for each uid that is new, a task for each that
\* is new or has another date, and one without events for each that is gone.
RefreshByUid ==
    /\ Calendar
    /\ LET new     == There \ DOMAIN known
           number  == CHOOSE f \in [new -> nextConvId..(nextConvId + Cardinality(new) - 1)] : IsInjective(f)
           conv(i) == IF i \in new THEN number[i] ELSE known[i].conv
           changed == new \cup {i \in There \cap DOMAIN known : known[i].stamp # server[i].stamp}
           gone    == DOMAIN known \ There
       IN  /\ nextConvId + Cardinality(new) <= MaxConvs + 1
           /\ Len(tasks) + Cardinality(changed \cup gone) <= MaxTasks
           /\ nextConvId' = nextConvId + Cardinality(new)
           /\ known' = [i \in There |-> [conv |-> conv(i), stamp |-> server[i].stamp]]
           /\ tasks' = tasks \o SetToSeq({Task(conv(i), server[i].slots) : i \in changed})
                             \o SetToSeq({Task(known[i].conv, Empty) : i \in gone})
    /\ UNCHANGED <<feed, now, server, cursor, job, convs, messages, lost, overtaken, sameSecond, edits>>

-----------------------------------------------------------------------------
(* sync_drev, sync_bug and sync_uid. *)

\* In the order they were made.
Plan(k) ==
    /\ k \in DOMAIN tasks /\ ~tasks[k].planned /\ job = Nil
    /\ \A j \in 1..(k - 1) : tasks[j].planned
    /\ tasks' = [tasks EXCEPT ![k].planned = TRUE]
    /\ UNCHANGED <<feed, now, server, cursor, known, nextConvId, job, convs, messages, lost, overtaken, sameSecond, edits>>

Ready(k) == k \in DOMAIN tasks /\ tasks[k].planned /\ job = Nil

\* sync_drev: the revision and its transactions are asked for in parallel, and answered at two moments.
StartDrev(k) ==
    /\ feed = "phabricator" /\ Ready(k)
    /\ tasks' = RemoveAt(tasks, k)
    /\ job' = [conv |-> tasks[k].conv, diff |-> Nil, slots |-> Nil]
    /\ UNCHANGED <<feed, now, server, cursor, known, nextConvId, convs, messages, lost, overtaken, sameSecond, edits>>

DetailsAnswer ==
    /\ job # Nil /\ job.diff = Nil
    /\ job' = [job EXCEPT !.diff = server[job.conv].diff]
    /\ UNCHANGED <<feed, now, server, cursor, known, nextConvId, tasks, convs, messages, lost, overtaken, sameSecond, edits>>

TransactionsAnswer ==
    /\ job # Nil /\ job.slots = Nil
    /\ job' = [job EXCEPT !.slots = server[job.conv].slots]
    /\ UNCHANGED <<feed, now, server, cursor, known, nextConvId, tasks, convs, messages, lost, overtaken, sameSecond, edits>>

\* chewTransaction: a message of the same date stays.
ChewTransaction(old, tx) == IF old # Nil /\ tx # Nil /\ old.modified = tx.modified THEN old ELSE tx

\* The patch is fetched unless the conversation has that of the diff.
FinishDrev ==
    /\ job # Nil /\ job.diff # Nil /\ job.slots # Nil
    /\ LET c == job.conv IN
       /\ messages' = [messages EXCEPT ![c] = [s \in Slots |-> ChewTransaction(@[s], job.slots[s])]]
       /\ convs' = [convs EXCEPT ![c] = [of |-> Filled(job.slots), diff |-> job.diff]]
       /\ lost' = lost \ {c}
    /\ job' = Nil
    /\ UNCHANGED <<feed, now, server, cursor, known, nextConvId, tasks, overtaken, sameSecond, edits>>

\* _chewEvent: a message stays if it has no plain text, or one whose authored part is as long
\* as the comment is now, with its quotes: the same comment may be written again, and an
\* edited one pass for the same.
NoText(text)      == text = 0 \/ SizeOf[text] = 0
Stays(old, event) == old # Nil /\ (NoText(old.text) \/ AuthoredOf[old.text] = SizeOf[event.text])

\* sync_bug: the conversation is made of the events that are new or changed, and cannot be made of none.
ExecuteBug(k) ==
    /\ feed = "bugzilla" /\ Ready(k)
    /\ tasks' = RemoveAt(tasks, k)
    /\ LET c       == tasks[k].conv
           events  == server[c].slots
           written == {s \in Filled(events) : ~Stays(messages[c][s], events[s])}
       IN  /\ IF written = {} THEN UNCHANGED <<messages, convs>>
              ELSE /\ messages' = [messages EXCEPT ![c] = [s \in Slots |-> IF s \in written THEN events[s] ELSE @[s]]]
                   /\ convs' = [convs EXCEPT ![c] = [of |-> written, diff |-> Nil]]
           /\ lost' = lost \ {c}
    /\ UNCHANGED <<feed, now, server, cursor, known, nextConvId, job, overtaken, sameSecond, edits>>

\* sync_uid: every occurrence in range is written; without one the conversation, and its messages, go.
ExecuteUid(k) ==
    /\ Calendar /\ Ready(k)
    /\ tasks' = RemoveAt(tasks, k)
    /\ LET c     == tasks[k].conv
           found == Filled(tasks[k].slots) \cap InRange
       IN  /\ IF found = {}
              THEN /\ convs' = [convs EXCEPT ![c] = Nil]
                   /\ messages' = [messages EXCEPT ![c] = Empty]
              ELSE /\ convs' = [convs EXCEPT ![c] = [of |-> found, diff |-> Nil]]
                   /\ messages' = [messages EXCEPT ![c] = [s \in Slots |-> IF s \in found THEN tasks[k].slots[s] ELSE @[s]]]
           /\ overtaken' = IF \E j \in DOMAIN tasks : j < k /\ tasks[j].conv = c
                           THEN overtaken \cup {c} ELSE overtaken
    /\ UNCHANGED <<feed, now, server, cursor, known, nextConvId, job, lost, sameSecond, edits>>

\* The execution fails, and the task is gone.
Fails ==
    /\ \/ /\ job # Nil /\ job' = Nil /\ lost' = lost \cup {job.conv} /\ UNCHANGED tasks
       \/ \E k \in DOMAIN tasks : /\ feed # "phabricator" /\ Ready(k)
                                  /\ tasks' = RemoveAt(tasks, k)
                                  /\ lost' = lost \cup {tasks[k].conv}
                                  /\ UNCHANGED job
    /\ Edit
    /\ UNCHANGED <<feed, now, server, cursor, known, nextConvId, convs, messages, overtaken, sameSecond>>

\* The process ends: what was planned goes with it.
Crash ==
    /\ Edit
    /\ tasks' = SelectSeq(tasks, LAMBDA t : ~t.planned)
    /\ job' = Nil
    /\ lost' = lost \cup {tasks[k].conv : k \in {j \in DOMAIN tasks : tasks[j].planned}}
                    \cup (IF job = Nil THEN {} ELSE {job.conv})
    /\ UNCHANGED <<feed, now, server, cursor, known, nextConvId, convs, messages, overtaken, sameSecond>>

-----------------------------------------------------------------------------
FeedInit ==
    /\ feed \in Kinds /\ now = Start
    /\ server = [i \in Items |-> [stamp |-> 0, diff |-> 1, slots |-> Empty]]
    /\ cursor = Nil /\ known = << >> /\ nextConvId = 1
    /\ tasks = << >> /\ job = Nil
    /\ convs = [c \in Convs |-> Nil] /\ messages = [c \in Convs |-> Empty]
    /\ lost = {} /\ overtaken = {} /\ sameSecond = {} /\ edits = 0

FeedNext ==
    \/ \E i \in Items : Adds(i) \/ Edits(i) \/ Drops(i)
    \/ Passes
    \/ RefreshByDate \/ RefreshByUid
    \/ \E k \in DOMAIN tasks : Plan(k) \/ StartDrev(k) \/ ExecuteBug(k) \/ ExecuteUid(k)
    \/ DetailsAnswer \/ TransactionsAnswer \/ FinishDrev
    \/ Fails \/ Crash

FeedSpec == FeedInit /\ [][FeedNext]_feedVars

-----------------------------------------------------------------------------
(* Properties. *)

Awaited(c) == (\E k \in DOMAIN tasks : tasks[k].conv = c) \/ (job # Nil /\ job.conv = c)

\* An edit that Bugzilla's sync cannot tell: of a comment that was empty, or to one whose length
\* is that of the authored part of what it was.
Undetected(old, event) ==
    /\ feed = "bugzilla" /\ old.text # 0
    /\ SizeOf[old.text] = 0 \/ AuthoredOf[old.text] = SizeOf[event.text]

\* What is shown is what the server has, but for such edits.
SameTo(old, event) ==
    /\ (old = Nil) <=> (event = Nil)
    /\ old # Nil => old = event \/ Undetected(old, event)

\* The cursor has passed an item only if what it was when it changed last is shown, or a
\* task is on its way.  Excepted are items that lost a task, or changed twice in one second.
BehindTheCursor ==
    \A i \in Items :
        cursor # Nil /\ i \in There /\ server[i].stamp \in Start..(cursor - 1)
            /\ ~Awaited(i) /\ i \notin lost \cup sameSecond =>
        /\ convs[i] # Nil /\ feed = "phabricator" => convs[i].diff = server[i].diff
        /\ \A s \in Slots : SameTo(messages[i][s], server[i].slots[s])

\* A calendar event that is known by its present date is shown as it is, and an event that
\* is not known is not shown.  Excepted are those that lost a task, or had tasks that ran
\* out of order, or changed twice in one second.
KnownIsShown ==
    Calendar =>
    /\ \A i \in DOMAIN known :
         known[i].stamp = server[i].stamp /\ ~Awaited(known[i].conv)
             /\ known[i].conv \notin lost \cup overtaken /\ i \notin sameSecond =>
         LET c == known[i].conv
             shown == Filled(server[i].slots) \cap InRange
         IN  IF shown = {} THEN convs[c] = Nil
             ELSE convs[c].of = shown /\ \A s \in shown : messages[c][s] = server[i].slots[s]
    /\ \A c \in Convs : convs[c] # Nil =>
         c \in {known[i].conv : i \in DOMAIN known} \cup lost \cup overtaken \/ Awaited(c)
    /\ \A i, j \in DOMAIN known : known[i].conv = known[j].conv => i = j

\* A conversation is made of messages there are: all of them, on Phabricator.
MadeOfMessages ==
    \A c \in Convs :
        IF convs[c] = Nil THEN messages[c] = Empty
        ELSE /\ convs[c].of \subseteq Filled(messages[c])
             /\ feed = "phabricator" => convs[c].of = Filled(messages[c])

=============================================================================
