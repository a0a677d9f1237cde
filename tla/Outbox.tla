-------------------------------- MODULE Outbox --------------------------------
(***************************************************************************)
(* Drafts and the outbox: the draft_* tasks, the outbox_send task with its *)
(* markers (mix_outbox_send and the account types that use it), and the    *)
(* SMTP connection that a message goes out on.                             *)
(*                                                                         *)
(* The task manager runs one job at a time and plans before it executes    *)
(* (TaskManager).  A job's writes and the removal of its task are one      *)
(* transaction, so a job is one action, unless something durable or the    *)
(* server comes between: draft_attach writes as it goes, and a send waits  *)
(* for the server.                                                         *)
(***************************************************************************)
EXTENDS Naturals, Sequences, FiniteSets

CONSTANTS
    Messages,
    Existing,      \* messages that are drafts to begin with
    None, Absent,
    AccountTypes,  \* server (Gmail, ActiveSync), append (vanilla IMAP), local (POP3)
    MaxCommands,   \* bound: what the user does
    MaxFaults      \* bound: ends of the process, answers and messages that go wrong

Content == [text : 0..MaxCommands, files : 0..MaxCommands]
Order   == [order : 0..MaxCommands, date : 0..MaxCommands]

ASSUME OutboxAssumption ==
    /\ IsFiniteSet(Messages) /\ Existing \subseteq Messages
    /\ None \notin Messages \cup Nat \cup Content \cup Order
    /\ Absent \notin Content \cup {None}
    /\ AccountTypes \subseteq {"server", "append", "local"}
    /\ {MaxCommands, MaxFaults} \subseteq Nat

VARIABLES
    (* the database *)
    folder,       \* folderIds: none, drafts, outbox, sent
    text,         \* what the last draft_save wrote, its date included
    files,        \* how many attachments are complete
    attaching,    \* messages with an attachment that is being written
    toSend,       \* messageIdsToSend: order, and the text (date) it was tracked with
    counter,      \* sendOrderingCounter
    appends,      \* append_message tasks issued
    queue,        \* raw tasks; those that do not persist are only in memory
    (* the process *)
    up, markers, activelySending, paused, job,
    cache,        \* messageCache: Absent, or what a read of the message is given
    (* the outside world *)
    keeps,        \* the account type: who keeps what is sent
    delivered,    \* what the server has accepted
    (* history *)
    wanted,       \* the draft as the user has made it
    lost,         \* messages that lost a task that does not persist
    sends,        \* sends planned for each message
    interrupted,  \* deliveries the process did not live to note, or was not told of
    failed,       \* messages whose send the server refused, or seemed to
    stuck,        \* tracked messages whose execution threw in this process
    asked, faults

disk   == <<folder, text, files, attaching, toSend, counter, appends>>
memory == <<up, markers, activelySending, paused, job>>
seen   == <<wanted, lost, sends, interrupted, failed, stuck>>
vars   == <<disk, queue, memory, cache, keeps, delivered, seen, asked, faults>>

Persistent == {"save", "delete", "send", "abort", "setPaused"}
Transient  == {"create", "attach", "detach"}
Command == [type : Persistent \cup Transient, msg : Messages \cup {None}, draft : Content]
NoContent == [text |-> 0, files |-> 0]
NoJob == [type |-> "none", msg |-> None, stage |-> "none", carries |-> NoContent]

TypeOK ==
    /\ folder \in [Messages -> {"none", "drafts", "outbox", "sent"}]
    /\ text \in [Messages -> 0..MaxCommands] /\ files \in [Messages -> 0..MaxCommands]
    /\ attaching \in SUBSET Messages
    /\ toSend \in [Messages -> Order \cup {None}]
    /\ counter \in 0..MaxCommands
    /\ appends \in [Messages -> 0..MaxCommands]
    /\ queue \in Seq(Command)
    /\ up \in BOOLEAN
    /\ markers \in [Messages -> 0..MaxCommands \cup {None}]
    /\ activelySending \in SUBSET Messages
    /\ paused \in {FALSE, None}
    /\ job \in [type : {"none", "attach", "send"}, msg : Messages \cup {None},
                stage : {"none", "writing", "sending", "accepted", "hung"}, carries : Content]
    /\ keeps \in AccountTypes
    /\ delivered \in Seq([msg : Messages, carries : Content])
    /\ cache \in [Messages -> Content \cup {None, Absent}]
    /\ wanted \in [Messages -> Content \cup {None}]
    /\ {lost, failed, stuck} \subseteq SUBSET Messages
    /\ sends \in [Messages -> 0..MaxCommands]
    /\ interrupted \in [Messages -> 0..MaxFaults]
    /\ asked \in 0..MaxCommands /\ faults \in 0..MaxFaults

-----------------------------------------------------------------------------
(* Helpers. *)

Fault == faults < MaxFaults /\ faults' = faults + 1

Tracked == {m \in Messages : toSend[m] # None}
OnDisk(m) == [text |-> text[m], files |-> files[m]]

\* The task at the head of the plan queue, when the manager is free for it.
Planning(type, m) ==
    /\ up /\ job = NoJob
    /\ queue # << >> /\ Head(queue).type = type /\ Head(queue).msg = m

\* The task is planned, or moot.
Planned == queue' = Tail(queue)

Moot == Planned /\ UNCHANGED <<disk, memory, cache>>

\* A task that begins to mutate reads the database, and has the cache know what
\* it has read, unless the cache knows the message already.
Looked(m) == IF cache[m] = Absent /\ folder[m] # "none" THEN OnDisk(m) ELSE cache[m]
Looks(m)  == cache' = [cache EXCEPT ![m] = Looked(m)]

\* Mutant of Caches: what the cache knows is not told anything else.
CachesUnknown(m, content) ==
    cache' = [cache EXCEPT ![m] = IF @ = Absent THEN content ELSE @]

\* A write tells the cache ...
Caches(m, content) == cache' = [cache EXCEPT ![m] = content]

\* ... but for one that changes the date: then the cache has the change only if it
\* learnt of the message from this very task, whose object it shares.
CachesRedated(m, content) ==
    \/ cache[m] = Absent /\ Caches(m, content)
    \/ cache[m] # Absent /\ UNCHANGED cache

\* Deliveries of a message.
Times(m, log) == Cardinality({i \in DOMAIN log : log[i].msg = m})

\* History: the server has the message, and nobody here knows.
Unnoted == interrupted' = IF job.stage = "accepted"
                          THEN [interrupted EXCEPT ![job.msg] = @ + 1] ELSE interrupted

-----------------------------------------------------------------------------
(* The user, by way of MailBridge and MailUniverse. *)

Init ==
    /\ folder = [m \in Messages |-> IF m \in Existing THEN "drafts" ELSE "none"]
    /\ text = [m \in Messages |-> 0] /\ files = [m \in Messages |-> 0]
    /\ attaching = {} /\ toSend = [m \in Messages |-> None] /\ counter = 0
    /\ appends = [m \in Messages |-> 0]
    /\ queue = << >>
    /\ up = TRUE /\ markers = [m \in Messages |-> None] /\ activelySending = {}
    /\ paused = FALSE /\ job = NoJob
    /\ cache = [m \in Messages |-> Absent]
    /\ keeps \in AccountTypes
    /\ delivered = << >>
    /\ wanted = [m \in Messages |-> IF m \in Existing THEN NoContent ELSE None]
    /\ lost = {}
    /\ sends = [m \in Messages |-> 0] /\ interrupted = [m \in Messages |-> 0]
    /\ failed = {} /\ stuck = {}
    /\ asked = 0 /\ faults = 0

Issues(type, m, draft) ==
    queue' = Append(queue, [type |-> type, msg |-> m, draft |-> draft])

\* One thing the user does to a message that he sees.
Edited(m, type) ==
    CASE type = "create" -> NoContent
      [] type = "save"   -> [wanted[m] EXCEPT !.text = asked + 1]
      [] type = "attach" -> [wanted[m] EXCEPT !.files = @ + 1]
      [] type = "detach" -> [wanted[m] EXCEPT !.files = @ - 1]
      [] OTHER -> wanted[m]

Asks(m, type) ==
    /\ up /\ asked < MaxCommands /\ asked' = asked + 1
    /\ IF type = "create" THEN wanted[m] = None ELSE folder[m] # "none"
    /\ type = "detach" => wanted[m].files > 0
    /\ wanted' = [wanted EXCEPT ![m] = Edited(m, type)]
    /\ Issues(type, m, wanted'[m])
    /\ UNCHANGED <<disk, memory, cache, keeps, delivered, lost, sends, interrupted,
                   failed, stuck, faults>>

\* outboxSetPaused.  The task carries 'pause', where outbox_send reads 'paused'.
AsksPause ==
    /\ up /\ asked < MaxCommands /\ asked' = asked + 1
    /\ Issues("setPaused", None, NoContent)
    /\ UNCHANGED <<disk, memory, cache, keeps, delivered, seen, faults>>

-----------------------------------------------------------------------------
(* The plans of draft_create, draft_save, draft_detach, draft_delete. *)

PlanCreate(m) ==
    /\ Planning("create", m) /\ Planned
    /\ folder' = [folder EXCEPT ![m] = "drafts"]
    /\ Caches(m, OnDisk(m))
    /\ UNCHANGED <<text, files, attaching, toSend, counter, appends, memory, keeps,
                   delivered, seen, asked, faults>>

\* The date of the message changes with its text.
PlanSave(m) ==
    /\ Planning("save", m)
    /\ \/ /\ folder[m] # "none" /\ Planned
          /\ text' = [text EXCEPT ![m] = Head(queue).draft.text]
          /\ CachesRedated(m, [OnDisk(m) EXCEPT !.text = Head(queue).draft.text])
          /\ UNCHANGED <<folder, files, attaching, toSend, counter, appends, memory>>
       \/ folder[m] = "none" /\ Moot
    /\ UNCHANGED <<keeps, delivered, seen, asked, faults>>

PlanDetach(m) ==
    /\ Planning("detach", m)
    /\ \/ /\ folder[m] # "none" /\ files[m] > 0 /\ Planned
          /\ files' = [files EXCEPT ![m] = @ - 1]
          /\ Caches(m, [OnDisk(m) EXCEPT !.files = @ - 1])
          /\ UNCHANGED <<folder, text, attaching, toSend, counter, appends, memory>>
       \/ /\ ~(folder[m] # "none" /\ files[m] > 0) /\ Planned
          /\ Looks(m)
          /\ UNCHANGED <<disk, memory>>
    /\ UNCHANGED <<keeps, delivered, seen, asked, faults>>

\* messageIdsToSend is not told.
PlanDelete(m) ==
    /\ Planning("delete", m)
    /\ \/ /\ folder[m] # "none" /\ Planned
          /\ folder' = [folder EXCEPT ![m] = "none"]
          /\ attaching' = attaching \ {m}
          /\ Caches(m, Absent)
          /\ UNCHANGED <<text, files, toSend, counter, appends, memory>>
       \/ folder[m] = "none" /\ Moot
    /\ UNCHANGED <<keeps, delivered, seen, asked, faults>>

\* draft_attach: incremental writes of what is attached so far ...
PlanAttach(m) ==
    /\ Planning("attach", m)
    /\ \/ /\ folder[m] # "none"
          /\ attaching' = attaching \cup {m}
          /\ job' = [NoJob EXCEPT !.type = "attach", !.msg = m, !.stage = "writing"]
          /\ Caches(m, OnDisk(m))
          /\ UNCHANGED <<folder, text, files, toSend, counter, appends, queue, up, markers,
                         activelySending, paused>>
       \/ folder[m] = "none" /\ Moot
    /\ UNCHANGED <<keeps, delivered, seen, asked, faults>>

\* ... and the attachment when it is all there.
AttachEnds ==
    /\ up /\ job.type = "attach" /\ Planned
    /\ files' = [files EXCEPT ![job.msg] = @ + 1]
    /\ attaching' = attaching \ {job.msg}
    /\ job' = NoJob
    /\ Caches(job.msg, [OnDisk(job.msg) EXCEPT !.files = @ + 1])
    /\ UNCHANGED <<folder, text, toSend, counter, appends, up, markers, activelySending,
                   paused, keeps, delivered, seen, asked, faults>>

-----------------------------------------------------------------------------
(* The plans of outbox_send. *)

\* The marker of a message; one that is there already is replaced.
Marker(m, order) == markers' = [markers EXCEPT ![m] = order]

\* _planSend: into the outbox, tracked, and a marker.
PlanSend(m) ==
    /\ Planning("send", m)
    /\ \/ /\ folder[m] # "none" /\ Planned
          /\ folder' = [folder EXCEPT ![m] = "outbox"]
          /\ toSend' = [toSend EXCEPT ![m] = [order |-> counter, date |-> text[m]]]
          /\ counter' = counter + 1
          /\ Marker(m, counter)
          /\ Caches(m, OnDisk(m))
          /\ sends' = [sends EXCEPT ![m] = @ + 1]
          /\ failed' = failed \ {m} /\ stuck' = stuck \ {m}
          /\ UNCHANGED <<text, files, attaching, appends, up, activelySending, paused, job,
                         wanted, lost, interrupted>>
       \/ folder[m] = "none" /\ Moot /\ UNCHANGED seen
    /\ UNCHANGED <<keeps, delivered, asked, faults>>

\* _planAbort: back to the drafts.  The marker stays, since its id is computed
\* from the wrong argument.
Abortable(m) == toSend[m] # None /\ m \notin activelySending /\ folder[m] # "none"

\* Mutant of PlanAbort: clears the marker, and keeps the message tracked.
PlanAbortTracked(m) ==
    /\ Planning("abort", m)
    /\ \/ /\ Abortable(m) /\ Planned
          /\ folder' = [folder EXCEPT ![m] = "drafts"]
          /\ Marker(m, None)
          /\ Caches(m, OnDisk(m))
          /\ UNCHANGED <<text, files, attaching, toSend, counter, appends, up,
                         activelySending, paused, job>>
       \/ ~Abortable(m) /\ Moot
    /\ UNCHANGED <<keeps, delivered, seen, asked, faults>>

PlanAbort(m) ==
    /\ Planning("abort", m)
    /\ \/ /\ Abortable(m) /\ Planned
          /\ folder' = [folder EXCEPT ![m] = "drafts"]
          /\ toSend' = [toSend EXCEPT ![m] = None]
          /\ Caches(m, OnDisk(m))
          /\ UNCHANGED <<text, files, attaching, counter, appends, memory>>
       \/ ~Abortable(m) /\ Moot
    /\ UNCHANGED <<keeps, delivered, seen, asked, faults>>

\* _planSetPaused: what it reads is never a boolean, so that the first time it
\* issues all markers again, and from then on it does nothing.
PlanSetPaused ==
    /\ Planning("setPaused", None) /\ Planned
    /\ paused' = None
    /\ markers' = IF paused = None THEN markers
                  ELSE [m \in Messages |-> IF toSend[m] = None THEN markers[m]
                                           ELSE toSend[m].order]
    /\ UNCHANGED <<disk, up, activelySending, job, cache, keeps, delivered, seen, asked,
                   faults>>

-----------------------------------------------------------------------------
(* The execution of a marker. *)

\* Nothing to plan, and no job.
Free == queue = << >> /\ up /\ job = NoJob

\* The markers come in the order in which the sends were planned.
First(m) == /\ markers[m] # None
            /\ \A n \in Messages : markers[n] # None => markers[m] <= markers[n]

\* The message is read by its id from the cache, and only when that does not know
\* it from the database, under the date it was tracked with.
Found(m) ==
    CASE cache[m] # Absent -> cache[m]
      [] cache[m] = Absent /\ folder[m] # "none" /\ toSend[m].date = text[m] -> OnDisk(m)
      [] OTHER -> None

Execute(m) ==
    /\ Free /\ First(m) /\ toSend[m] # None /\ Found(m) # None
    /\ Marker(m, None)
    /\ activelySending' = activelySending \cup {m}
    /\ job' = [type |-> "send", msg |-> m, stage |-> "sending", carries |-> Found(m)]
    /\ Caches(m, Found(m))
    /\ UNCHANGED <<disk, queue, up, paused, keeps, delivered, seen, asked, faults>>

\* A marker of a message that is no longer tracked.
ExecuteStale(m) ==
    /\ Free /\ First(m) /\ toSend[m] = None
    /\ Marker(m, None)
    /\ UNCHANGED <<disk, queue, up, activelySending, paused, job, cache, keeps, delivered,
                   seen, asked, faults>>

\* The message cannot be read, or cannot be composed.  The claim stays.
ExecuteThrows(m) ==
    /\ Free /\ First(m) /\ toSend[m] # None
    /\ \/ Found(m) = None /\ UNCHANGED faults
       \/ Found(m) # None /\ Fault
    /\ Caches(m, Found(m))
    /\ Marker(m, None)
    /\ activelySending' = activelySending \cup {m}
    /\ stuck' = stuck \cup {m}
    /\ UNCHANGED <<disk, queue, up, paused, job, keeps, delivered, wanted, lost,
                   sends, interrupted, failed, asked>>

\* The server takes the message ...
ServerAccepts ==
    /\ job.type = "send" /\ job.stage = "sending"
    /\ delivered' = Append(delivered, [msg |-> job.msg, carries |-> job.carries])
    /\ job' = [job EXCEPT !.stage = "accepted"]
    /\ UNCHANGED <<disk, queue, up, markers, activelySending, paused, cache, keeps, seen,
                   asked, faults>>

\* Mutant of SendEnds: the message stays in messageIdsToSend.
SendEndsTracked ==
    /\ activelySending' = activelySending \ {job.msg}
    /\ job' = NoJob
    /\ UNCHANGED toSend

\* Be done: no longer tracked.
SendEnds ==
    /\ toSend' = [toSend EXCEPT ![job.msg] = None]
    /\ activelySending' = activelySending \ {job.msg}
    /\ job' = NoJob

\* ... and says so: saveSentMessage of the account type.
SendSucceeds ==
    /\ job.stage = "accepted"
    /\ SendEnds
    /\ folder' = [folder EXCEPT ![job.msg] = IF keeps = "local" THEN "sent" ELSE "none"]
    /\ appends' = IF keeps = "append" THEN [appends EXCEPT ![job.msg] = @ + 1] ELSE appends
    /\ Caches(job.msg, IF keeps = "local" THEN OnDisk(job.msg) ELSE Absent)
    /\ UNCHANGED <<text, files, attaching, counter, queue, up, markers, paused, keeps, delivered,
                   seen, asked, faults>>

\* The server refuses, or the connection is lost before the answer.
SendFails ==
    /\ job.stage \in {"sending", "accepted"} /\ Fault
    /\ SendEnds
    /\ failed' = failed \cup {job.msg}
    /\ Unnoted
    /\ Looks(job.msg)
    /\ UNCHANGED <<folder, text, files, attaching, counter, appends, queue, up, markers,
                   paused, keeps, delivered, wanted, lost, sends, stuck, asked>>

\* The server closes the connection without a word: nobody is told.
ConnectionCloses ==
    /\ job.stage \in {"sending", "accepted"} /\ Fault
    /\ job' = [job EXCEPT !.stage = "hung"]
    /\ Unnoted
    /\ UNCHANGED <<disk, queue, up, markers, activelySending, paused, cache, keeps, delivered,
                   wanted, lost, sends, failed, stuck, asked>>

-----------------------------------------------------------------------------
(* The process. *)

\* The tasks that persist stay in the queue, in their order; at[k] is the place
\* where the k-th of them was.
Survive ==
    \E n \in 0..Len(queue) : \E at \in [1..n -> DOMAIN queue] :
        /\ {at[k] : k \in 1..n} = {i \in DOMAIN queue : queue[i].type \in Persistent}
        /\ \A j, k \in 1..n : j < k => at[j] < at[k]
        /\ queue' = [k \in 1..n |-> queue[at[k]]]

\* What is only in memory is lost; a send under way is, too.
Crash ==
    /\ up /\ Fault
    /\ up' = FALSE
    /\ Survive
    /\ lost' = lost \cup {queue[i].msg : i \in {j \in DOMAIN queue : queue[j].type \in Transient}}
    /\ Unnoted
    /\ markers' = [m \in Messages |-> None] /\ activelySending' = {}
    /\ paused' = FALSE /\ job' = NoJob
    /\ cache' = [m \in Messages |-> Absent]
    /\ stuck' = {}
    /\ UNCHANGED <<disk, keeps, delivered, wanted, sends, failed, asked>>

\* Mutant of Restart: no markers.
RestartIdle ==
    /\ ~up
    /\ up' = TRUE
    /\ UNCHANGED <<disk, queue, markers, activelySending, paused, job, cache, keeps,
                   delivered, seen, asked, faults>>

\* deriveMemoryStateFromPersistentState: all that is tracked gets its marker.
Restart ==
    /\ ~up
    /\ up' = TRUE
    /\ markers' = [m \in Messages |-> IF toSend[m] = None THEN None ELSE toSend[m].order]
    /\ UNCHANGED <<disk, queue, activelySending, paused, job, cache, keeps, delivered, seen,
                   asked, faults>>

\* Whoever else reads a message has the cache know it, and a time-out empties the
\* cache.  That is left out where it makes no difference: during a job, since the
\* one that reads through the cache has read; and for a message that is not to be
\* sent, since _planSend tells the cache.
Reads(m) ==
    /\ up /\ job = NoJob /\ toSend[m] # None /\ cache[m] = Absent /\ folder[m] # "none"
    /\ Looks(m)
    /\ UNCHANGED <<disk, queue, memory, keeps, delivered, seen, asked, faults>>

EmptyCache ==
    /\ up /\ job = NoJob /\ \E m \in Tracked : cache[m] # Absent
    /\ cache' = [m \in Messages |-> Absent]
    /\ UNCHANGED <<disk, queue, memory, keeps, delivered, seen, asked, faults>>

User == \/ \E m \in Messages, t \in (Persistent \cup Transient) \ {"setPaused"} : Asks(m, t)
        \/ AsksPause

Plan == \/ \E m \in Messages : \/ PlanCreate(m) \/ PlanSave(m) \/ PlanDetach(m)
                               \/ PlanDelete(m) \/ PlanAttach(m) \/ PlanSend(m)
                               \/ PlanAbort(m)
        \/ AttachEnds
        \/ PlanSetPaused

Executes == \E m \in Messages : Execute(m) \/ ExecuteStale(m) \/ ExecuteThrows(m)

Caching == EmptyCache \/ \E m \in Messages : Reads(m)

Server == ServerAccepts \/ SendSucceeds

Next == User \/ Plan \/ Executes \/ Server \/ SendFails \/ ConnectionCloses \/ Crash \/ Restart
        \/ Caching

Spec == Init /\ [][Next]_vars

FairSpec == Spec /\ WF_vars(Plan \/ Server \/ Restart \/ Executes)
-----------------------------------------------------------------------------
(* Properties. *)

\* A message that is back in the drafts does not go out, whatever markers are
\* still about (_planAbort).
DraftsStayHome == [][\A m \in Messages :
    folder[m] = "drafts" => Times(m, delivered') = Times(m, delivered)]_vars

\* A message goes out once for each time it was sent, but for the deliveries
\* that the process did not live to note or was not told of; and where the
\* server does not file what is sent, each delivery that was noted is appended
\* once (execute, saveSentMessage of vanilla IMAP).
Noting(m) == IF job.stage = "accepted" /\ job.msg = m THEN 1 ELSE 0
SentOnce == \A m \in Messages :
    /\ Times(m, delivered) <= sends[m] + interrupted[m]
    /\ keeps = "append" => appends[m] + interrupted[m] + Noting(m) = Times(m, delivered)

\* The drafts on disk and the tasks that are queued make up what the user has
\* done, attachments that are written in steps included: the first task for a
\* message goes on from what is on disk, each other one from what the one before
\* it leaves, and the last leaves what the user sees.
Of(m) == {i \in DOMAIN queue : queue[i].msg = m}

Applied(content, command) ==
    CASE command.type = "save"   -> [content EXCEPT !.text = command.draft.text]
      [] command.type = "attach" -> [content EXCEPT !.files = @ + 1]
      [] command.type = "detach" -> [content EXCEPT !.files = @ - 1]
      [] OTHER -> content

AddsUp(m) ==
    /\ Of(m) = {} => OnDisk(m) = wanted[m]
    /\ \A i \in Of(m) :
        /\ (\A k \in Of(m) : i <= k) => queue[i].draft = Applied(OnDisk(m), queue[i])
        /\ (\A k \in Of(m) : k <= i) => queue[i].draft = wanted[m]
        /\ \A j \in Of(m) : j < i /\ (\A k \in Of(m) : k <= j \/ i <= k) =>
            queue[i].draft = Applied(queue[j].draft, queue[i])

AsCommanded == \A m \in Messages \ lost : folder[m] \in {"drafts", "outbox"} => AddsUp(m)

\* What a send carries is the draft on disk, and not one that the cache has kept
\* from before it was sent.  Only a draft that is saved while it is in the outbox
\* may go out as it was at some time between the send and that save.
Carries(m, content) ==
    /\ toSend[m].date = text[m] => content = OnDisk(m)
    /\ content.text \in toSend[m].date..text[m]
    /\ content.text = text[m] => content = OnDisk(m)

CarriesTheDraft == job.type = "send" => Carries(job.msg, job.carries)

\* messageIdsToSend is the outbox, but for what the server refused and what
\* was deleted from under it.
Accounted == \A m \in Messages :
    /\ folder[m] = "outbox" => m \in Tracked \cup failed
    /\ m \in Tracked => folder[m] \in {"outbox", "none"}

\* Each message to send has its marker or is being sent, or its execution threw.
Driven == up => \A m \in Tracked :
    \/ markers[m] = toSend[m].order
    \/ job.type = "send" /\ job.msg = m
    \/ m \in stuck

\* First asked, first sent.
InOrder == job.type = "send" =>
    \A m \in Tracked \ (stuck \cup {job.msg}) : toSend[m].order > toSend[job.msg].order

\* "Our persistent state messageIdsToSend always accurately reflects the set of
\* messages we want to send and the set of markers we have issued", in the
\* order they were asked for: across restarts, pauses, aborts, second sends and
\* deletions (mix_outbox_send).
OutboxInStep ==
    TypeOK /\ Accounted /\ Driven /\ InOrder /\ AsCommanded /\ CarriesTheDraft

\* Each send is settled: the message goes out, is refused or is aborted, unless
\* its execution threw or the connection closed without a word.
SendsSettle == \A m \in Messages :
    m \in Tracked ~> (m \notin Tracked \/ m \in stuck \/ job.stage = "hung")
=============================================================================
