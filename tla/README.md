# TLA+ verification of the gaia-email back-end

This directory holds TLA+ models of the e-mail back-end in `src/src/backend`, of the document
side of its worker in `src/src/worker-support` and of the front-end library in
`src/src/clientapi`, the TLC configurations that check them, and proofs that the TLA+ proof
system checks. `PROJECT.json` lists the components, the runs, the mutants that show that each
property can fail, the source lines behind each definition, the findings, the hazards and the
theorems.

Parse with `tlasany M.tla`, check with `tlc -config X.cfg M` (the runs of section 3), prove with
`tlapm MProofs.tla`.

## 1. The system

The back-end is a worker: one JavaScript thread, an event loop, IndexedDB underneath and a
message bridge to front ends above. Handlers run to completion, so what may go wrong goes wrong
between two turns: a transaction commits or aborts, a caller schedules something, the network
comes or goes, a timer fires, a message arrives, or the process dies.

| Component | State | Operations | Talks to | Hard behaviour | Correct when |
|---|---|---|---|---|---|
| TaskManager, TaskContext, TaskRegistry, TaskDefiner, at-most-once base (`task_infra/`) | plan queue, active promise, pending writes, wake lock; per type persistent state (`binToMarker`) and memory state (bins in progress) | schedule, plan, execute, finishTask, fail-safe, boot-time restore | MailDB (records), TaskResources and TaskPriorities (what may run), TaskGroupTracker (events), cron sync (`taskQueueEmpty`) | crash between any two commits, two restores at boot, failing jobs, aborted transactions | no accepted task is lost, none is in two places, a bin that counts as planned will run, an idle manager really has nothing to do |
| TaskResources | available resources, markers filed under a missing one, time-outs | own or relay, resource comes or goes, remove | TaskManager, TaskPriorities, universe (online, credentials, happy) | resources change while markers wait | what is ready has all it needs, what is blocked waits for something that is missing |
| TaskPriorities, Fibonacci heap | heap, tag sums, maps from tag and id to node | prioritize, reprioritize, pop, remove | TaskResources, priority tags of views | nodes reached from three maps | pops the least key of the live things, once each |
| TaskGroupTracker | groups with pending counts and parents, owner of each task | joins on plan or execute events, resolve, follow-on task | TaskManager events, overlays, triggers | nested groups, shared groups, re-used ids | a group resolves when the last member is done, not before |
| MailDB (`maildb.js`, `db/trigger_manager.js`) | IndexedDB tables, caches, pre-mutation copies | read, beginMutate, finishMutate, addTasks, loadTasks, cache drop, events | everybody | reads race writes over the cache, events precede the commit | reads see the last write, events match the records |
| Tables of contents (`db/*_toc.js`) | ordered ids or items | add, change, remove, slice | MailDB events, proxies | change of order, asynchronous load | order matches the records |
| WindowedListProxy, EntireListProxy, BatchManager (`bridge/`) | window, what the view has valid data for, pending changes, dirty set and timer | events, seek, flush | TOCs, overlays, bridge | picture of a view several messages behind, asynchronous flush | the view catches up |
| DataOverlayManager | resolvers per namespace | announce, resolve | tasks, proxies | push for items that are on their way | the last overlay is shown |
| WindowedListView, EntireListView (`clientapi/`) | rows shown | update, seek | bridge | positional changes | shows the list as it was at one moment |
| BridgeContext, MailBridge | named contexts, queued commands | commands, clean-up | proxies, RefedResource | asynchronous commands overtaken by others | commands of a handle run in order |
| RefedResource | reference count, validity | acquire, release | TOCs, queries | consumers that leave during activation | active if and only if used |
| Vanilla IMAP folder state, Gmail sync state, ActiveSync sync keys | uids, flag slots, date ranges, modseq, keys | refresh, grow, sync_conv, sync_message, store | tasks, server | reuse of slots, ranges that move, keys that are refused | the local picture is the server's plus pending changes |
| Flag deltas, mix_store_flags, Gmail mix_store | pending changes by message and their aggregation in markers | plan, undo, execute | tasks | aggregation, removal, retry | the server ends up with what the user asked for last |
| Outbox, drafts | messages to send, pause; drafts and their attachments | create, save, attach, detach, delete, send, abort, pause | tasks, markers, SMTP | abort during send, lost answers, steps that do not persist | sent once for each time it was asked, as it was composed |
| Cron sync, wake locks | overlapping alarms, locks, the one ensureSync request | alarm, ensureSync, hand-over, time out | document, TaskManager | overlap, hand-over, faults of the system | each lock released once, the next alarm is set before the app may close |
| AccountManager | account TOC, running accounts, loads under way | load, add, remove | TaskManager, registry | removal during load | one instance per account, nothing left of a deleted one |
| Connection back-off and pooling | state of an endpoint, pool, attempts | ask, open, fail, close, retry | tasks, sockets | overlapping retries, silent ends | whoever asks is answered |
| Search, derived views | query state, buffered events, streams | query, filter, replay | TOCs | events during the query, two changes at once | results equal a query afterwards |
| Body download, attachments | what is downloaded of each body and part, requests, markers | ask, plan, read a chunk, move, end | tasks, network | broken off and begun again, requests merged | each byte once and in order |
| New-message tracking | pending date, new messages by conversation | triggers, clear, flush | triggers, groups | deferral over a restart | what is new is unread, and told |
| Folder lists | folders by id, sort strings, next id | sync, ensure virtual folder | server, tasks | two tasks that make folders, restart | folders are the mailboxes |
| Feeds (Phabricator, Bugzilla, ical) | cursor, known items, queued tasks | refresh, sync of one item | server, tasks | paging by date, restart | what the cursor has passed is shown |
| Autoconfiguration, credentials, OAuth | sources asked, the parser's queue; credentials of both sides | lookup, probe, renew, modify, re-authorize | network, document | answers that do not say what they answer; late renewals | the preferred source wins; credentials saved are those used |
| Client API (MailAPI, contact cache, undo, composition, directory, requests) | handles, peeps, undoable operations, promised accounts and folders, composers, pending requests | see `ClientSide`, `Requests` | bridge, address book | lookups overtaken by changes, undo before the answer, tasks that end before anyone listens | shown is what there is, undone is as before, who waits is answered |
| Message bodies (`bodies/quotechew.js`, `mailchew.js`) | blocks of a text, with the blank lines eaten around them | receive, reply, forward, snippet | drafts, downloads | positions and counts kept by hand; replies to replies | no line is lost, a forward says what the text said, threads stop growing |
| HTML and MIME processing, POP3, protocol adapters, logging, the logic inspector | various | one task, or one request | tasks, network | data transformation and I/O | see section 9 |

## 2. Modules

| Module | Models | Used by |
|---|---|---|
| `TaskManager` | task life cycle, blocked and ready markers, task tables, order of commits, boot, crash | `MCTaskManager`, `TaskManagerProofs` |
| `TaskManagerProofs` | the proofs of all safety invariants of TaskManager | |
| `TaskGroups` | TaskGroupTracker with the jobs that feed it | `MCTaskGroups`, `TaskGroupsProofs` |
| `TaskGroupsProofs` | the proof that its groups account for what is outstanding | |
| `WindowedList`, `WindowedListProofs` | a conversation list from the record to the row on screen | run as it is |
| `ListMirror`, `EntireList` | abstract: what a list view promises its front end; a list that is sent whole, which implements it | run as it is, `EntireListProofs` |
| `EntireListProofs` | the proof that it does, fairness apart | |
| `FlagDeltas` | delta_algebra: merging, cancelling and applying changes of flags | `ImapSync`, `GmailSync`, `ActiveSync`, `Undo` |
| `ImapSync`, `GmailSync`, `ActiveSync`, `AccountEngines` | the sync and the flag stores of one account, one module per engine, and the three under one name | run as it is |
| `CronSync`, `CronSyncProofs` | alarms, ensureSync and wake locks, in the document and in the worker | `MCCronSync` |
| `Outbox`, `OutboxProofs` | drafts and their sending | run as it is, `OutboxProofs` |
| `Search`, `MailData`, `Downloads`, `Quoting`, `TaskPriorities`, `Requests`, `StandaloneParts` | search streams; message and conversation records, rows and caches; bodies and attachments; the blocks of a text, replies and forwards; the heap of ready tasks; requests that wait for tasks; the six under one name | run as it is |
| `Bridge`, `Contacts`, `Undo`, `Directory`, `Compose`, `ClientSide` | the client API and the bridge, by part, and the five under one name | `MCClientSide`, `ClientSideProofs` |
| `ClientSideProofs` | the proofs about contacts and the people shown, and about drafts and composers | |
| `Conn`, `Accounts`, `NewTracking`, `FolderLists`, `Feeds`, `Autoconfig`, `Credentials`, `AccountServices` | what an account does beside its syncs, by part, and the five under one name | `MCAccountServices`, `AccountServicesProofs` |
| `AccountServicesProofs` | the proofs about the account and its connections, new messages, lookups and credentials | |

`AccountEngines`, `StandaloneParts`, `ClientSide` and `AccountServices` each put together modules
that share no state in the code, or are alternatives: a variable (`engine`, `part`) chosen at the
start says which of them a behaviour is of, and the others' variables stay as they start. They are
there so that one run checks a layer of the system; they add no interaction. Components that do
interact are in one module: TaskManager with TaskResources and the task tables; a list with its
record, its TOC, its proxy and its view; the document's half of cron sync with the worker's; an engine with
its server, its tasks and its pending changes; AccountManager with the pool of connections
(`Accounts` extends `Conn`); the client's handles with the bridge.

Each `MC` module extends its specification with the functions that its `.cfg` files use.
`TaskManager` and `TaskGroups` meet in TaskManager's events: `TaskGroups` takes from
`TaskManager` that one job runs at a time and that planning comes before execution, and models
what happens inside a job as one action. So do the engines, `Outbox`, `Downloads`, `NewTracking`,
`FolderLists`, `Feeds` and `Undo`: their `queue`, `markers` and `job` are TaskManager's plan queue, ready
markers and running job, seen from one kind of task, with the guarantees `TaskManager` shows.

### TaskManager

| Variable | Code |
|---|---|
| `diskTasks`, `diskBins` | `TBL_TASKS` and the at-most-once state in `TBL_COMPLEX_TASKS` |
| `txns` | readwrite transactions over `TBL_TASKS`, in creation order |
| `phase` | whether the universe is off, loading tasks, restoring markers (both wedge `_activePromise`) or up |
| `tasksToPlan`, `pendingPlanWrites`, `active`, `wakeLock`, `timer`, `signal` | the fields of TaskManager, `active` being the job behind `_activePromise`, `timer` any pending `setTimeout`, `signal` the event of the last turn |
| `prioritized`, `blockedOn`, `available` | TaskPriorities' heap as a set, TaskResources |
| `binToMarker`, `inProgressBins` | persistent and memory state of the at-most-once base |
| `fate`, `owed`, `parked` | history: what durably became of each task, bins with a folded request, raw tasks this process gave up on |

An action is one turn of the event loop: the handler, everything it calls synchronously and the
promise reactions it unleashes. So `PlanNext` and `ExecuteNext` are not actions but parts of
every action that calls `_maybeDoStuff`, and `JobFinishes` is one action from the end of the
task's own work to the submission of its transaction. Actions: `Boot`, `LoadTasks`,
`RestoreComplex`, `Crash`; `Schedule`, `ScheduleNonPersistent`; `JobFinishes`, `JobFails`;
`AddCommits`, `FinishCommits`, `FailsafeCommits`, `Aborts`; `ResourceAvailable`,
`ResourceNoLongerAvailable`; `TimerFires`.

Abstractions. Any ready thing may be popped next, and none is lost; `TaskPriorities` says when the heap
does lose one, which what is shown here of markers that are ready does not cover.
One flag stands for any number of pending `setTimeout`s. The order of resources in a marker is
arbitrary and one resource goes at a time. No task of the repository returns a taskState from
`execute`, so re-planning by execution is left out, as are `setFailureTasks` (unimplemented in
the code), locks, subtasks and the promises of callers.

### WindowedList

| Variable | Code |
|---|---|
| `record`, `cache`, `txns` | conversation records by version, `convCache`, read and write transactions in order |
| `idsWithDates` | FolderConversationsTOC, as the date under which each conversation is listed |
| `seek`, `dirty`, `validDataSet`, `validOverlaySet` | WindowedListProxy and its place in BatchManager |
| `overlay` | what DataOverlayManager resolves |
| `channel`, `view` | the bridge, WindowedListView's items and objects |
| `behind`, `anchored` | history: rows the code lost track of, the anchor stayed where it was |

Actions: `SeekToTop`, `SeekToBottom`, `SeekFocused`, `WriteConv` (finishMutate, its events, the
TOC's and the proxy's handlers), `WriteCommits`, `ReadAnswers` (one conversation of a read),
`ReadCompletes` (the flush that waited), `EmptyCache`, `OverlayPush`, `TimerFires`, `Deliver`.

Abstractions. Versions stand for contents. A read's result is fixed by the place of its
transaction in IndexedDB's order. One write is in flight at a time (one job). Cached objects
that are mutated in place, the reads of `beginMutate`, other proxies, metadata and broadcast
events, mode coordinates and heights are not modelled. Mode bottom computes its window from
`bufferedAbove`, a field that does not exist: the window is empty, in the model as in the code.

### EntireList and ListMirror

`items`, `gone`, `state`, `account` are AccountsTOC or FoldersTOC; `proxy` is EntireListProxy's
`_pendingChanges`, `_idToChangeIndex` and `dirty`; `channel` and `view` as before. `ChangeAll`
and `PushAll` are the cascades from an account to all its folders. With each event a folder goes in
its wire form (`WireRep`), which mixes in what its account and engine say (`account`; `NoAccount` for AccountsTOC, whose items are the accounts). A folder that
is there when the proxy is populated goes as `getAllItems` gives it, with nothing mixed in (`RawRep`), and so it stays until an event is about it:
`state` has for each item its own version and that of the account it was last told with. `ListMirror` has no
bookkeeping: the list, the lists that were sent, the list shown. The history
variable `listings` holds, for each message, the list as it was when the message was sent; the refinement mapping
(`Mirror`) gives it for the lists that were sent. So
`ImplementsListMirror` says that however changes of an item are merged into pending positional
entries, each flush brings the view to the list as it is then, and that it gets there.

The place of a new item is arbitrary (names are not modelled), an item keeps its place when it
changes (the TOCs do not re-sort), ids are not issued again. A proxy is never released: its
`__release` has no effect, since `_active` is never set.

### TaskGroups

`tracker` is a record of TaskGroupTracker's fields and its methods are functions from one such
record to the next (`EnsureNamed`, `OnWillPlan`, `OnWillExecute`, `OnPlanned`, `OnExecuted`,
`Decrement`). The rest is the part of TaskManager that matters to it: `queue`, `heap`,
`planned`, and `adding` for the records that `scheduleTasks` writes for follow-on tasks. `belongs`
(history) records which groups each outstanding thing is part of: what its source was part of
when it was spawned, and the group it tracked. `leaky` (history) records groups that count
something they will not hear of.

The loop of `getRootTaskGroupForTask` and the recursion of `_decrementGroupPendingCount` are stated as sets:
`Up` is the least set of groups closed under parents, `Path` what the loop visits, `Completes` the groups that a
decrement ends in turn. If a task could spawn the bin of a group that contains it, a group would
become its own ancestor and that loop would not end. No task of the repository does. The model lets
any task spawn any other, so the theorem covers more than the code can do.

Kinds of tasks: bins (at-most-once syncs, and downloads, which may issue their marker again),
simple tasks, tasks that are done once planned. Every bin tracks a group here; one that does not
is to the tracker like a simple or plan-only task. A failure after tracking is `PlanJoins`, one
before it `PlanMoot`. A marker that is removed, or issued again by its own execution
(`mix_download.js:493-496`, for which two jobs would have to overlap), is not modelled.

### The engines

The three modules have the same plan: a server that others change, a sync state, the database,
the tasks, and history variables for the ways in which the code is known to lose track.

| | `ImapSync` (one folder of a vanilla account) | `GmailSync` (one label and All Mail) | `ActiveSync` (one folder) |
|---|---|---|---|
| server | `box`, `trash`, `uidNext`, `tellsNext` | `allMail`, `arrived` | `mail`, `came`, `odd`, and `snap`: what the client was told by each key |
| sync state | `since`, `lastHighUid`, `umidSuffix`, `slots` (flagSets and flagSetCounts), `slotOf` (uidInfo) | `sinceDate` (labelSinceDates), `yayUids`, `mehUids` | `syncKey`, `umidSuffix`, `serverIdInfo` |
| database | `local` (message.flags as a list, which may hold a flag twice), `heads`, `convs`, `listed` | `shown` in memory, `disk` | `messages`, `umidLocation` |
| pending changes | `umidChanges`, `markers` | `stores` (aggrChanges, idToAggrString and nextId of each attribute), `todo` | `umidChanges`, `markers` |
| tasks | `queue`, `owed`, `failed`, `former`, `job` | `requests`, `fetches`, `stuck`, `errand` | `queue`, `jammed`, `job` |

Actions of `ImapSync`: `Arrives`, `MarkedDeleted`, `Expunged`, `OtherClientSets` (server and other
clients); `AsksFlags`, `PlanStore`, `PlanConv`; `RefreshBegins`, `AnswersNew`, `AnswersSearch`,
`RefreshEnds`; `GrowBegins`, `AnswersGrowSearch`, `GrowEnds`; `MessageRuns`, `MessageThrows`,
`MessageFails`; `StoreAdds`, `StoreRemoves`, `StoreEnds`; `JobFails`, `Restart`. A task that talks to the
server is as many actions as it has answers, so that deliveries, changes and requests come between. `GmailSync` and
`ActiveSync` are made alike; their servers answer what the code in `src/` asks and how it reads the
answer, and are marked external where that is all there is to go by.

`AccountEngines` is one of the three, chosen at the start; variables that two engines share keep one
name. Dates are numbers of messages, a thread is a model value, contents and headers are left out,
and a message is told from others by its uid. Gmail's `sync_refresh` throws before it has written
anything (`a64` is not imported, `sync_refresh.js:189`), so it has no action.

### Outbox

| Variable | Code |
|---|---|
| `folder`, `text`, `files`, `attaching` | the draft on disk: `folderIds`, what draft_save wrote last, its attachments |
| `toSend`, `counter`, `appends`, `queue` | `messageIdsToSend` and `sendOrderingCounter` of the task's persistent state, append tasks, raw tasks |
| `up`, `markers`, `activelySending`, `paused`, `job` | the process: markers, memory state, the job with the stage its send is at |
| `cache` | `messageCache`: not there, the content that a read is given, or that the read found nothing |
| `keeps`, `delivered` | outside: how the account files what is sent; what the server has accepted |
| `wanted`, `lost`, `sends`, `interrupted`, `failed`, `stuck` | history |

Actions: the user's commands (`Asks`, `AsksPause`), the plans (`PlanCreate`, `PlanSave`, `PlanAttach`,
`PlanDetach`, `PlanDelete`, `PlanSend`, `PlanAbort`, `PlanSetPaused`) and `AttachEnds`, the executions
(`Execute`, `ExecuteStale`, `ExecuteThrows`), `ServerAccepts`, `SendSucceeds`, `SendFails`,
`ConnectionCloses`, `Crash`, `Restart`, and what others do to the cache (`Reads`, `EmptyCache`). A write tells the cache
(`Caches`), but not one that changes the date (`CachesRedated`); an execution is given what the cache knows (`Found`). What a crash leaves of the queue (`Survive`) is stated as an
increasing selection of its places rather than as a `SelectSeq`, so that it can be reasoned about.

### CronSync

| Variable | Code |
|---|---|
| `alarms`, `fetching`, `firedAs`, `held`, `nextLock`, `request`, `routeReady` | mozAlarms, cronsync-main and wakelocks-main in the document |
| `toMain`, `toWorker` | the two channels of the worker router |
| `phase`, `accounts`, `promise`, `armed`, `active`, `listening`, `waiting`, `syncing`, `work`, `blocked`, `told` | CronSyncSupport and SmartWakeLock in the worker |
| `result` | the conclusion in each alarm's log entry |
| `asked`, `young`, `failed`, `missed`, `starved`, `faults` | history and the budget of faults |

A fault is a lock that times out, an alarm that cannot be added, alarms that cannot be read. The
renewal of a lock while tasks go on is left out, as it is a fault of its own kind: it can only delay the time-out.

### Search, MailData, Downloads, Quoting, TaskPriorities, Requests (`StandaloneParts`)

`Search`: `record`, `phase`, `loaded` and `buffered` (execute and bind), `entering` and `gathering`
(the streams), `queuedSet` and `knownFilteredSet` (FilteringStream), `rows` (the list), `derived`.
Actions: `Write`, `Bind`, and the stages of the streams.

`MailData`: `msgs`, `conv`, `convRows`, `msgRows`, `unread`, `count` are tables; `cache`, `task` (what
beginMutate has read), `reads` and `tocs` (each message list, with what it buffers while it loads)
are memory. Each writing action is a finishMutate: tables, cache, events, and the TOCs' handlers.

`Downloads`: `bodyOf`, `partOf`, `states` and `rawTasks` on disk; `planned`, `persistentState`,
`bodyMarker`, `markers` and `job` in memory. A download is `ExecuteStarts`, `ReadChunk`, `MovePart`,
`ExecuteEnds`, so that a restart, a failure or a deletion comes between chunks. Bytes are numbers, and `Bytes(1, n)`
is what a body or a file should be.

`Quoting`: `text` is a sequence of lines, each with the depth it is quoted to and what it matches (`Kinds` are the regular
expressions of quotechew); `rep` the blocks made of it. Actions: `Write` a line, `Receive` (quoteProcessTextBody),
`Reply`, `Forward` (the generators of mailchew, with or without text of one's own and a signature). The parser's positions
are numbers of lines; where the code cuts inside a line the line is `clipped`, where it joins two it is `joined`. Literals of the
code (`MaxScan`, `MaxRepeat`, `Deepest`, `Byte`) are constants, so that small texts reach them.

`TaskPriorities`: `node` is every node of the vendored heap, pointer by pointer, and outlives its extraction; `heapNodeOf` and `tracked` are
`_taskIdToHeapNode`, its order being that of a Map. Actions: `PrioritizeNew`, `PrioritizeAgain`, `PrioritizeLater`
(prioritizeTaskThing, by whether the id and its key are there), `RemoveTaskThing`, `RemoveTasksUsingFilter`,
`PopNextAvailableTask`. History: `severed` (a cut had siblings to lose), `moved` (a node was replaced).

`Requests`: in the client `asked`, `unanswered` (_pendingRequests) and `timers`; `answers` on their way; of the TaskManager what decides
whether a promise of it is settled, which is the order in which a task is queued, its listener registered and its end told: `recording` (`writes` in
the module), `toPlan`, `prioritized`, `active`, `listening`, `microtasks`; `account`, `latched`, `made`. Actions: a request of any kind, ping; a task is
written, planned, executed, or fails; its end is heard, or there is nobody who listens; crash. The microtasks of a turn come before anything
else, and a message to the bridge is heard as it is sent.

### The client (`ClientSide`)

| Part | State | Actions |
|---|---|---|
| `Bridge` | client: `opened`, `seeks`, `shown`; messages: `wire`, `back`; MailBridge: `contexts`, `pending`, `queue`; TOCs: `tocs`, `known`, `using`, `proxies`; items: `record`, `reads`, `listeners` | open, seek, release; receive; activation and its failure; the read and the listener of a tracked item; a change |
| `Contacts` | the address `book` and its `notices`; `_contactCache` with its counters; `peep`, `_livePeepsByEmail`, `_livePeepsById`; `lookups`, `refinds`, `pendingLookupCount`, `callbacks` | the user's changes of the book; events; answers; messages that are shown, updated and forgotten |
| `Undo` | `there`, `flags`, `waiting` (umidChanges), `server`; `ops` (UndoableOperation), `raws` | requests, undo, answer, plan, failure, store, arrival, deletion |
| `Directory` | back end: `present`, `hosted`, `dirtyViews`, `owed`; messages; client: `helloed`, `_storedSends`, `items`, `complete`, `loading`, `accountsLoaded`, `byAccount`, `byFolder`, `label` | accounts and folders come and go; views, promises, flushes, messages |
| `Compose` | `source`, `draft`, `editor`, `writing`, `planning`, `attaching`, `sent` | open, edit, attach, detach, finish, abort; plans; encoding; crash |

### What an account does beside (`AccountServices`)

| Part | State | Actions |
|---|---|---|
| `Accounts` with `Conn` | `def`, `added`, `tasks`, the loads, `toc`, `instance`, `stash`, `cleanup`, `listed`; `pool` (endpoint, connections, attempts, timers, the client's promise), `callers` | creation, loads, views, acquisition, removal; ask, command, attempts that succeed or fail in each way, timers, connections that close |
| `NewTracking` | disk: `mail`, `jobs`, `pendingDate`, `newByConv`, `flushTask`, `clearTask`; memory: `group`, `alone`, `pendingTaskGroupId`; `told` | syncs, messages, changes, the end of a group, flush, clear, restart |
| `FolderLists` | server: `boxes`, `inboxName`; `stored`, `owner`, `named`; FoldersTOC: `foldersById`, `items`, `folderSortStrings`, `nextFolderNum`, `pendingByPath`; tasks | offline folders, sync, changes of the server, virtual folders of two tasks, failures, restart |
| `Feeds` | `server` and `now`; `cursor`, `known`, `nextConvId`; `tasks`, `job`; `convs`, `messages` | items come, change, go; refresh by date or by uid; planning, execution, answers; failure, crash |
| `Autoconfig` | `lookup`, `group`, `request`, `value`; `posted`: the texts with the parser; `found` | a source loads, fails, answers; the parser; the next group |
| `Credentials` | `stage`, `cred`, `saved`, `recent`; of each side `attempt`, `asked`; `open` | creation, refusals, acceptance; connections, renewals; modification, re-authorization, expiry, restart |

Abstractions common to these: messages, folders, people and texts are model values or small numbers, with
an order where the code orders them; the network is what answers, fails or is silent; a task that
the code runs in one turn, or that nothing can observe between its turns, is one action.

## 3. Runs

A run's properties are the `INVARIANT`s and `PROPERTY`s of its configuration. A type invariant is
checked as a conjunct of the property marked with a star.

| Run | Instance | Shows |
|---|---|---|
| `safety` | 1 simple task, 2 at-most-once tasks of one bin, 2 resources, batches of 2, 2 crashes, 1 failing job, 1 abort, 3 changes of resources | `OneHome`: no task is in two places. `QueueIsDurable`, `NoRawForgotten`\*: what waits is on disk, and what is on disk waits. `SortedByNeed`: ready and blocked markers are filed rightly. `PlannedBinHasMarker`: a request dropped because its bin is planned will be served. `QueueEmptyIsTrue` |
| `live` | 3 simple tasks (1 non-persistent, 1 orphan), 2 at-most-once tasks of one bin, 1 crash, no aborts and failures | `RunsInOrder`, `OwedIsDurable`; `AcceptedIsPlanned`, `OwedIsExecuted` (liveness) |
| `loss` | 1 simple task, 1 crash | `NoTaskLost` is violated, see section 7 |
| `rows` | 2 conversations, 2 dates, a window with one row above the anchor, 3 writes, and 2 of a cache drop, an overlay push and a seek | `BelievedIsKnown`: an update of an overlay meets an item with data. `RowsAtRest`\*: the rows are the window, and up to date but for those in `behind`. `Settles` (liveness) |
| `mirror` | 2 items, 2 changes, 1 push, 1 update under way | `ImplementsListMirror`\*: refinement, with its fairness |
| `groups` | sync_refresh, sync_grow, a download, sync_conv, new_flush; 4 tasks and a follow-on | `GroupsAccount`\*: no group resolves early, counts are exact but for leaky groups. `PromiseKeptUnlessLeaky` (liveness) |
| `cron` | 2 accounts with one alarm each, 2 alarms that go off, 2 faults | `CronInStep`\*: each lock is in one place, ensureSync keeps its promise. `CompleteIsSafe`: completion is not told before. `Concludes` (liveness) |
| `outbox` | 2 messages (one existing before), 2 of the 3 account types, 4 commands, 2 faults | `SentOnce`, `OutboxInStep`\*, `DraftsStayHome`; `SendsSettle` (liveness) |
| `engines` | 2 messages, one flag (Gmail: a flag and a label), one conversation, 4 events, 3 by other clients | `TablesAccount`\*: slots, buckets and ids agree with what they stand for. `AllInStep`: what is shown is what the server has with what waits applied, and at rest just what it has. `AllPlayed` (liveness): what the user asked for gets there |
| `client` | per part, see below | `BridgeInStep`\*, `SeeksMoveTheirView`, `ContactsInStep`\*, `AskedIsDone`\* (`UndoInStep`, `DirectoryInStep`), `ComposeInStep`\* |
| `parts` | 2 conversations, 3 writes; 2 messages (a draft), 2 folders, 3 tasks, 2 reads; 1 body and 2 parts of up to 4 bytes, chunks of 2, 3 requests, 1 trouble; texts of 4 lines, 3 replies; 5 tasks with 2 keys, 1 removal; 2 requests of any kind, 2 tasks that fail or crashes | `DataInStep`\*: a search shows what its filter lets through, records, rows, counts, caches and message lists agree, and each byte of a body or file is there once and in order. `TextInStep`: no line of a text is lost, forwards say what it said, replies quote it and are read as replies, threads stop growing. `TasksInStep`\*: the heap and the map of its nodes agree, nothing that left comes back, the least key runs first (`PrioritiesInStep`); who waits gets one answer, and a true one (`RequestsInStep`) |
| `services` | per part, see below | `AccountInStep`\*, `NewsAreTrue`, `ServerIsMirrored` (`FoldersInStep`, `FeedInStep`), `ServersAreTrue`\*, `CredentialsInStep`\*; `Answered` (liveness) |

Parts of `client`: two views of one folder, a search, a view derived from it and a tracked item,
with 5 events; one address, two persons in an address book with two slots, 4 deeds; one flag, three
messages, two requests that may be undone, 4 changes; two accounts and three folders of which some
come later, 6 acts; one composer and three people, one
crash.

Parts of `services`: three callers of a pool of at most 3 connections with 3 retries, beside the
life of an account; 3 messages, 2 syncs, a change, a clear, a restart; 4 mailboxes and 2 virtual folders
of two tasks, up to 6 folders, 4 events; 2 items of each of three feeds, pages of one, 2 dates, 3 edits, a
restart; 2 lookups and 3 texts at the parser; 2 passwords, a modification, 2 attempts to connect, 2 windows for OAuth.

Why the bounds are enough. In TaskManager two requests of one bin are what folding needs, a
simple task is the other life cycle, and two in a batch are what a queue needs; two crashes let
the process die while it restores what an earlier crash left; one abort and one failure can hit
any transaction and any job; three changes of resources take one away, bring another back and
change again before a marker runs. In WindowedList two conversations and two dates make an
item enter, leave and cross a window of one or two rows, with ties; three writes are an addition,
a move and a deletion of one conversation, or changes of both. In EntireList two items are enough
for entries that shift each other's index, and a change amended before, between and after
them. In TaskGroups four tasks are enough for the nested group, its adoption by another parent,
and a task that joins a group twice. In CronSync two accounts give alarms that overlap, are joined into
one ensureSync and hand a lock over; the second fault hits the recovery from the first. In Outbox a
message that is sent, aborted and sent again while another is under way takes four commands, and one that is
saved in the outbox while the cache knows it takes two. The run has the account types that append or file what was sent; one whose server files it
(`"server"`) does what `"append"` does, but for the append, and is in the proofs. In the
engines two messages are enough for a slot that is given back and taken again by the other one, and for a
range of dates that one has left. In the pool three callers are enough for one that has a
connection, one that waits and one that comes when it dies. Downloads cross the boundary of a chunk in the middle and at
the end of a body. A text of four lines has any two blocks with a blank line between or around them, and a quote below a lead-in of
two lines; all seven kinds of lines and both depths are in it. The literals of quotechew are smaller than in the code (a byte holds 3, a quote is
repeated to depth 1, the scan for boilerplate sees 3 lines) so that such texts overflow them. That threads stop growing is computed from each text of two lines over `MaxRepeat + 4` replies, the last of which must change nothing; without the limit it fails. Five tasks make a heap with a node that has two
children, one of them with a child, which is what a cut with siblings to lose needs. Of requests two are enough for one that waits behind the other's task,
and for a deletion that meets a remaking; a third adds only others that wait. Their two troubles let a task fail before a crash, or after it. All bounds are CONSTANTS named `Max...` and appear in guards of environment
actions, but for a few that hold back the system where it could go on for ever: `MaxBehind` (EntireList) holds
a flush back while that many updates are under way, `MaxTasks` keeps a job from spawning more, and
`MaxUmids`, `MaxConvs` and `MaxFolders` end the issue of ids.

`CHECK_DEADLOCK FALSE` everywhere: with the bounds spent and nothing left to do these systems are
idle, which is what they should be.

## 4. Fairness

- TaskManager: weak fairness of the boot, of each kind of commit, of `TimerFires` and of
  `JobFinishes`. The user starts the app again, IndexedDB completes transactions, timers fire, a
  job that does not fail returns. Nothing is assumed of schedulers, of resources, of `Aborts` and `JobFails`;
  the liveness properties are checked in an instance where these two are bounded by 0 because an
  abort that is not announced wedges the manager for good (`maildb.js:394-403`), and a failed
  task is dropped by the code on purpose.
- WindowedList: one weak fairness condition for `TimerFires`, `WriteCommits`, `ReadProgresses`
  and `Deliver` together. The event loop serves one of them, in any order. The environment's
  writes, drops and seeks are bounded; a cache that is dropped each time between a read and the
  flush that waits for it would keep the list from settling.
- EntireList: weak fairness of `View`, `Flush` (the timer of BatchManager) and `Deliver`.
- TaskGroups: one weak fairness condition for writes, plans and executions together. The resources
  that markers wait for are taken to be there.
- CronSync: weak fairness of what each side does with a message or an answer it has
  (`SystemReady`, `MainReceives`, `OnSyncEnsured`, `AlarmDispatch`, `OnAlarm`, `GotAlarms`, `AlarmAdded`) and of the end
  of tasks (`TaskEnds`). Neither alarms nor faults are assumed; a request that a fault leaves unanswered is excepted.
- Outbox: weak fairness of planning, executing, the server's answer and the restart, together. The user is
  not assumed to do anything, nor are connections assumed to fail, or not to.
- Engines: the device is left alone again and again (`[]<>AtLeisure`: TaskManager has run what was
  queued, nothing is being answered), and a marker of a flag change that is ready again and again runs
  (strong fairness, as resources come and go). Both are what `TaskManager` shows of its queue and what
  a network that is up at times means.
- Accounts: weak fairness of loads, timers, attempts to connect (which succeed or fail) and the closing of connections.
- `StandaloneParts` and `ClientSide`: none, their properties are of safety.

## 5. Properties that are only model-checked

- Liveness: `AcceptedIsPlanned`, `OwedIsExecuted`, `Settles`, `PromiseKeptUnlessLeaky`,
  `Concludes`, `SendsSettle`, `AllPlayed`, `Answered`. Liveness under fairness is beyond the proof system.
- The fairness in `ImplementsListMirror`; the rest of the refinement is proved.
- `BridgeInStep` and `SeeksMoveTheirView`: the queues of `Bridge` are folded over (`FoldSet`).
- `TablesAccount`, `AllInStep`, `DataInStep`, `FeedInStep`, `RequestsInStep`: no proof has been written (section 8).
- `TextInStep` and `PrioritiesInStep`: texts are folded over, and the heap needs RECURSIVE operators (consolidate, cascadingCut), which no module with a
  theorem may reach.
- `FoldersInStep`, `UndoInStep`, `DirectoryInStep`, `BridgeInStep`: the models fold over a list or a set where the code loops, and what a fold
  computes for every input needs induction over data.

Two theorems, like the run that checks their properties, are for a database that does not abort (`MaxAborts = 0`).

## 6. Proofs

All theorems hold for every value of the constants that satisfies the named ASSUMEs
(`TaskManagerAssumption`, `TaskGroupsAssumption`, `WindowedListAssumption`, `EntireListAssumption`, `CronSyncAssumption`, `OutboxAssumption`,
`ConnAssumption`, `NewsAssumption`, `CredsAssumption`, `ServersAssumption`, `ContactsAssumption`, `DraftsAssumption`): finite sets of ids,
disjoint kinds of ids, natural numbers as bounds. They rest on nothing else.

**Type correctness** (`TaskManagerProofs!TypeCorrect`). `TypeOK` is not inductive: `AddCommits`
subtracts one from `pendingPlanWrites`. The invariant adds `WritesCounted`: there are at most as
many `addTasks` transactions in flight as the manager counts (an aborted one stays counted). The
lemmas before it say how the number of such transactions changes when the queue of transactions
grows or is answered, and how enqueuing, filing and `_maybeDoStuff` keep types.

**Safety** (`TaskManagerProofs!OneHomeHolds`, `QueueIsDurableHolds`, `SortedByNeedHolds`). One
inductive invariant, `IInv`, with these parts besides types:
`Asleep` (no job before the boot is over, nothing known before tasks are loaded),
`InFlight` (one job waits for at most one finishMutate, and no task is brought by two transactions),
`Distinct(tasksToPlan)`, `Homes` (for each task, which of the places disk, transaction, plan queue,
heap, running job and ending transaction exclude each other, and that a persistent queued task has its raw
record), `Apart` (nothing is both ready and blocked or waits while it executes), and `Sorted`.
The transactions are part of it because a task that is about to be enqueued is, until the commit, nowhere else.
Each action has a lemma that it keeps all parts (`...Placed`), and `IInvStep` puts them together.

**Upkeep** (`TaskManagerProofs!PlannedBinHasMarkerHolds`, `QueueEmptyIsTrueHolds`). The first from
`Marked`: a planned bin is in progress, or its marker is in the heap or blocked, which only
`ExecuteNext` ends and that marks the bin in progress. The second from `IInv`, `Exhausted` (what
`_maybeDoStuff` has seen when it emits the event still holds in that turn) and
`FailsafesBringNothing` (a fail-safe's transaction carries no new task, so nothing in flight can
refill the queue).

**Records** (`TaskManagerProofs!NoRawForgottenHolds`, `RunsInOrderHolds`, `OwedIsDurableHolds`).
On top of `IInv`. `Remembered`: a raw record has a task in memory that stands for it, or a transaction that
deletes it, or was given up; the transaction matters because the queue lets a task go before its record is
gone. `Recorded` and `InOrder`: what has durably become of a task, its record and where it is agree, so
that a task is planned once and executed after its plan has committed. `Saved`: the stored
state of a bin with a folded request has its marker, in every transaction that is yet to commit as well.

**TaskGroups** (`TaskGroupsProofs!GroupsAccountHolds`). The tables of the tracker change only in its
methods, so each method is shown to keep the invariant first, and each action follows from the
methods it calls. `GroupsInv` has, besides types: `Sound` (what the tables refer to exists, the groups that
tasks are found by are open, and a group is resolved when it counts nothing), `Exact` (a group counts the tasks it owns
and the open groups within it, but for those in `leaky`), `Found` (each group that a thing is part of is
reached by climbing to parents from the thing's own group or from a group that lost track) and `Apart` (a task
is queued, in the heap, planned or being added, once). `Found` is why nothing resolves early: the groups on the
way up from an open group are open. The argument for `Exact` when a thing ends: a group that ends has nothing else in it, so the groups
that end with it form one chain (`FewAreHeard`, `UpOnlyChild`), and the first that stays loses exactly one.

**WindowedList** (`WindowedListProofs!BelievedIsKnownHolds`, `RowsAtRestHolds`). The proxy's picture is of a view that is
several messages behind, so the invariants speak of messages. `Told`: for each id in `validDataSet`
there is a position, the view or a message under way, that brings its object, and every later message lists
the id, so that the view keeps it. `Shows` adds to it `Placed` (while nothing is dirty, the last ids sent are the window, as long as
the anchor stayed), `Filled` (each row has its object or a read is under way that will flush again, and the proxy follows it or has
lost track of it) and `Fresh` (the last that was said of a valid item is its record and its overlay). That a change "in place" does not move
the window needs the order itself: `Ordered` gives each conversation the place that counts those ahead of it, and two lists in which one conversation has
another date but the same place have the same order (`SameAhead`), since sets of those ahead of it are comparable.

**EntireList implements ListMirror** (`EntireListProofs!ImplementsMirror`: `Spec => Mirror!Spec /\ []TypeOK`). A message is a
list of positional changes, and what it does to the view is a recursive function of it. The proof speaks of ways instead: a sequence
of worlds (`World`: an order of ids, a version and an overlay of each), one per change, each made of the one
before by the change (`Turns`). `Stands`: there is a way from the list of the message before to the list that `listings` has for this one;
then the view gets there (`StandsReplayed`, by the least change at which it would not). `Pending`: there is a way from
the last list sent to the list as it is, and for each item in `_idToChangeIndex` the entry it names is about the item
and no later one is (`Owns`). That is what makes merging right: amending the entry gives a new way, whose worlds from that entry on have what is new of the item
(`Amended`), and the changes after it do the same in those worlds, since they are about other items (`TurnsElsewhere`). An entry whose
item has been removed since is never amended, because the removal takes the item out of the index. Recursive functions are shown to exist and to be unique by least
counterexamples (`UpTo`), since theorems of induction that take an operator cannot be used.

**CronSync** (`CronSyncProofs!CronInStepHolds`, `CompleteIsSafeHolds`). `CronInv` adds to `TypeOK` and
`LocksAccounted`: `LocksApart` (a lock is with one party: an alarm being fetched or dispatched, a countdown, a message that
gives it back; and it is below `nextLock`), `OneRequest` (ensureSync is with one of a message to the document, the
document's own work, and the answer, and only while the promise is pending; what it no longer looks for is set, gone off,
failed or missed) and `OffIsEmpty` (a process that is off keeps nothing). `AlarmsEnsuredUnlessMissed` follows, as only
that one request can end the promise. `CompleteIsSafe` is a property of steps, from the same invariant.

**Outbox** (`OutboxProofs!OutboxInStepHolds`, `SentOnceHolds`, `DraftsStayHomeHolds`). `OutboxInv` has
types, `Counted` (orders, files and sends never outrun the commands), `Known` and `JobKnown` (what queued tasks and
the job are about), `Accounted`, `Driven` and `InOrder` (the parts of the property), `OrdersApart` (no two messages with one order),
`Balance`, `Chained`, and for what a send carries `Later` (each queued save has a later text than the disk and the saves before it) and
`CacheKnown` (what the cache knows of a message is the message, or the message before a save, but not before its send was planned). `Balance` is what makes `SentOnce` inductive: a message in `messageIdsToSend` is owed one more delivery, unless the
server has just accepted it. `Chained` says that what is on disk and the tasks queued for a message, each
continuing the one before it, add up to what the user made of it; a crash loses the tasks that do not persist, and
what is left is an increasing selection of the queue (`Survive`) on which the chain is re-established.

**AccountServices** (`AccountServicesProofs`). The parts share no state, so each has an invariant of its own, and a theorem follows
from the part's initial states and steps: `part` never changes.

`AccountInStepHolds`, from `AccInv`. A method of `errbackoff.js`, `account.js` or `parallel_imap.js` is a function from a pool to a pool, so there
is one lemma for each (`MakeConnectionHolds`, `AllocateHolds`, ...) that it keeps `PoolOK`: `Linked` (ids are distinct, and the one connection in use is the
client's), `Demanded` (there is a demand exactly while the client's promise is pending) and `OneAttempt`, which is stronger than what the
property says: there is room in the pool for the attempt that is under way, or the pool could outgrow `MaxConns`. The second half is
about the manager: `FoldersAre` (what loads may be under way in each state of the account, and that the instance is made of the last folders that were read),
`ListIs`, `StashIs` (a connection that was kept from the creation is on its way to the instance) and `PoolIs` (the pool is as it was made, or shut
down with all it owns being closed, unless a connection was on its way at the shutdown).

`NewsAreTrueHolds`, from `NewsInv`: `NewsFiled` (what is being written is not in the inbox yet, what is tracked is there unread), `NewestTracked` (the date that newness is
decided by is of a message that arrived, so that the newest one that was left alone is tracked) and `ToldOrDue` (the user has been told of what is tracked, or a flush or the
end of a task group will, or the news was lost; a silent clear is a case of its own until it is written).

`CredentialsInStepHolds`, from `CredInv`, which adds to the property what has happened by each stage (`CredStages`), that a forced renewal is noted
as long as it counts (`RenewedOnce`), and that every renewal under way is of the grant that the token is to be of (`TokenAsked`).

`ServersAreTrueHolds`, from `LookInv`: `AskedOnly` (only the sources of the group that is being asked have a request), and as long as texts did not
overlap `OwnText` (the text with the parser is of the one request that waits), `OwnConfig` (a resolved request has the config it gave) and `GaveNow` (no source of an
earlier group gave one). `ConfigIsBest` puts the groups together: the sources of an earlier group are all preferred to those of a later one.

**ClientSide** (`ClientSideProofs`). As in `AccountServices`, the parts share no state.

`ContactsInStepHolds`, from `ContactInv`. The registries are `Registered` at every moment. That views, cache and book agree when
all is heard is an invariant of what is still to come: if the cache or a peep says something that the book does not, then a notice, an answer or a
second lookup is under way that will set it right, unless an answer that had been overtaken or was an error was applied to the address, or a second lookup failed (`CacheFollows`, `PeepsFollow`). This needs to know
what the notices under way are about (`InOrder`: of a contact that is gone the last notice is that it was removed, of one that is there
the first is that it was created and the rest that it changed), that a contact is looked up again only after it was heard of (`HeardOf`), that
whatever was ever found was so once (`HadOnce`), and that a change of the book finds a cache that is dropped or holds only what is being looked up (`CacheCounted`).

`ComposeInStepHolds`, from `DraftInv`. That composer and draft agree when nothing is on its way, and that what is sent is what was meant, are
statements about tasks that have not been planned, so the invariant says what the draft will be (`ToBe`). `LeadTo(p)`: there are lists of files, one
before and after each queued task, which go from those of the draft to `p`, each made of the one before by its task, and none of
which has an id twice; a task that is added lengthens the way (`LeadsFurther`), one that is carried out shortens it (`LeadsOn`), and what a crash leaves
of the queue is no longer about files (`LeadsNowhere`). `TextToBe(t)`: the last task that saves, on its way to the database or queued, saves `t`, or none
does and the draft has it. `OneOpen` (an uncrowded draft has one composer, and nothing is on its way that ends the draft
while it is open) and `SendsLast` (nothing comes after a task that sends, until the first crash) make the way end where the composer was.
## 7. Findings

`loss` is a run that violates a property which states what the repository says of itself:
finishMutate looks for `revisedTaskInfo.state`, finishTask sets `value`; committing the
plan of a simple task deletes its record, and a crash then loses the task (`maildb.js:1932`).

The passing runs model what the code does, also where it does not do what it seems meant to. Where that
touches a property, the property excepts the case by a history variable set at the step at which the code
loses track (`behind`, `leaky`, `missed`, `interrupted`, `stuck`, ...), so that everything else is still checked. What was met in this way, by
component (paths below `src/src/backend` unless they begin with `clientapi` or `worker-support`):

- TaskManager: no caller of `resourceAvailable` looks for work afterwards (`task_infra/task_resources.js:51-58`);
  restored work runs without the wake lock (`task_infra/task_manager.js:81`, `92-151`); `maildb.js:1162-1164` promises
  what aborts do not keep.
- Lists: an update with only an overlay takes the item out of the set the proxy watches, and its next change is
  not sent (`db/folder_convs_toc.js:345`); the answer of a read that was issued before a deletion puts the deleted
  record into the cache (`maildb.js:463`); `_active` of EntireListProxy is never set (`entire_list_proxy.js:66`). The folders a view begins with are not in their wire
  form (`db/folders_toc.js:362-364`, unlike `db/accounts_toc.js:63-65`), so that a MailFolder lacks what the account and the engine say (`clientapi/mail_folder.js:90`, `112`) until an event is about it.
- Task groups: a group that is joined again loses its parent, which then never resolves (`task_group_tracker.js:74`).
- Vanilla IMAP and flag stores: `sync_grow.js:24-25` and `task_mixins/mix_store_flags.js:160-164` say otherwise than what they
  do; `delta_algebra.js:98`, `113`: adding to a list may add twice.
- Gmail: `sync_refresh` throws (`a64` is not imported, `imap/gmail_tasks/sync_refresh.js:189`, `201`); `mix_store.js:307`, `328` reuse of buckets.
- ActiveSync: the flag store reads a location that may be null (`activesync/tasks/store_flags.js:76-79`), `moreToSync`
  is read as `moreAvailable` (`enum_folder_changes.js:201`, `sync_refresh.js:176`).
- Cron sync: consolidation in ensureSync may miss an alarm (`universe/cronsync_support.js:110-115`), an error of
  `getAll` is never answered (`worker-support/cronsync-main.js:284`).
- Outbox and drafts: `pause` and `paused` (`mailuniverse.js:996`), ids of markers (`task_mixins/mix_outbox_send.js:243`, `251`, `292`),
  `tasks/draft_save.js:34`, `69`. A save that is planned after the send finds a message in the cache and does not tell it
  (`maildb.js:1476-1485`), and `execute` reads from the cache (`task_mixins/mix_outbox_send.js:342-345`): the message goes out as it was before that save. A save before
  the send does no harm, since `_planSend` writes the message with the date it has and that write tells the cache
  (`maildb.js:1486-1489`). If the cache does not know the message, a save after the send makes the read by the old date miss it, and `execute` throws.
- Connections: `errbackoff.js:28-34`, `124`, `157-159` differ from the header comment (`39-46`); `__reportAccountProblem` does
  not exist (`accounts/imap/account.js:357`).
- AccountManager: `universe/account_manager.js:171`, `174`, `363`: a removal during a load, a second load;
  `db/accounts_toc.js:104` splices at -1.
- Bridge: a typo keeps the clean-up of a whole bridge from working (`bridge/bridge_context.js:164`); `_sendPromisedRequest` is never answered if the command throws.
- Mail data: `maildb.js:1085`, `1108`, `1116` and `1476-1484`; `db/conv_toc.js` keeps messages that were moved.
- Downloads: a second snippet counts twice; an attachment whose size is a multiple of the chunk is never complete;
  `in` is used on a Map (`task_mixins/mix_download.js:248`); a failed execution leaves the overlay active.
- New mail: the initial sync counts as new, and a deferred flush does not survive a restart (`tasks/new_tracking.js`).
- Folders: ids are issued again after a deletion (`db/folders_toc.js:171-172`), the order breaks beyond 64 folders.
- Feeds: a page that is full of one date does not advance the cursor, and edits in the second of the cursor
  are passed over (`accounts/phabricator/tasks/sync_refresh.js:115`); the authored size of the old comment is compared with the
  raw length of the new one (`accounts/bugzilla/chew_bug.js:131-132`): a comment with a quote is written again at each sync, and an edit that comes to the old
  authored size is missed; a comment without text never gets any (`127`); tasks queued after the cursor moved are lost by a crash.
- Credentials: `tasks/account_modify.js:22` does not wait for what it reads, so that a new password or user name throws before anything is
  written (`59`, `63`); `29` overwrites the map, `tasks/config_modify.js:38-43` throws, half of the OAuth tokens are
  applied, a late renewal overwrites a re-authorization (`oauth.js:84`), both probes renew at once.
- Autoconfiguration: the parser's answers do not say which text they answer; `_getConfigFromMX` is dead code.
- Client: `clientapi/contact_cache.js:372-374`; a lookup that fails is cached as a miss (`416`), and when the request after a change fails the
  peeps keep what they had, which the comment at `269-270` expects only of a contact that is removed; undoing mark-as-read (`delta_algebra.js:20`); `accountsLoaded` may never resolve;
  a reply to nobody, and a `bcc` that is taken from `cc` (`drafts/derive_quoted_reply.js:81`); who was in both `to` and `cc` is addressed twice by a reply to all.
- Requests: never answered are `modifyConfig` and `getPersistedLogs` (no such command of the bridge), clearing account problems (methods that do not
  exist), drafts saved or deleted (`mailbridge.js:684-689` does not answer), failed creations of accounts and drafts (`mailbridge.js:652`, `mailuniverse.js:608-632` take a
  null apart), a plan that fails where an execution is waited for, and a type that an engine lacks, if the manager is idle (`task_manager.js:228`);
  remaking an account is lost if the process ends between the deletion and the migration (`mailuniverse.js:642-665`).
- Message bodies (`bodies/quotechew.js`): a lead-in of two lines takes the last character of the line above it (`621`); blank lines at the start
  are counted twice when nothing but a quote follows (`414`), lost where a signature is merged (`326`) or after a quote that ends the text; a quote without text gains a
  line; two lines or more quoted nine deep become "undefined" (`752-755`, `778`). A reply has a blank line between a lead-in and its quote
  (`837`), which the comment at `806` and `test_quoting_reply.js` do not want. The blank line after a quote is one `>` less deep than the quote
  (`760-763`, `849`, as `test_quoting_reply.js:104-108` expects), so that the next reply may read it as a quote without text: such quotes come and go over the replies
  of a thread, get deeper and are dropped like others at `MAX_QUOTE_REPEAT_DEPTH`, so that the thread still stops growing.
- TaskPriorities: a cut drops the siblings of what is cut (`src/src/vendored/fibonacci-heap.js:159`), lowering a task leaves the map at its old node
  (`task_infra/task_priorities.js:190`), and `setPriorityBoostTags` would throw (`171`) if it had a caller.
- POP3: the tasks call methods that the connection does not have (`loadMessageList`, `downloadMessageByNumber`), and its
  streams are null (`pop3.js:21`).

## 8. Plan

Done: every component of section 1 that is in reach, but for those in section 9. Next:

1. `RequestsInStep` and `FeedInStep`; then `DirectoryInStep`, `FoldersInStep` and `UndoInStep`, once their folds have closed forms.
2. `SlotsAccount` of ImapSync, then `ViewIsServerPlusPending`.

## 9. Not modelled

- Priority tags: `setPriorityBoostTags` has no caller.
- POP3: its tasks throw before they change anything (section 7).
- Parsing and composing of protocols, MIME, HTML and search excerpts: transformations of data
  inside one task. Where their result matters (a size, an id, a date, an address) it is an input of the action.
- Logging, disaster recovery, the logic inspector, build files and vendored code: no behaviour of the system's own.
- Within modelled components, what the `note` of each component in `PROJECT.json` lists: locks and
  subtasks of a task's context, several folders at once in the engines, coordinates and metadata of lists, the wire format.
