----------------------------- MODULE StandaloneParts -----------------------------
(***************************************************************************)
(* Parts of the back end that share no state with each other: the lists    *)
(* that a search fills (Search), the records, indexes, cache and message   *)
(* lists of the database (MailData), what is fetched of a message later    *)
(* (Downloads), what is made of its text (Quoting), the heap that orders   *)
(* the tasks (TaskPriorities), and the requests that wait for tasks        *)
(* (Requests).  A behaviour is one of one of them, the variables of the    *)
(* others stay unused, and a name that several have is one variable.       *)
(***************************************************************************)
EXTENDS Search

CONSTANTS
    Msgs, Drafts, Folders, Watched, Conv, Absent, MaxTasks, MaxReads,
    Parts, BodySize, PartSize, SnippetLength, ChunkSize, MaxRequests, MaxTroubles,
    Kinds, Quotes, MaxScan, MaxRepeat, Deepest, Byte, MaxLines, MaxReplied, MaxReplies,
    Ids, Needy, Keys, MaxInserts, MaxRemovals,
    MaxAsked

\* Numbers that the code has as literals.
ASSUME StandaloneAssumption == {MaxScan, MaxRepeat, Deepest, Byte} \subseteq Nat \ {0}

VARIABLES
    part,
    (* MailData *)
    msgs, conv, convRows, msgRows, unread, count, cache, task, reads, tocs, ids, crowded, ghosts, redated,
    (* Downloads *)
    engine, bodyOf, partOf, states, rawTasks, alive, planned, persistentState, bodyMarker, markers, job,
    skewed, wanted, wantedFull,
    (* both *)
    used,
    (* Quoting *)
    text, rep, received, replies, inARow,
    (* TaskPriorities *)
    node, minNode, nodeCount, heapNodeOf, tracked, popped, removals, latest, severed, moved,
    (* Requests *)
    asked, unanswered, timers, answers, recording, toPlan, prioritized, active, listening, microtasks,
    account, latched, made, wish, crossed, torn, failed, eager, reloads

Data  == INSTANCE MailData WITH MaxWrites <- MaxTasks
Later == INSTANCE Downloads WITH Messages <- Msgs, SizeEstimate <- BodySize, Nothing <- None
Text  == INSTANCE Quoting
Heap  == INSTANCE TaskPriorities
Request == INSTANCE Requests WITH writes <- recording, MaxTroubles <- MaxAsked

dataOnly   == <<msgs, conv, convRows, msgRows, unread, count, cache, task, reads, tocs, ids, crowded,
                ghosts, redated>>
laterOnly  == <<engine, bodyOf, partOf, states, rawTasks, alive, planned, persistentState, bodyMarker,
                markers, job, skewed, wanted, wantedFull>>
searchOnly == <<record, phase, loaded, buffered, entering, gathering, queuedSet, knownFilteredSet, rows,
                derived, spoiled, writes>>
textVars   == <<text, rep, received, replies, inARow>>
heapVars   == <<node, minNode, nodeCount, heapNodeOf, tracked, popped, removals, latest, severed, moved>>
requestVars == <<asked, unanswered, timers, answers, recording, toPlan, prioritized, active, listening,
                 microtasks, account, latched, made, wish, crossed, torn, failed, eager, reloads>>

NoData ==
    /\ msgs = None /\ conv = None /\ convRows = None /\ msgRows = None /\ unread = None /\ count = None
    /\ cache = None /\ task = None /\ reads = None /\ tocs = None /\ ids = None /\ crowded = None
    /\ ghosts = None /\ redated = None
NoLater ==
    /\ engine = None /\ bodyOf = None /\ partOf = None /\ states = None /\ rawTasks = None /\ alive = None
    /\ planned = None /\ persistentState = None /\ bodyMarker = None /\ markers = None /\ job = None
    /\ skewed = None /\ wanted = None /\ wantedFull = None
NoSearch ==
    /\ record = None /\ phase = None /\ loaded = None /\ buffered = None /\ entering = None
    /\ gathering = None /\ queuedSet = None /\ knownFilteredSet = None /\ rows = None /\ derived = None
    /\ spoiled = None /\ writes = None

NoText == text = None /\ rep = None /\ received = None /\ replies = None /\ inARow = None
NoHeap ==
    /\ node = None /\ minNode = None /\ nodeCount = None /\ heapNodeOf = None /\ tracked = None
    /\ popped = None /\ removals = None /\ latest = None /\ severed = None /\ moved = None
NoRequests ==
    /\ asked = None /\ unanswered = None /\ timers = None /\ answers = None /\ recording = None
    /\ toPlan = None /\ prioritized = None /\ active = None /\ listening = None /\ microtasks = None
    /\ account = None /\ latched = None /\ made = None /\ wish = None /\ crossed = None
    /\ torn = None /\ failed = None /\ eager = None /\ reloads = None

AnyInit ==
    \/ part = "search" /\ Init       /\ NoData   /\ NoLater /\ NoText /\ NoHeap /\ NoRequests /\ used = None
    \/ part = "data"   /\ Data!Init  /\ NoSearch /\ NoLater /\ NoText /\ NoHeap /\ NoRequests
    \/ part = "later"  /\ Later!Init /\ NoSearch /\ NoData /\ NoText /\ NoHeap /\ NoRequests /\ overtaken = None
    \/ /\ overtaken = None /\ used = None /\ NoSearch /\ NoData /\ NoLater
       /\ \/ part = "text"     /\ Text!Init /\ NoHeap /\ NoRequests
          \/ part = "heap"     /\ Heap!Init /\ NoText /\ NoRequests
          \/ part = "requests" /\ Request!RequestsInit /\ NoText /\ NoHeap

AnyNext ==
    /\ \/ part = "search" /\ Next       /\ UNCHANGED <<dataOnly, laterOnly, used, textVars, heapVars, requestVars>>
       \/ part = "data"   /\ Data!Next  /\ UNCHANGED <<searchOnly, laterOnly, textVars, heapVars, requestVars>>
       \/ part = "later"  /\ Later!Next
          /\ UNCHANGED <<searchOnly, dataOnly, overtaken, textVars, heapVars, requestVars>>
       \/ /\ UNCHANGED <<searchOnly, dataOnly, laterOnly, overtaken, used>>
          /\ \/ part = "text"     /\ Text!Next /\ UNCHANGED <<heapVars, requestVars>>
             \/ part = "heap"     /\ Heap!Next /\ UNCHANGED <<textVars, requestVars>>
             \/ part = "requests" /\ Request!RequestsNext /\ UNCHANGED <<textVars, heapVars>>
    /\ UNCHANGED part

anyVars == <<part, dataOnly, laterOnly, searchOnly, overtaken, used, textVars, heapVars, requestVars>>

AnySpec == AnyInit /\ [][AnyNext]_anyVars

-----------------------------------------------------------------------------
(* Properties; what is excepted is said in the module of the part. *)

\* What is shown is what there is: the results of a search are the conversations
\* that match, an open list has the messages that the database has for it and the
\* cache their records, and what counts as downloaded is whole.
ShownIsStored ==
    CASE part = "search" -> SearchIsExact
      [] part = "data"   -> Data!ListsAreExact /\ Data!CacheIsCurrent
      [] part = "later"  -> Later!DownloadedIsWhole
      [] OTHER           -> TRUE

\* The books that are kept on the side are right: a search knows what it told the
\* list, the rows by folder and the counts agree with the records, and what is to
\* be downloaded is pending, in memory as on disk, and has its marker.
BooksBalance ==
    CASE part = "search" -> RemovalsAreKnown
      [] part = "data"   -> Data!TypeOK /\ Data!IndexAndCountsAgree
      [] part = "later"  -> Later!RecordsInStep
      [] OTHER           -> TRUE

\* What is shown is stored, and the books agree with it.
DataInStep == ShownIsStored /\ BooksBalance

\* The blocks that are made of a text have all of it, and the replies and forwards
\* that are made of them say what it said.
TextInStep == part = "text" => Text!QuotingInStep

\* The heap of what is ready and the map from ids to its nodes agree, and what is
\* taken from it comes first.
PrioritiesInStep == part = "heap" => Heap!PrioritiesInStep

\* Whoever waits for an answer gets one, once, that is true, and the account is
\* there or not as was last asked for; Requests says what is excepted.
RequestsInStep == part = "requests" => Request!RequestsTypeOK /\ Request!RequestsInStep

\* Tasks are taken in their order, and who waits for one hears of its end.
TasksInStep == PrioritiesInStep /\ RequestsInStep

-----------------------------------------------------------------------------
(* Values for an instance. *)
OneAndTwo == {1, 2}
Bodies == <<4, 3>>                \* longer than a snippet
Files == [a1 |-> 3, r1 |-> 2]     \* the second one ends with a full range

=============================================================================
