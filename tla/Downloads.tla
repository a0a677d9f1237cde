------------------------------- MODULE Downloads -------------------------------
(***************************************************************************)
(* What is fetched of a message after its envelope: snippets and bodies    *)
(* (sync_body, a request that lives in memory) and attachments and related *)
(* parts (download, whose record of pending parts is written to disk), of  *)
(* the messages of one conversation.                                       *)
(*                                                                         *)
(* One task runs at a time (TaskManager).  A sync_body writes once, at its *)
(* end; a download writes after each piece, so that it can die in between. *)
(* A task that fails is dropped, and what it planned to do stays planned.  *)
(* A body is the sequence of its bytes 1, 2, ...; one body to a message.   *)
(***************************************************************************)
EXTENDS Integers, Sequences, FiniteSets, SequencesExt

CONSTANTS
    Messages, Parts,
    BodySize, SizeEstimate,  \* of each message: its bytes, and what the server said
    PartSize,                \* of each part
    SnippetLength,           \* DESIRED_SNIPPET_LENGTH
    ChunkSize,               \* downloadChunkSize
    Nothing,
    MaxRequests, MaxTroubles \* bounds: requests of the user; failures, restarts, deletions

VARIABLES
    engine,              \* "imap" or "activesync", which has no downloads here
    (* on disk *)
    bodyOf,              \* amountDownloaded, pendingBuffer, isDownloaded, contentBlob
    partOf,              \* downloadState and file
    states,              \* complexTaskStates: partDownloads of each message
    rawTasks,            \* requests that are not planned
    alive,
    (* in memory *)
    planned,             \* the sync_body request
    persistentState,     \* what the download task thinks that the disk has
    bodyMarker, markers, \* the marker of sync_body; messages with one of download
    job,                 \* the download that runs
    (* history *)
    skewed,              \* bodies that were fetched a second time in part
    wanted, wantedFull,  \* what was asked for and is not settled by a failure
    used

onDisk   == <<bodyOf, partOf, states, rawTasks, alive>>
inMemory == <<planned, persistentState, bodyMarker, markers, job>>
history  == <<skewed, wanted, wantedFull>>
vars     == <<engine, onDisk, inMemory, history, used>>

Targets == {"cache", "save"}

Least(a, b) == IF a < b THEN a ELSE b
Bytes(a, b) == [i \in 1..(b - a + 1) |-> a + i - 1]

-----------------------------------------------------------------------------
(* Bodies: the execute of sync_body. *)

\* fetchBody of a range; a server has nothing to say past the end.
Served(m, offset, count) == Bytes(offset + 1, Least(offset + count, BodySize[m]))

\* The range that imap_mix_sync_body asks for.
ToFetch(m, snippet) ==
    IF snippet /\ SizeEstimate[m] > SnippetLength THEN SnippetLength ELSE SizeEstimate[m] * 5

\* The parser is given the bytes that are pending and the new ones and counts
\* both; updateMessageWithFetch takes the sum for the bytes that were fetched.
\* Only the parser of snippets keeps the bytes for the next time.
WithFetch(m, snippet) ==
    LET b     == bodyOf[m]
        whole == ~snippet /\ b.amount = 0
        text  == b.pending \o (IF whole THEN Bytes(1, BodySize[m])
                               ELSE Served(m, b.amount, ToFetch(m, snippet)))
        done  == whole \/ Len(text) < ToFetch(m, snippet)
    IN  [amount  |-> b.amount + Len(text), done |-> done,
         pending |-> IF done THEN << >> ELSE IF snippet THEN text ELSE b.pending,
         content |-> IF done THEN text ELSE b.content]

\* fetchBody throws when nothing is returned.
Unfetchable(m) == bodyOf[m].amount >= BodySize[m]

\* The messages that are fetched: all when there is a budget.
ToDo ==
    IF engine = "activesync" THEN alive
    ELSE {m \in alive : ~bodyOf[m].done /\ (planned.snippet \/ m \in planned.full)}

\* ActiveSync: whole or, for a snippet of a longer body, not kept.
WithDownload(m, snippet) ==
    IF snippet /\ SnippetLength < SizeEstimate[m] THEN bodyOf[m]
    ELSE [amount |-> 0, done |-> TRUE, pending |-> << >>,
          content |-> Bytes(1, IF snippet THEN Least(SnippetLength, BodySize[m]) ELSE BodySize[m])]

Fetched(m, snippet) ==
    IF engine = "imap" THEN WithFetch(m, snippet) ELSE WithDownload(m, snippet)

\* A range was added to a pending one, so amountDownloaded has run ahead.
Skews(m) == /\ engine = "imap" /\ bodyOf[m].pending # << >>
            /\ ~Fetched(m, planned.snippet).done

ExecuteBody ==
    /\ job = Nothing /\ bodyMarker /\ bodyMarker' = FALSE
    /\ engine = "imap" => \A m \in ToDo : ~Unfetchable(m)
    /\ bodyOf' = [m \in Messages |-> IF m \in ToDo THEN Fetched(m, planned.snippet) ELSE bodyOf[m]]
    /\ skewed' = skewed \cup {m \in ToDo : Skews(m)}
    /\ wantedFull' = IF planned.snippet THEN wantedFull \ planned.full ELSE wantedFull
    /\ planned' = Nothing
    /\ UNCHANGED <<engine, partOf, states, rawTasks, alive, persistentState, markers, job, wanted, used>>

\* It dies at a body that has nothing left to serve, or by the network.
BodyFails ==
    /\ job = Nothing /\ bodyMarker /\ bodyMarker' = FALSE
    /\ \/ engine = "imap" /\ (\E m \in ToDo : Unfetchable(m)) /\ UNCHANGED used
       \/ used.trouble < MaxTroubles /\ ToDo # {} /\ used' = [used EXCEPT !.trouble = @ + 1]
    /\ wantedFull' = wantedFull \ planned.full
    /\ UNCHANGED <<engine, onDisk, planned, persistentState, markers, job, skewed, wanted>>

\* plan: merged into what is planned; a bound that is there stays.
PlanBody(raw) ==
    /\ job = Nothing /\ raw \in rawTasks /\ raw.type = "sync_body"
    /\ rawTasks' = rawTasks \ {raw}
    /\ planned' = IF planned = Nothing THEN [snippet |-> raw.snippet, full |-> raw.full]
                  ELSE [snippet |-> planned.snippet \/ raw.snippet, full |-> planned.full \cup raw.full]
    /\ bodyMarker' = TRUE
    /\ wantedFull' = wantedFull \cup (raw.full \cap alive)
    /\ UNCHANGED <<engine, bodyOf, partOf, states, alive, persistentState, markers, job, skewed, wanted, used>>

-----------------------------------------------------------------------------
(* Parts: plan and execute of download. *)

NoParts == [p \in Parts |-> Nothing]

Pending(record) == {p \in Parts : record[p] # Nothing}

\* A part that is tracked is reset by a second request: "in" does not ask a Map.
PlanDownload(raw) ==
    /\ job = Nothing /\ raw \in rawTasks /\ raw.type = "download"
    /\ rawTasks' = rawTasks \ {raw}
    /\ LET m      == raw.message
           new    == {p \in raw.parts : partOf[m][p].state = Nothing}
           was    == IF states[m] = Nothing THEN NoParts ELSE states[m]
           record == [p \in Parts |-> IF p \in new THEN [target |-> raw.target, blobs |-> << >>] ELSE was[p]]
       IN  IF m \in alive /\ new # {}
           THEN /\ states' = [states EXCEPT ![m] = record]
                /\ persistentState' = [persistentState EXCEPT ![m] = record]
                /\ markers' = markers \cup {m}
                /\ wanted' = wanted \cup {<<m, p>> : p \in new}
           ELSE UNCHANGED <<states, persistentState, markers, wanted>>
    /\ UNCHANGED <<engine, bodyOf, partOf, alive, planned, bodyMarker, job, skewed, wantedFull, used>>

\* The list of parts is latched, then read one by one.
ExecuteStarts(m) ==
    /\ job = Nothing /\ m \in markers /\ m \in alive
    /\ markers' = markers \ {m}
    /\ \E order \in SetToSeqs(Pending(persistentState[m])) :
         job' = [message |-> m, left |-> order, bytes |-> 0, blobs |-> 0]
    /\ UNCHANGED <<engine, onDisk, planned, bodyMarker, persistentState, history, used>>

Part == Head(job.left)

\* A range of the part is a blob; the record is written, the first one afresh.
\* The last range is one that is shorter than asked for.
ReadChunk ==
    /\ job # Nothing /\ job.left # << >>
    /\ job.blobs * ChunkSize = job.bytes /\ job.bytes < PartSize[Part]
    /\ LET m     == job.message
           chunk == Bytes(job.bytes + 1, Least(job.bytes + ChunkSize, PartSize[Part]))
           had   == IF job.blobs = 0 THEN << >> ELSE states[m][Part].blobs
           record == [states[m] EXCEPT ![Part].blobs = had \o chunk]
       IN  /\ states' = [states EXCEPT ![m] = record]
           /\ persistentState' = [persistentState EXCEPT ![m] = record]
           /\ job' = [job EXCEPT !.bytes = @ + Len(chunk), !.blobs = @ + 1]
    /\ UNCHANGED <<engine, bodyOf, partOf, rawTasks, alive, planned, bodyMarker, markers, history, used>>

AllRead == job.bytes = PartSize[Part] /\ job.bytes % ChunkSize # 0

\* The blobs, put together, become the file; a file that cannot be saved is given up.
MovePart ==
    /\ job # Nothing /\ job.left # << >> /\ AllRead
    /\ LET m      == job.message
           pend   == states[m][Part]
           record == [states[m] EXCEPT ![Part] = Nothing]
       IN  /\ \/ partOf' = [partOf EXCEPT ![m][Part] =
                               [state |-> IF pend.target = "cache" THEN "cached" ELSE "saved",
                                file  |-> pend.blobs]]
              \/ pend.target = "save" /\ UNCHANGED partOf
           /\ states' = [states EXCEPT ![m] = record]
           /\ persistentState' = [persistentState EXCEPT ![m] = record]
           /\ wanted' = wanted \ {<<m, Part>>}
    /\ job' = [job EXCEPT !.left = Tail(@), !.bytes = 0, !.blobs = 0]
    /\ UNCHANGED <<engine, bodyOf, rawTasks, alive, planned, bodyMarker, markers, skewed, wantedFull, used>>

\* The end: memory forgets the record, the disk keeps it.
ExecuteEnds ==
    /\ job # Nothing /\ job.left = << >>
    /\ LET m == job.message IN
       IF Pending(states[m]) # {} THEN markers' = markers \cup {m} /\ UNCHANGED persistentState
       ELSE persistentState' = [persistentState EXCEPT ![m] = Nothing] /\ UNCHANGED markers
    /\ job' = Nothing
    /\ UNCHANGED <<engine, onDisk, planned, bodyMarker, history, used>>

\* The network, a message that is gone, or a part that ends with a full range,
\* after which nothing is returned.
DownloadFails ==
    /\ \/ /\ job # Nothing /\ job.left # << >>
          /\ \/ job.bytes = PartSize[Part] /\ job.bytes % ChunkSize = 0 /\ UNCHANGED used
             \/ used.trouble < MaxTroubles /\ used' = [used EXCEPT !.trouble = @ + 1]
          /\ wanted' = wanted \ {<<job.message, p>> : p \in Parts}
          /\ job' = Nothing /\ UNCHANGED markers
       \/ /\ job = Nothing
          /\ \E m \in Messages \ alive : m \in markers /\ markers' = markers \ {m}
          /\ UNCHANGED <<job, wanted, used>>
    /\ UNCHANGED <<engine, onDisk, planned, bodyMarker, persistentState, skewed, wantedFull>>

-----------------------------------------------------------------------------
(* The user, deletions, and restarts. *)

Ask(raw) ==
    /\ used.requests < MaxRequests /\ used' = [used EXCEPT !.requests = @ + 1]
    /\ rawTasks' = rawTasks \cup {raw}
    /\ UNCHANGED <<engine, bodyOf, partOf, states, alive, inMemory, history>>

AskSnippets == Ask([type |-> "sync_body", snippet |-> TRUE, full |-> {}])
AskBody(m) == m \in alive /\ Ask([type |-> "sync_body", snippet |-> FALSE, full |-> {m}])
AskParts(m, ps, target) ==
    /\ engine = "imap" /\ m \in alive /\ ps # {}
    /\ Ask([type |-> "download", message |-> m, parts |-> ps, target |-> target])

\* Another task takes the message; nobody clears what is planned for it.
DeleteMessage(m) ==
    /\ job = Nothing /\ m \in alive
    /\ used.trouble < MaxTroubles /\ used' = [used EXCEPT !.trouble = @ + 1]
    /\ alive' = alive \ {m}
    /\ wanted' = {w \in wanted : w[1] # m} /\ wantedFull' = wantedFull \ {m}
    /\ UNCHANGED <<engine, bodyOf, partOf, states, rawTasks, inMemory, skewed>>

\* Mutant of Restart: no markers are derived.
RestartUnmarked ==
    /\ used.trouble < MaxTroubles /\ used' = [used EXCEPT !.trouble = @ + 1]
    /\ planned' = Nothing /\ bodyMarker' = FALSE /\ job' = Nothing
    /\ persistentState' = states
    /\ markers' = {}
    /\ wantedFull' = {}
    /\ wanted' = UNION {{<<m, p>> : p \in Pending(states[m])} : m \in {x \in alive : states[x] # Nothing}}
    /\ UNCHANGED <<engine, onDisk, skewed>>
\* deriveMemoryStateFromPersistentState: requests for bodies are gone, each
\* record of downloads has a marker again.
Restart ==
    /\ used.trouble < MaxTroubles /\ used' = [used EXCEPT !.trouble = @ + 1]
    /\ planned' = Nothing /\ bodyMarker' = FALSE /\ job' = Nothing
    /\ persistentState' = states
    /\ markers' = {m \in Messages : states[m] # Nothing}
    /\ wantedFull' = {}
    /\ wanted' = UNION {{<<m, p>> : p \in Pending(states[m])} : m \in {x \in alive : states[x] # Nothing}}
    /\ UNCHANGED <<engine, onDisk, skewed>>

-----------------------------------------------------------------------------
Init ==
    /\ engine \in {"imap", "activesync"}
    /\ bodyOf = [m \in Messages |-> [amount |-> 0, pending |-> << >>, done |-> FALSE, content |-> << >>]]
    /\ partOf = [m \in Messages |-> [p \in Parts |-> [state |-> Nothing, file |-> << >>]]]
    /\ states = [m \in Messages |-> Nothing] /\ rawTasks = {} /\ alive = Messages
    /\ planned = Nothing /\ persistentState = states /\ bodyMarker = FALSE /\ markers = {} /\ job = Nothing
    /\ skewed = {} /\ wanted = {} /\ wantedFull = {}
    /\ used = [requests |-> 0, trouble |-> 0]

Next ==
    \/ AskSnippets
    \/ \E m \in Messages : AskBody(m)
    \/ \E m \in Messages, ps \in SUBSET Parts, target \in Targets : AskParts(m, ps, target)
    \/ \E raw \in rawTasks : PlanBody(raw) \/ PlanDownload(raw)
    \/ ExecuteBody \/ BodyFails
    \/ \E m \in Messages : ExecuteStarts(m)
    \/ ReadChunk \/ MovePart \/ ExecuteEnds \/ DownloadFails
    \/ \E m \in Messages : DeleteMessage(m)
    \/ Restart

Spec == Init /\ [][Next]_vars

-----------------------------------------------------------------------------
(* Properties. *)

\* What counts as downloaded is all there, each byte once and in order: a body,
\* unless a second snippet was fetched for it (skewed), and a file, however often
\* its download was broken off and begun again.
DownloadedIsWhole ==
    /\ \A m \in Messages \ skewed :
         /\ bodyOf[m].done => bodyOf[m].content = Bytes(1, BodySize[m])
         /\ bodyOf[m].pending = Bytes(1, bodyOf[m].amount) \/ bodyOf[m].done
    /\ \A m \in Messages, p \in Parts :
         partOf[m][p].state # Nothing => partOf[m][p].file = Bytes(1, PartSize[p])

\* The memory of the download task is what the disk has, but that the disk keeps
\* the record of what is finished; no part is pending that is there; and what
\* was asked for and has met no failure is pending and marked, or running.
RecordsInStep ==
    /\ \A m \in Messages :
         /\ persistentState[m] = states[m] \/ (persistentState[m] = Nothing /\ Pending(states[m]) = {})
         /\ states[m] # Nothing => \A p \in Pending(states[m]) : partOf[m][p].state = Nothing
         /\ m \in markers => persistentState[m] # Nothing
    /\ bodyMarker => planned # Nothing
    /\ \A w \in wanted :
         /\ w[2] \in Pending(states[w[1]])
         /\ w[1] \in markers \/ (job # Nothing /\ job.message = w[1] /\ w[2] \in Range(job.left))
    /\ \A m \in wantedFull : bodyOf[m].done \/ bodyMarker

\* amountDownloaded "should exactly match the size of the _partInfo.pendingBuffer
\* Blob" (mail_rep.js:227-229).  Violated by the second snippet of a body.
AmountIsPending ==
    \A m \in Messages : ~bodyOf[m].done => bodyOf[m].amount = Len(bodyOf[m].pending)

=============================================================================
