------------------------------- MODULE ImapSync -------------------------------
(***************************************************************************)
(* One folder of a vanilla IMAP account: the sync state and its flag       *)
(* slots, the tasks sync_grow, sync_refresh, sync_message and sync_conv,   *)
(* and the user's flag changes on their way to the server (store_flags).   *)
(*                                                                         *)
(* The task manager runs one job at a time and plans before it executes    *)
(* (TaskManager); ParallelIMAP has one connection and its commands are     *)
(* answered in order.  What the server holds may change between any two    *)
(* answers.  A job's writes are one transaction, at its end.               *)
(* A umid is issued when its uid is first seen and neither is used again,  *)
(* so a message is named by its uid throughout; its umidName exists        *)
(* exactly while the message is in the database.                           *)
(***************************************************************************)
EXTENDS Naturals, Sequences, FiniteSets, SequencesExt, FlagDeltas

CONSTANTS
    N,             \* the messages of the folder are 1..N, in order of arrival
    None,
    Old,           \* messages whose date only the last growth reaches
    Thread,        \* the conversation that the headers of a message lead to
    MaxUmids,      \* bound: umids issued before the last refresh begins
    MaxEvents      \* bound: deliveries, changes by other clients and by the user, failures

Uids == 1..N
Threads == {Thread[u] : u \in Uids}

ASSUME ImapSyncAssumption ==
    /\ N \in Nat \ {0} /\ {MaxUmids, MaxEvents} \subseteq Nat
    /\ IsFiniteSet(Flags) /\ (\A flags \in SUBSET Flags : None # flags) /\ None \notin Nat
    /\ Old \subseteq Uids /\ DOMAIN Thread = Uids

VARIABLES
    (* the server *)
    box,         \* the flags of each message, None: not there (yet, or any more)
    trash,       \* messages with \Deleted that are not expunged
    uidNext,
    tellsNext,   \* does SELECT report UIDNEXT?
    (* the sync state of the folder *)
    since,       \* how far back it has grown
    lastHighUid,
    umidSuffix,  \* nextUmidSuffix, less one: the umids issued
    slots,       \* flagSets and flagSetCounts
    slotOf,      \* uidInfo: the slot of each known uid, 0: unknown
    (* the database *)
    local,       \* message.flags, a list: how often it holds each flag
    heads,       \* threads in headerIdMap
    convs,       \* conversations that have a record
    listed,      \* conversations in the index of the folder
    (* tasks *)
    queue,       \* sync_conv and store_flags waiting to be planned
    owed,        \* sync_message tasks
    failed,      \* sync tasks whose bin is stuck
    umidChanges, \* flag changes the server has not been told of
    markers,     \* store_flags markers that wait to execute
    former,      \* messages that go by a umid whose deletion is being noted
    job,
    (* history *)
    seen,        \* flags the last refresh or growth read
    fresh,       \* nothing has changed on the server since the last refresh began
    blurred,     \* a change of flags was read, and taken for none
    ahead,       \* local flags that differ from those the sync state stands for
    lost,        \* messages whose sync_message failed or was lost
    skipped,     \* messages below a lastHighUid set by a growth that did not look for them
    haunted,     \* deletions inferred while sync_message was outstanding
    doubled,     \* flags that were added although they were there
    flapped,     \* pending changes overwritten by what a refresh read
    half,        \* messages with a STORE that may have worked although it failed here
    foreign,     \* messages that others, or such a STORE whose change was then merged,
                 \* changed since local flags were taken from the server
    events

server == <<box, trash, uidNext, tellsNext>>
state  == <<since, lastHighUid, umidSuffix, slots, slotOf>>
db     == <<local, heads, convs, listed>>
tasks  == <<queue, owed, failed, umidChanges, markers, former>>
seenBy == <<seen, fresh, blurred, ahead, lost, skipped, haunted, doubled, flapped, half, foreign>>
vars   == <<server, state, db, tasks, job, seenBy, events>>

Umids == 0..(MaxUmids + N)
Count == 0..(MaxEvents + 1)
Bags  == [Flags -> Count]
Delta == [add : Bags, remove : Bags]
Request == [add : SUBSET Flags, remove : SUBSET Flags]
Reads == [Uids -> {None} \cup SUBSET Flags]
NothingRead == [u \in Uids |-> None]
NoJob == [type |-> "none", stage |-> "none", uid |-> 0, read |-> NothingRead,
          found |-> {}, high |-> 0]
Start(type, stage) == [NoJob EXCEPT !.type = type, !.stage = stage]

TypeOK ==
    /\ box \in Reads /\ trash \subseteq Uids /\ uidNext \in 1..(N + 1) /\ tellsNext \in BOOLEAN
    /\ since \in {"never", "recent", "all"} /\ lastHighUid \in 0..N /\ umidSuffix \in Umids
    /\ slots \in Seq([flags : {None} \cup SUBSET Flags, count : Umids])
    /\ slotOf \in [Uids -> 0..Len(slots)]
    /\ local \in [Uids -> {None} \cup Bags]
    /\ {heads, convs, listed} \subseteq SUBSET Threads
    /\ queue \in Seq([type : {"conv"}, thread : Threads, modified : Reads, removed : SUBSET Uids]
                     \cup [type : {"store"}, only : SUBSET Uids, req : Request])
    /\ {owed, markers, former} \subseteq SUBSET Uids
    /\ failed \subseteq {"refresh", "grow"}
    /\ umidChanges \in [Uids -> {None} \cup Delta]
    /\ job \in [type : {"none", "refresh", "grow", "store"}, uid : 0..N, read : Reads,
                stage : {"none", "new", "search", "flags", "fetch", "remove", "done", "end"},
                found : SUBSET Uids, high : 0..(N + 1)]
    /\ seen \in Reads /\ fresh \in {"no", "running", "yes"}
    /\ {blurred, ahead, lost, skipped, haunted, doubled, flapped, half, foreign} \subseteq SUBSET Uids
    /\ events \in 0..MaxEvents

-----------------------------------------------------------------------------
(* Flag slots. *)

\* _findFlagSlot: the slot with that name; else the first one without a name,
\* which is not given one; else a new one.
FindSlot(table, flags) ==
    LET Named(name) == {i \in DOMAIN table : table[i].flags = name}
    IN  IF Named(flags) # {} THEN Min(Named(flags))
        ELSE IF Named(None) # {} THEN Min(Named(None))
        ELSE Len(table) + 1

\* One more message in the slot of these flags.
Enter(table, flags) ==
    LET i == FindSlot(table, flags)
    IN  IF i > Len(table) THEN Append(table, [flags |-> flags, count |-> 1])
        ELSE [table EXCEPT ![i].count = @ + 1]

\* _decrFlagSlot: the last one out takes the name.
Leave(table, i) ==
    [table EXCEPT ![i] = [flags |-> IF @.count = 1 THEN None ELSE @.flags, count |-> @.count - 1]]

\* yayMessageFoundByDate, for the messages of a set in the order of their uids.
EnterAll(book, uids, read) ==
    FoldLeft(LAMBDA b, u : [slots |-> Enter(b.slots, read[u]),
                            slotOf |-> [b.slotOf EXCEPT ![u] = FindSlot(b.slots, read[u])]],
             book, SetToSortSeq(uids, <))

\* checkFlagChanges: a message moves if the slot it finds is another one.  The
\* slot is allocated before the old one is left.
Moves(b, u, flags) ==
    LET i == FindSlot(b.slots, flags)
    IN  IF i = b.slotOf[u] THEN b
        ELSE [slots |-> Leave(Enter(b.slots, flags), b.slotOf[u]), slotOf |-> [b.slotOf EXCEPT ![u] = i]]
CheckAll(book, uids, read) ==
    FoldLeft(LAMBDA b, u : Moves(b, u, read[u]), book, SetToSortSeq(uids, <))

Known == {u \in Uids : slotOf[u] # 0}

-----------------------------------------------------------------------------
Init ==
    /\ box = NothingRead /\ trash = {} /\ uidNext = 1 /\ tellsNext \in BOOLEAN
    /\ since = "never" /\ lastHighUid = 0 /\ umidSuffix = 0 /\ slots = << >> /\ slotOf = [u \in Uids |-> 0]
    /\ local = [u \in Uids |-> None] /\ heads = {} /\ convs = {} /\ listed = {}
    /\ queue = << >> /\ owed = {} /\ failed = {}
    /\ umidChanges = [u \in Uids |-> None] /\ markers = {} /\ former = {}
    /\ job = NoJob
    /\ seen = NothingRead /\ fresh = "no"
    /\ blurred = {} /\ ahead = {} /\ lost = {} /\ skipped = {} /\ haunted = {} /\ doubled = {} 
    /\ flapped = {} /\ half = {} /\ foreign = {}
    /\ events = 0

-----------------------------------------------------------------------------
(* The world: deliveries, and other clients. *)

Event == events < MaxEvents /\ events' = events + 1

World == Event /\ fresh' = "no"

WorldKeeps == UNCHANGED <<state, db, tasks, job, seen, blurred, ahead, lost, skipped, haunted, doubled,
                          flapped, half, tellsNext>>

Arrives ==
    /\ World /\ uidNext <= N
    /\ \E flags \in SUBSET Flags : box' = [box EXCEPT ![uidNext] = flags]
    /\ uidNext' = uidNext + 1
    /\ UNCHANGED <<trash, foreign>> /\ WorldKeeps

OtherClientSets(u, f) ==
    /\ World /\ box[u] # None
    /\ box' = [box EXCEPT ![u] = IF f \in @ THEN @ \ {f} ELSE @ \cup {f}]
    /\ foreign' = foreign \cup {u}
    /\ UNCHANGED <<trash, uidNext>> /\ WorldKeeps

MarkedDeleted(u) ==
    /\ World /\ box[u] # None /\ u \notin trash
    /\ trash' = trash \cup {u}
    /\ UNCHANGED <<box, uidNext, foreign>> /\ WorldKeeps

Expunged(u) ==
    /\ World /\ u \in trash
    /\ box' = [box EXCEPT ![u] = None] /\ trash' = trash \ {u}
    /\ UNCHANGED <<uidNext, foreign>> /\ WorldKeeps

-----------------------------------------------------------------------------
(* Requests. *)

\* storeFlags, of some messages or of the whole conversation.
AsksFlags(only, req) ==
    /\ Event
    /\ \E u \in only : local[u] # None
    /\ req.add \cup req.remove # {} /\ req.add \cap req.remove = {}
    /\ queue' = Append(queue, [type |-> "store", only |-> only, req |-> req])
    /\ UNCHANGED <<server, state, db, owed, failed, umidChanges, markers, former, job, seenBy>>

-----------------------------------------------------------------------------
(* Plans: before anything executes. *)

Planning(type) == job = NoJob /\ queue # << >> /\ Head(queue).type = type

\* plan of mix_store_flags.
PlanStore ==
    /\ Planning("store")
    /\ LET t == Head(queue)
           hit == {u \in t.only : local[u] # None /\ ~Empty(Actual(local[u], t.req).delta)}
           Now(u) == Actual(local[u], t.req)
           merged == [u \in hit |-> IF umidChanges[u] = None THEN Now(u).delta
                                    ELSE Merge(umidChanges[u], Now(u).delta)]
           newly == {u \in hit \ former : umidChanges[u] = None}
           gone  == {u \in hit \ (newly \cup former) : Empty(merged[u])}
       IN  /\ local' = [u \in Uids |-> IF u \in hit THEN Now(u).flags ELSE local[u]]
           /\ umidChanges' = [u \in Uids |-> IF u \in gone THEN None
                                             ELSE IF u \in hit \ former THEN merged[u] ELSE umidChanges[u]]
           /\ markers' = (markers \cup newly) \ gone
           /\ ahead' = (ahead \ hit) \cup {u \in hit : SetOf(Now(u).flags) # seen[u]}
           /\ foreign' = foreign \cup (hit \cap half)
           /\ doubled' = doubled \cup {u \in hit : \E f \in t.req.add : local[u][f] > 0}
    /\ queue' = Tail(queue)
    /\ UNCHANGED <<server, state, heads, convs, listed, owed, failed, former, job,
                   seen, fresh, blurred, lost, skipped, haunted, flapped, half, events>>

\* plan of mix_sync_conv.  A conversation that was never put in the index of
\* the folder gets there only if its date or height changes.
PlanConv ==
    /\ Planning("conv")
    /\ LET t == Head(queue)
           mine == {u \in Uids : Thread[u] = t.thread /\ local[u] # None}
           kept == mine \ t.removed
           set  == {u \in kept : t.modified[u] # None}
       IN  /\ local' = [u \in Uids |-> IF u \in mine \cap t.removed THEN None
                                       ELSE IF u \in set THEN BagOf(t.modified[u]) ELSE local[u]]
           /\ IF kept = {}
              THEN convs' = convs \ {t.thread} /\ listed' = listed \ {t.thread}
              ELSE convs' = convs /\ listed' \in {listed, listed \cup {t.thread}}
           /\ ahead' = ahead \ (set \cup t.removed)
           /\ doubled' = doubled \ ({u \in set : umidChanges[u] = None} \cup t.removed)
           /\ flapped' = (flapped \ (set \cup t.removed)) \cup {u \in set : umidChanges[u] # None}
           /\ foreign' = foreign \ ({u \in set : t.modified[u] = box[u]} \cup t.removed)
    /\ queue' = Tail(queue)
    /\ former' = former \ Head(queue).removed
    /\ UNCHANGED <<server, state, heads, owed, failed, umidChanges, markers, job,
                   seen, fresh, blurred, lost, skipped, haunted, half, events>>

-----------------------------------------------------------------------------
(* sync_refresh. *)

Executing == job = NoJob /\ queue = << >>

Visible == {u \in Uids : box[u] # None /\ u \notin trash}
Live(uids) == [u \in Uids |-> IF u \in uids THEN box[u] ELSE None]
Present == {u \in Uids : box[u] # None}

\* A refresh may be asked for at any time, unless the bin holds one that failed
\* (see AtMostOnce in TaskManager); without a high uid it only asks for a growth.
\* The state is read; FETCH lastHighUid+1:* and the search are under way.
RefreshBegins ==
    /\ Executing /\ "refresh" \notin failed /\ lastHighUid # 0
    /\ umidSuffix <= MaxUmids
    /\ job' = Start("refresh", "new")
    /\ fresh' = "running"
    /\ UNCHANGED <<server, state, db, tasks, seen, blurred, ahead, lost, skipped, haunted, doubled, flapped,
                   half, foreign, events>>

\* The answer to the FETCH; for a range that is empty the server answers with
\* the last message.
AnswersNew ==
    /\ job.type = "refresh" /\ job.stage = "new"
    /\ LET last == {u \in Present : \A v \in Present : v <= u}
       IN  job' = [job EXCEPT !.stage = "search",
                              !.read = Live({u \in Present : u > lastHighUid} \cup last)]
    /\ UNCHANGED <<server, state, db, tasks, seenBy, events>>

\* The answer to the search for the known uids.
AnswersSearch ==
    /\ job.type = "refresh" /\ job.stage = "search"
    /\ job' = [job EXCEPT !.stage = "flags", !.found = Known \cap Visible]
    /\ UNCHANGED <<server, state, db, tasks, seenBy, events>>

\* inferDeletionFromExistingUids, then checkFlagChanges, then the new messages
\* by what is known by then.  A deletion leaves the count of its slot alone.
Gone == Known \ job.found
Heard == job.found \cap Present
Checked == CheckAll([slots |-> slots, slotOf |-> [u \in Uids |-> IF u \in Gone THEN 0 ELSE slotOf[u]]],
                    Heard, box)
Found == {u \in Uids : job.read[u] # None /\ (slotOf[u] = 0 \/ u \in Gone)}
InRange(uids) == {u \in uids : since = "all" \/ u \notin Old}
Reported == {u \in Heard : Checked.slotOf[u] # slotOf[u]}

\* generateSyncConvTasks: of the messages that have a name.
ConvTask(t) ==
    LET named == {u \in Uids : Thread[u] = t /\ local[u] # None}
    IN  [type |-> "conv", thread |-> t, removed |-> Gone \cap named,
         modified |-> Live(Reported \cap named)]
ConvTasks ==
    LET touched == SetToSeq({Thread[u] : u \in {v \in Gone \cup Reported : local[v] # None}})
    IN  [i \in DOMAIN touched |-> ConvTask(touched[i])]

\* The answer to the fetch of the flags, and the end of the task.  The
\* consultation of store_flags passes a uid where a umid is read, so nothing
\* is fixed up.  The changes of a umid that has no location any more are left
\* out: its marker can only throw.
RefreshEnds ==
    /\ job.type = "refresh" /\ job.stage = "flags"
    /\ LET new == InRange(Found)
           book == EnterAll(Checked, new, job.read)
       IN  /\ slots' = book.slots /\ slotOf' = book.slotOf
           /\ lastHighUid' = Max({lastHighUid} \cup Found)
           /\ owed' = owed \cup new
           /\ umidSuffix' = umidSuffix + Cardinality(new)
           /\ seen' = [u \in Uids |-> IF u \in Heard THEN box[u] ELSE IF u \in new THEN job.read[u]
                                      ELSE IF u \in Gone THEN None ELSE seen[u]]
    /\ queue' = queue \o ConvTasks
    /\ umidChanges' = [u \in Uids |-> IF u \in Gone THEN None ELSE umidChanges[u]]
    /\ markers' = markers \ Gone
    /\ former' = {u \in Gone : local[u] # None}
    /\ blurred' = (blurred \ (Reported \cup Gone)) \cup {u \in Heard \ Reported : box[u] # seen[u]}
    /\ haunted' = haunted \cup (Gone \cap owed)
    /\ fresh' = IF fresh = "running" THEN "yes" ELSE "no"
    /\ job' = NoJob
    /\ UNCHANGED <<server, since, db, failed, ahead, lost, skipped, doubled, flapped, half, foreign, events>>

-----------------------------------------------------------------------------
(* sync_grow. *)

\* SELECT; how far to go back is the choice of the task.
GrowBegins ==
    /\ Executing /\ "grow" \notin failed
    /\ job' = [Start("grow", "search") EXCEPT !.high = IF tellsNext THEN uidNext ELSE 0]
    /\ UNCHANGED <<server, state, db, tasks, seenBy, events>>

\* The answer to the search by dates, from the new date to the old one.
AnswersGrowSearch(reach) ==
    /\ job.type = "grow" /\ job.stage = "search"
    /\ since # "never" => reach = "all"
    /\ LET range == CASE since = "never" /\ reach = "all" -> Uids
                      [] since = "never"                  -> Uids \ Old
                      [] since = "recent"                 -> Old
                      [] OTHER                            -> {}
       IN  job' = [job EXCEPT !.stage = "fetch", !.found = range \cap Visible,
                              !.uid = IF reach = "all" THEN 1 ELSE 0]
    /\ UNCHANGED <<server, state, db, tasks, seenBy, events>>

\* The high uid after the first growth: UIDNEXT if the server tells it, else the
\* highest uid found, else 1 if there is anything.
HighUid == IF job.high # 0 THEN job.high - 1
           ELSE IF job.found # {} THEN Max(job.found)
           ELSE IF Present # {} THEN 1 ELSE 0

\* The answer to the fetch of flags and dates, and the end of the task.
GrowEnds ==
    /\ job.type = "grow" /\ job.stage = "fetch"
    /\ LET new  == {u \in job.found : slotOf[u] = 0 /\ box[u] # None}
           book == EnterAll([slots |-> slots, slotOf |-> slotOf], new, box)
       IN  /\ slots' = book.slots /\ slotOf' = book.slotOf
           /\ owed' = owed \cup new
           /\ umidSuffix' = umidSuffix + Cardinality(new)
           /\ seen' = [u \in Uids |-> IF u \in new THEN box[u] ELSE seen[u]]
    /\ since' = IF job.uid = 1 THEN "all" ELSE "recent"
    /\ lastHighUid' = IF lastHighUid = 0 THEN HighUid ELSE lastHighUid
    /\ skipped' = IF since = "never" \/ lastHighUid # 0 THEN skipped
                  ELSE {u \in Present : u <= lastHighUid' /\ slotOf[u] = 0}
    /\ job' = NoJob
    /\ UNCHANGED <<server, db, queue, failed, umidChanges, markers, former, fresh, blurred, ahead, lost,
                   haunted, doubled, flapped, half, foreign, events>>

-----------------------------------------------------------------------------
(* sync_message. *)

\* The index of the folder when a message is added to a conversation: a new one
\* is put there, an old one again if its date or height changes.  One that was
\* deleted is still in headerIdMap: finishMutate throws on it, when the message,
\* its name and the conversation's record are already written.
Listed(t) ==
    CASE t \notin heads -> {listed \cup {t}}
      [] t \in convs    -> {listed, listed \cup {t}}
      [] OTHER          -> {listed}

\* The message as it is now, whatever flags it was found with.
MessageRuns(u) ==
    /\ Executing /\ u \in owed /\ box[u] # None
    /\ owed' = owed \ {u}
    /\ local' = [local EXCEPT ![u] = BagOf(box[u])]
    /\ LET t == Thread[u] IN
       /\ heads' = heads \cup {t} /\ convs' = convs \cup {t}
       /\ listed' \in Listed(t)
    /\ ahead' = IF box[u] = seen[u] THEN ahead \ {u} ELSE ahead \cup {u}
    /\ foreign' = foreign \ {u} /\ lost' = lost \ {u}
    /\ UNCHANGED <<server, state, queue, failed, umidChanges, markers, former, job, seen, fresh,
                   blurred, skipped, haunted, doubled, flapped, half, events>>

\* The server has no such message: there is no first element to read.
MessageThrows(u) ==
    /\ Executing /\ u \in owed /\ box[u] = None
    /\ owed' = owed \ {u} /\ lost' = lost \cup {u}
    /\ UNCHANGED <<server, state, db, queue, failed, umidChanges, markers, former, job, seen, fresh,
                   blurred, ahead, skipped, haunted, doubled, flapped, half, foreign, events>>

-----------------------------------------------------------------------------
(* store_flags, execute. *)

StoreKeeps == UNCHANGED <<trash, uidNext, tellsNext, state, db, queue, owed, failed, former, seen,
                          blurred, ahead, lost, skipped, haunted, doubled, flapped, foreign, events>>

\* A STORE is heard by the server if it changes anything.
Stores(u, flags) ==
    /\ box' = [box EXCEPT ![u] = IF @ = None THEN None ELSE flags]
    /\ fresh' = IF box' = box THEN fresh ELSE "no"

StoreAdds(u) ==
    /\ Executing /\ u \in markers
    /\ markers' = markers \ {u}
    /\ job' = [Start("store", "remove") EXCEPT !.uid = u]
    /\ Stores(u, box[u] \cup SetOf(umidChanges[u].add))
    /\ UNCHANGED <<umidChanges, half>> /\ StoreKeeps

StoreRemoves ==
    /\ job.type = "store" /\ job.stage = "remove"
    /\ job' = [job EXCEPT !.stage = "done"]
    /\ Stores(job.uid, box[job.uid] \ SetOf(umidChanges[job.uid].remove))
    /\ UNCHANGED <<umidChanges, markers, half>> /\ StoreKeeps

StoreEnds ==
    /\ job.type = "store" /\ job.stage = "done"
    /\ umidChanges' = [umidChanges EXCEPT ![job.uid] = None]
    /\ job' = NoJob
    /\ half' = half \ {job.uid}
    /\ UNCHANGED <<box, fresh, markers>> /\ StoreKeeps

-----------------------------------------------------------------------------
(* Failures. *)

FaultKeeps == UNCHANGED <<server, state, db, queue, umidChanges, former, seen, blurred, ahead,
                          skipped, haunted, doubled, flapped, foreign>>

HalfStored == IF job.type = "store" THEN half \cup {job.uid} ELSE half

\* A command fails: nothing is written.  The bin of a sync task stays
\* taken; the changes of a store stay, without a marker.
JobFails ==
    /\ Event /\ job # NoJob
    /\ failed' = failed \cup ({job.type} \cap {"refresh", "grow"})
    /\ fresh' = IF job.type = "refresh" THEN "no" ELSE fresh
    /\ job' = NoJob
    /\ half' = HalfStored
    /\ UNCHANGED <<owed, markers, lost>> /\ FaultKeeps

MessageFails(u) ==
    /\ Event /\ Executing /\ u \in owed
    /\ owed' = owed \ {u} /\ lost' = lost \cup {u}
    /\ UNCHANGED <<failed, markers, job, fresh, half>> /\ FaultKeeps

\* Mutant of Restart: no markers.
RestartIdle(planned) ==
    /\ Event /\ planned \subseteq owed
    /\ owed' = owed \ planned /\ lost' = lost \cup planned
    /\ failed' = {}
    /\ markers' = {}
    /\ job' = NoJob
    /\ fresh' = IF job.type = "refresh" THEN "no" ELSE fresh
    /\ half' = HalfStored
    /\ FaultKeeps

\* The process ends and begins again.  Planned sync_message tasks are lost (see
\* TaskManager); markers come back from what is pending.
Restart(planned) ==
    /\ Event /\ planned \subseteq owed
    /\ owed' = owed \ planned /\ lost' = lost \cup planned
    /\ failed' = {}
    /\ markers' = {u \in Uids : umidChanges[u] # None}
    /\ job' = NoJob
    /\ fresh' = IF job.type = "refresh" THEN "no" ELSE fresh
    /\ half' = HalfStored
    /\ FaultKeeps

-----------------------------------------------------------------------------
Next ==
    \/ Arrives
    \/ \E u \in Uids : \/ MarkedDeleted(u) \/ Expunged(u)
                       \/ \E f \in Flags : OtherClientSets(u, f)
    \/ \E only \in SUBSET Uids, req \in Request : AsksFlags(only, req)
    \/ PlanStore \/ PlanConv
    \/ RefreshBegins \/ AnswersNew \/ AnswersSearch \/ RefreshEnds
    \/ GrowBegins \/ GrowEnds
    \/ \E reach \in {"recent", "all"} : AnswersGrowSearch(reach)
    \/ \E u \in Uids : MessageRuns(u) \/ MessageThrows(u) \/ StoreAdds(u) \/ MessageFails(u)
    \/ StoreRemoves \/ StoreEnds
    \/ JobFails
    \/ \E planned \in SUBSET Uids : Restart(planned)

Spec == Init /\ [][Next]_vars

\* The manager gets through what it has under way, and a marker whose turn comes
\* again and again has it; nobody is obliged to ask for anything.
FairSpec == Spec /\ []<>Executing /\ SF_vars(\E u \in Uids : StoreAdds(u))

-----------------------------------------------------------------------------
(* Properties. *)

\* The table of flag slots (sync.md, "Flag Change Detection"): a count covers
\* the messages of its slot, so no name is taken from a slot in use, and a
\* slot that has its name stands for just the flags that were read of each of
\* its messages.
SlotsAccount ==
    /\ TypeOK
    /\ \A i \in DOMAIN slots :
        LET mine == {u \in Uids : slotOf[u] = i}
        IN  /\ slots[i].count >= Cardinality(mine)
            /\ slots[i].count = 0 => slots[i].flags = None
            /\ slots[i].flags # None => \A u \in mine : seen[u] = slots[i].flags

\* What the user sees is what the server has with the pending changes applied
\* (the comment that ends plan of mix_store_flags), whatever was merged,
\* cancelled, replayed after a crash or half stored; unless another client
\* changed the message, a refresh overwrote pending changes, a flag was added
\* twice, or changes were merged with those of a STORE that had worked and
\* failed all the same.
ViewIsServerPlusPending ==
    \A u \in Uids \ (former \cup foreign \cup flapped \cup doubled) :
        local[u] # None /\ box[u] # None =>
            LET d == umidChanges[u]
            IN  SetOf(local[u]) = IF d = None THEN box[u]
                                  ELSE (box[u] \cup SetOf(d.add)) \ SetOf(d.remove)

\* When a refresh has run, nothing has changed since it began and nothing is
\* left to do, the folder is what the server holds: every message in range is
\* known and every known one is there (but for the last one, which the next
\* refresh finds again although it is deleted), it is shown with the flags it
\* has, and nothing else is shown.  What the sync state cannot notice is
\* excepted by name: changes between flag sets that share a slot, local flags
\* newer than the sync state's, messages whose sync_message failed, deletions
\* noticed before it ran, the messages that come to a folder that was empty
\* when it first grew, and the first message if there is no UIDNEXT.
AtRest == job = NoJob /\ queue = << >> /\ owed = {} /\ \A u \in Uids : umidChanges[u] = None
RestInStep ==
    AtRest /\ fresh = "yes" =>
        /\ \A u \in InRange(Visible) \ skipped : u \in Known \/ (u = 1 /\ ~tellsNext)
        /\ \A u \in Known : u \in Visible \/ \A v \in Present : v <= u
        /\ \A u \in Known \ lost : local[u] # None
        /\ \A u \in Known \ (blurred \cup ahead) : local[u] # None => SetOf(local[u]) = box[u]
        /\ \A u \in Uids \ haunted : local[u] # None => u \in Known

\* Every pending change has been played to the server, across restarts, unless a
\* STORE of it failed: then it has no marker until the process begins again.
AllChangesPlayed == \A u \in Uids : umidChanges[u] = None \/ u \in half

=============================================================================
