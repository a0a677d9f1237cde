------------------------------ MODULE ActiveSync ------------------------------
(***************************************************************************)
(* A folder of an ActiveSync account: sync_refresh with its sync key and   *)
(* the ids of its messages, sync_conv, and the user's flag changes on      *)
(* their way to the server (store_flags).                                  *)
(*                                                                         *)
(* The server keeps, for each client, what it had told it by its last sync *)
(* key and by the one before; asked with a key it tells the difference to  *)
(* that.  A key is named by what the server makes of it: "last", "prior",  *)
(* or "stale" when it has forgotten it.                                    *)
(* Every message is a conversation of its own and has the umid it got when *)
(* it was told.  Flags are lists: the order matters to applyChanges.       *)
(* The task manager runs one job at a time and plans before it executes.   *)
(***************************************************************************)
EXTENDS Naturals, Sequences, FiniteSets, SequencesExt, FlagDeltas

CONSTANTS
    N,             \* the messages of the folder are 1..N, in order of arrival
    None,
    MaxUmids,      \* bound: umids issued before the last refresh begins
    MaxEvents      \* bound: what others and the user do, failures and restarts

Uids == 1..N
Umids == 1..(MaxUmids + N)

VARIABLES
    (* the server *)
    mail,        \* the flags of each message, None: not there
    came,        \* how many have come
    odd,         \* messages that parse_full_message throws for
    snap,        \* what the client was told, by the last key and by the one before
    (* the sync state of the folder *)
    syncKey,
    umidSuffix,  \* nextUmidSuffix, less one
    serverIdInfo,\* the umid of each known message, 0: unknown
    (* the database *)
    messages,    \* message.flags by umid; its umidName is there exactly when it is
    umidLocation,\* the server's id by umid, 0: null or not there
    (* tasks *)
    queue,       \* sync_conv and store_flags waiting to be planned
    umidChanges, \* flag changes the server has not been told of
    markers,     \* store_flags markers that wait to execute
    jammed,      \* is the bin of sync_refresh stuck?
    job,
    (* history *)
    fresh,       \* nothing changed since a refresh was told of everything
    orphans,     \* umids whose message was told again, with another umid
    left,        \* umids known when a key was refused, and not told again with the new one
    foreign,     \* umids whose message others changed, or a change that was sent and
                 \* failed, or one of an orphan
    doubled,     \* umids with a flag that was added although it was there
    mangled,     \* umids that lost a flag in place of another one
    flapped,     \* umids with pending changes when a refresh changed their flags
    reverted,    \* umids with a change that others undid before it was told, or that was
                 \* merged with another after the server had said or heard it
    half,        \* umids whose changes were sent or tried, and failed
    events

world   == <<mail, came, odd, snap>>
state   == <<syncKey, umidSuffix, serverIdInfo>>
db      == <<messages, umidLocation>>
tasks   == <<queue, umidChanges, markers, jammed>>
history == <<fresh, orphans, left, foreign, doubled, mangled, flapped, reverted, half>>
vars    == <<world, state, db, tasks, job, history, events>>

Mail == [Uids -> {None} \cup SUBSET Flags]
Nothing == [u \in Uids |-> None]
Deltas == [add : [Flags -> Nat], remove : [Flags -> Nat]]
Request == {r \in [add : SUBSET Flags, remove : SUBSET Flags] :
               r.add \cup r.remove # {} /\ r.add \cap r.remove = {}}
NoJob == [type |-> "none", stage |-> "none", key |-> "none", told |-> FALSE, umid |-> 0]
BagOfList(list) == [f \in Flags |-> Cardinality({i \in DOMAIN list : list[i] = f})]

TypeOK ==
    /\ {mail, snap.last, snap.prior} \subseteq Mail /\ came \in 0..N /\ odd \subseteq Uids
    /\ syncKey \in {"none", "last", "prior", "stale"}
    /\ umidSuffix \in 0..(MaxUmids + N) /\ serverIdInfo \in [Uids -> {0} \cup Umids]
    /\ \A m \in Umids : messages[m] = None \/ messages[m] \in Seq(Flags)
    /\ umidLocation \in [Umids -> 0..N]
    /\ queue \in Seq([type : {"conv"}, umid : Umids, add : SUBSET Flags, remove : SUBSET Flags, gone : BOOLEAN]
                     \cup [type : {"store"}, umid : Umids, req : Request])
    /\ \A m \in Umids : umidChanges[m] = None \/ umidChanges[m] \in Deltas
    /\ markers \subseteq Umids /\ jammed \in BOOLEAN /\ fresh \in BOOLEAN
    /\ job \in [type : {"none", "refresh", "store"}, stage : {"none", "key", "sync", "change", "end"},
                key : {"none", "last", "prior", "stale"}, told : BOOLEAN, umid : {0} \cup Umids]
    /\ {orphans, left, foreign, doubled, mangled, flapped, reverted, half} \subseteq SUBSET Umids
    /\ events \in 0..MaxEvents

Init ==
    /\ came \in 0..N
    /\ mail \in [Uids -> {None, {}}] /\ (\A u \in Uids : mail[u] = None <=> u > came)
    /\ odd = {} /\ snap = [last |-> Nothing, prior |-> Nothing]
    /\ syncKey = "none" /\ umidSuffix = 0 /\ serverIdInfo = [u \in Uids |-> 0]
    /\ messages = [m \in Umids |-> None] /\ umidLocation = [m \in Umids |-> 0]
    /\ queue = << >> /\ umidChanges = [m \in Umids |-> None] /\ markers = {} /\ jammed = FALSE
    /\ job = NoJob
    /\ fresh = FALSE
    /\ orphans = {} /\ left = {} /\ foreign = {} /\ doubled = {} /\ mangled = {} /\ flapped = {} /\ reverted = {} /\ half = {}
    /\ events = 0

Event == events < MaxEvents /\ events' = events + 1

-----------------------------------------------------------------------------
(* The server, and other clients. *)

World ==
    /\ Event
    /\ fresh' = FALSE
    /\ UNCHANGED <<umidSuffix, serverIdInfo, db, tasks, job, orphans, left, doubled, mangled, flapped, half>>

Arrives ==
    /\ World /\ came < N
    /\ came' = came + 1
    /\ mail' = [mail EXCEPT ![came + 1] = {}]
    /\ odd' \in {odd, odd \cup {came + 1}}
    /\ UNCHANGED <<snap, syncKey, foreign, reverted>>

OtherClientSets(u, f) ==
    /\ World /\ mail[u] # None
    /\ mail' = [mail EXCEPT ![u] = IF f \in @ THEN @ \ {f} ELSE @ \cup {f}]
    /\ LET m == {serverIdInfo[u]} \ {0}
       IN  /\ foreign' = foreign \cup m
           /\ reverted' = IF syncKey \in {"last", "prior"} /\ snap[syncKey][u] # None
                             /\ (f \in snap[syncKey][u] <=> f \notin mail[u])
                          THEN reverted \cup m ELSE reverted
    /\ UNCHANGED <<came, odd, snap, syncKey>>

Deleted(u) ==
    /\ World /\ mail[u] # None
    /\ mail' = [mail EXCEPT ![u] = None]
    /\ UNCHANGED <<came, odd, snap, syncKey, foreign, reverted>>

\* The server forgets the keys of this client.
Forgets ==
    /\ World /\ syncKey \in {"last", "prior"}
    /\ syncKey' = "stale"
    /\ job.key \notin {"last", "prior"}
    /\ UNCHANGED <<world, foreign, reverted>>

-----------------------------------------------------------------------------
(* Plans. *)

AsksFlags(m, req) ==
    /\ Event /\ messages[m] # None
    /\ queue' = Append(queue, [type |-> "store", umid |-> m, req |-> req])
    /\ UNCHANGED <<world, state, db, umidChanges, markers, jammed, job, history>>

Planning(type) == job = NoJob /\ queue # << >> /\ Head(queue).type = type

\* normalizeAndApplyChanges, on the list (its delta is Actual).
Asked(list, req) ==
    FoldLeft(RemoveFirst, list \o SetToSeq(req.add), SetToSeq(req.remove))

\* plan of mix_store_flags.
PlanStore ==
    /\ Planning("store")
    /\ LET m    == Head(queue).umid
           req  == Head(queue).req
           d    == Actual(BagOfList(messages[m]), req).delta
           sum  == IF umidChanges[m] = None THEN d ELSE Merge(umidChanges[m], d)
       IN  IF messages[m] = None \/ Empty(d)
           THEN UNCHANGED <<messages, umidChanges, markers, doubled, foreign, reverted>>
           ELSE /\ messages' = [messages EXCEPT ![m] = Asked(@, req)]
                /\ umidChanges' = [umidChanges EXCEPT ![m] = IF Empty(sum) THEN None ELSE sum]
                /\ markers' = IF Empty(sum) THEN markers \ {m}
                              ELSE IF umidChanges[m] = None THEN markers \cup {m} ELSE markers
                /\ doubled' = IF \E f \in req.add : Contains(messages[m], f) THEN doubled \cup {m} ELSE doubled
                /\ foreign' = foreign \cup ({m} \cap half)
                /\ reverted' = IF umidChanges[m] = None THEN reverted ELSE reverted \cup ({m} \cap (foreign \cup flapped \cup half))
    /\ queue' = Tail(queue)
    /\ UNCHANGED <<world, state, umidLocation, jammed, job, fresh, orphans, left, mangled, flapped,
                   half, events>>

\* applyChanges adds what is not there; for a flag to remove that is there it
\* calls splice with the flag in place of its index: the first flag goes.
Applied(list, t) ==
    LET added == list \o SetToSeq({f \in t.add : ~Contains(list, f)})
    IN  FoldLeft(LAMBDA s, f : IF Contains(s, f) THEN Tail(s) ELSE s, added, SetToSeq(t.remove))

\* plan of mix_sync_conv.
PlanConv ==
    /\ Planning("conv")
    /\ LET t == Head(queue)
           m == t.umid
           now == Applied(messages[m], t)
           meant == (ToSet(messages[m]) \cup t.add) \ t.remove
       IN  /\ messages' = [messages EXCEPT ![m] = IF t.gone THEN None ELSE now]
           /\ mangled' = IF ~t.gone /\ ToSet(now) # meant THEN mangled \cup {m} ELSE mangled
           /\ flapped' = IF umidChanges[m] # None THEN flapped \cup {m} ELSE flapped
    /\ queue' = Tail(queue)
    /\ UNCHANGED <<world, state, umidLocation, umidChanges, markers, jammed, job, fresh, orphans, left, foreign,
                   doubled, reverted, half, events>>

-----------------------------------------------------------------------------
(* sync_refresh. *)

Executing == job = NoJob /\ queue = << >>

RefreshBegins ==
    /\ Executing /\ ~jammed /\ umidSuffix <= MaxUmids
    /\ job' = [NoJob EXCEPT !.type = "refresh", !.key = syncKey,
                            !.stage = IF syncKey = "none" THEN "key" ELSE "sync"]
    /\ UNCHANGED <<world, state, db, tasks, history, events>>

\* A new key: to the server, the client knows nothing (inferFilterType asks for
\* several, the last one counts).
GetsKey ==
    /\ job.type = "refresh" /\ job.stage = "key"
    /\ snap' = [last |-> Nothing, prior |-> Nothing]
    /\ syncKey' = IF syncKey = "none" THEN "none" ELSE "stale"
    /\ job' = [job EXCEPT !.stage = "sync", !.key = "last"]
    /\ UNCHANGED <<mail, came, odd, umidSuffix, serverIdInfo, db, tasks, history, events>>

\* A key the server has forgotten: the loop goes round again.
KeyRefused ==
    /\ job.type = "refresh" /\ job.stage = "sync" /\ job.key = "stale"
    /\ job' = [job EXCEPT !.stage = "key"]
    /\ UNCHANGED <<world, state, db, tasks, history, events>>

\* A changed key that nobody saves leaves the saved one the one before.
Unsaved == IF syncKey \in {"last", "prior"} THEN "prior" ELSE syncKey

\* The answer: what has changed, or some of it and that there is more (which is
\* not heard); if nothing has, it is blank and the key stays.
Enumerates(batch) ==
    /\ job.type = "refresh" /\ job.stage = "sync" /\ job.key # "stale"
    /\ LET base == snap[job.key]
           differs == {u \in Uids : mail[u] # base[u]}
       IN  /\ batch \subseteq differs /\ (batch = {} => differs = {})
           /\ IF batch = {}
              THEN /\ job' = [job EXCEPT !.stage = "end"]
                   /\ UNCHANGED <<snap, syncKey>>
              ELSE /\ job' = [job EXCEPT !.stage = "end", !.key = "last", !.told = TRUE]
                   /\ snap' = [prior |-> base, last |-> [u \in Uids |-> IF u \in batch THEN mail[u] ELSE base[u]]]
                   /\ syncKey' = Unsaved
           /\ fresh' = (batch = differs)
    /\ UNCHANGED <<mail, came, odd, umidSuffix, serverIdInfo, db, tasks, orphans, left, foreign, doubled, mangled,
                   flapped, reverted, half, events>>

\* What the answer told, by what the server remembers.
Adds    == {u \in Uids : job.told /\ snap.prior[u] = None /\ snap.last[u] # None}
Changes == {u \in Uids : job.told /\ snap.prior[u] # None /\ snap.last[u] \notin {None, snap.prior[u]}}
Deletes == {u \in Uids : job.told /\ snap.prior[u] # None /\ snap.last[u] = None}

\* A umid is issued before a message is parsed.
Issued(u) == umidSuffix + Cardinality({v \in Adds : v <= u})
Added == Adds \ odd

\* generateSyncConvTasks: of the messages that have a name; changes come first.
SyncConvs ==
    LET named(set) == SetToSortSeq({u \in set : serverIdInfo[u] # 0 /\ messages[serverIdInfo[u]] # None}, <)
        Task(u) == [type |-> "conv", umid |-> serverIdInfo[u], gone |-> u \in Deletes,
                    add |-> IF u \in Deletes THEN {} ELSE snap.last[u] \ snap.prior[u],
                    remove |-> IF u \in Deletes THEN {} ELSE snap.prior[u] \ snap.last[u]]
        all == named(Changes) \o named(Deletes)
    IN  [i \in DOMAIN all |-> Task(all[i])]

\* The end of the task.  A change of a message that was never parsed has no
\* umid: to read the name of none throws.  Messages told again after a new key
\* get new umids, and nothing removes the old ones.
RefreshEnds ==
    /\ job.type = "refresh" /\ job.stage = "end"
    /\ IF \E u \in Changes : serverIdInfo[u] = 0
       THEN /\ jammed' = TRUE /\ fresh' = FALSE
            /\ UNCHANGED <<state, db, queue, orphans, left, foreign>>
       ELSE /\ umidSuffix' = umidSuffix + Cardinality(Adds)
            /\ serverIdInfo' = [u \in Uids |-> IF u \in Added THEN Issued(u)
                                               ELSE IF u \in Deletes THEN 0 ELSE serverIdInfo[u]]
            /\ messages' = [m \in Umids |-> IF \E u \in Added : m = Issued(u)
                                            THEN SetToSeq(snap.last[CHOOSE u \in Added : m = Issued(u)]) ELSE messages[m]]
            /\ umidLocation' = [m \in Umids |-> IF \E u \in Added : m = Issued(u) THEN CHOOSE u \in Added : m = Issued(u)
                                                ELSE IF \E u \in Deletes : m = serverIdInfo[u] THEN 0 ELSE umidLocation[m]]
            /\ queue' = queue \o SyncConvs
            /\ orphans' = orphans \cup ({serverIdInfo[u] : u \in Added} \ {0})
            /\ foreign' = foreign \cup {Issued(u) : u \in {v \in Added : mail[v] # snap.last[v]}}
            /\ left' = IF syncKey = "stale" THEN left \cup ({serverIdInfo[u] : u \in Uids \ Added} \ {0}) ELSE left
            /\ syncKey' = job.key
            /\ UNCHANGED <<jammed, fresh>>
    /\ job' = NoJob
    /\ UNCHANGED <<world, umidChanges, markers, doubled, mangled, flapped, reverted, half, events>>

-----------------------------------------------------------------------------
(* store_flags, execute. *)

StoreKeeps == UNCHANGED <<mail, came, odd, snap, state, db, queue, jammed, fresh, orphans, left, foreign, doubled,
                          mangled, flapped, reverted, events>>

StoreBegins(m) ==
    /\ Executing /\ m \in markers /\ umidLocation[m] # 0
    /\ markers' = markers \ {m}
    /\ job' = [NoJob EXCEPT !.type = "store", !.stage = "change", !.umid = m]
    /\ UNCHANGED <<umidChanges, half>> /\ StoreKeeps

\* A message that was deleted has no location to take apart.
StoreThrows(m) ==
    /\ Executing /\ m \in markers /\ umidLocation[m] = 0
    /\ markers' = markers \ {m} /\ half' = half \cup {m}
    /\ UNCHANGED <<umidChanges, job>> /\ StoreKeeps

StoreTurn(m) == StoreBegins(m) \/ StoreThrows(m)

\* The answer.  With a key that is good the server notes the change and a new
\* key; with another one the task throws.
Modifies ==
    /\ job.type = "store" /\ job.stage = "change"
    /\ LET m == job.umid
           u == umidLocation[m]
           After(flags) == (flags \cup SetOf(umidChanges[m].add)) \ SetOf(umidChanges[m].remove)
       IN  IF syncKey \in {"last", "prior"}
           THEN /\ mail' = [mail EXCEPT ![u] = IF @ = None THEN None ELSE After(@)]
                /\ snap' = [prior |-> snap[syncKey],
                            last  |-> [snap[syncKey] EXCEPT ![u] = IF mail[u] = None \/ @ = None THEN @ ELSE After(@)]]
                /\ syncKey' = "prior"
                /\ job' = [job EXCEPT !.stage = "end"]
                /\ fresh' = (fresh /\ mail' = mail)
                /\ foreign' = foreign \cup ({serverIdInfo[u]} \ {0, m})
                /\ reverted' = reverted \cup ({serverIdInfo[u]} \ {0, m})
                /\ half' = half
           ELSE /\ job' = NoJob
                /\ half' = half \cup {m}
                /\ UNCHANGED <<mail, snap, syncKey, fresh, foreign, reverted>>
    /\ UNCHANGED <<came, odd, umidSuffix, serverIdInfo, db, queue, umidChanges, markers, jammed, orphans, left,
                   doubled, mangled, flapped, events>>

\* The new key is not among what is written.
StoreEnds ==
    /\ job.type = "store" /\ job.stage = "end"
    /\ umidChanges' = [umidChanges EXCEPT ![job.umid] = None]
    /\ half' = half \ {job.umid}
    /\ job' = NoJob
    /\ UNCHANGED markers /\ StoreKeeps

-----------------------------------------------------------------------------
(* Failures. *)

FaultKeeps == UNCHANGED <<world, state, db, queue, umidChanges, orphans, left, foreign, doubled, mangled, flapped, reverted>>

HalfStored == IF job.type = "store" THEN half \cup {job.umid} ELSE half

\* A command, or what is written of its answer, fails.
JobFails ==
    /\ Event /\ job # NoJob
    /\ jammed' = (jammed \/ job.type = "refresh")
    /\ fresh' = (fresh /\ job.type # "refresh")
    /\ half' = HalfStored
    /\ job' = NoJob
    /\ UNCHANGED markers /\ FaultKeeps

\* The process ends and begins again; a marker comes back for what is pending.
Restart ==
    /\ Event
    /\ markers' = {m \in Umids : umidChanges[m] # None}
    /\ jammed' = FALSE
    /\ fresh' = (fresh /\ job.type # "refresh")
    /\ half' = HalfStored
    /\ job' = NoJob
    /\ FaultKeeps

-----------------------------------------------------------------------------
Next ==
    \/ Arrives \/ Forgets
    \/ \E u \in Uids : Deleted(u) \/ \E f \in Flags : OtherClientSets(u, f)
    \/ \E m \in Umids, req \in Request : AsksFlags(m, req)
    \/ PlanStore \/ PlanConv
    \/ RefreshBegins \/ GetsKey \/ KeyRefused
    \/ \E batch \in SUBSET Uids : Enumerates(batch)
    \/ RefreshEnds
    \/ \E m \in Umids : StoreTurn(m)
    \/ Modifies \/ StoreEnds
    \/ JobFails \/ Restart

Spec == Init /\ [][Next]_vars

\* As in ImapSync.
FairSpec == Spec /\ []<>Executing /\ SF_vars(\E m \in Umids : StoreTurn(m))

-----------------------------------------------------------------------------
(* Properties. *)

\* The sync key and the ids stand for the same mail: a message has a umid if and
\* only if the server takes it for told, by the saved key, whatever was half
\* done, refused or sent twice; but for messages that could not be parsed.  A
\* umid stands for one message and is located there.  What has a location is
\* known, but for what was told again.  (When a key is refused the messages are
\* not deleted: what is gone by then is never noticed.)
IdsAccount ==
    /\ TypeOK
    /\ syncKey \in {"last", "prior"} =>
          \A u \in Uids \ odd : serverIdInfo[u] \notin {0} \cup left <=> snap[syncKey][u] # None
    /\ \A u \in Uids : serverIdInfo[u] # 0 =>
          umidLocation[serverIdInfo[u]] = u /\ messages[serverIdInfo[u]] # None
    /\ \A m \in Umids \ orphans : umidLocation[m] # 0 => serverIdInfo[umidLocation[m]] = m

\* What the user sees is what the server has with the pending changes applied,
\* for a message that nobody else changed and whose flags were not mixed up.
ViewIsServerPlusPending ==
    \A u \in Uids :
        LET m == serverIdInfo[u]
        IN  m # 0 /\ mail[u] # None /\ m \notin foreign \cup doubled \cup mangled \cup flapped =>
                ToSet(messages[m]) = LET d == umidChanges[m]
                                     IN  IF d = None THEN mail[u]
                                         ELSE (mail[u] \cup SetOf(d.add)) \ SetOf(d.remove)

\* When a refresh was told of everything, nothing has changed since and nothing
\* is left to do, the folder is what the server holds, even for messages that
\* others changed and for changes that flapped.
AtRest == Executing /\ \A m \in Umids : umidChanges[m] = None
RestInStep ==
    AtRest /\ fresh =>
        /\ \A u \in Uids \ odd : mail[u] # None <=> serverIdInfo[u] \notin {0} \cup left
        /\ \A u \in Uids : serverIdInfo[u] \notin {0} \cup left \cup doubled \cup mangled \cup reverted =>
              ToSet(messages[serverIdInfo[u]]) = mail[u]
        /\ \A m \in Umids \ orphans : messages[m] # None => \E u \in Uids : serverIdInfo[u] = m

\* Every pending change has been played to the server, unless its marker threw.
AllChangesPlayed == \A m \in Umids : umidChanges[m] = None \/ m \in half

=============================================================================
