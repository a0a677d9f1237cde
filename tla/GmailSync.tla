------------------------------ MODULE GmailSync ------------------------------
(***************************************************************************)
(* A Gmail account: its sync state, the tasks sync_grow and sync_conv over *)
(* the folder of all mail, and the user's changes of flags and labels on   *)
(* their way to the server (store_flags and store_labels, which are both   *)
(* mix_store.js).                                                          *)
(*                                                                         *)
(* Changes that are the same for several messages are aggregated: a bucket *)
(* per change holds the uids, and a memory of the process maps each uid to *)
(* its bucket.  The task manager runs one job at a time and plans before   *)
(* it executes (TaskManager); commands are answered in order, and the mail *)
(* may change between any two answers.                                     *)
(*                                                                         *)
(* sync_refresh fetches what has changed and then reads a module it does   *)
(* not import: it throws whatever the server said, changes nothing, and    *)
(* has no action here.  So what others do is never noticed, a conversation *)
(* is fetched once, and nothing is pending for a message when it is.       *)
(***************************************************************************)
EXTENDS Naturals, Sequences, FiniteSets, SequencesExt, FlagDeltas

CONSTANTS
    N,             \* the messages are 1..N, in order of arrival
    None,
    Label,         \* the label that is synced, one of Flags; the others are flags
    Old,           \* messages whose date only the last growth reaches
    Thread,        \* the conversation of each message
    MaxEvents      \* bound: what others and the user do, failures and restarts

Uids == 1..N
Threads == {Thread[u] : u \in Uids}
Attrs == {"flags", "labels"}
Names(attr) == IF attr = "labels" THEN {Label} ELSE Flags \ {Label}

VARIABLES
    (* the server *)
    allMail,     \* the flags and labels of each message, None: not there
    arrived,     \* how many have come
    (* the sync state of the account *)
    sinceDate,   \* labelSinceDates: how far back the label has grown
    yayUids,     \* messages that meet the sync criteria
    mehUids,     \* the others of their conversations
    (* memory: caches and complex task states *)
    shown,       \* message.flags and message.folderIds, as lists
    stores,      \* of each attribute: aggrChanges, idToAggrString, nextId
    (* the database, where it may differ *)
    disk,        \* messages and aggrChanges as they were last written
    (* tasks *)
    requests,    \* store tasks waiting to be planned
    fetches,     \* conversations with a sync_conv that fetches them
    todo,        \* store markers that wait to execute
    stuck,       \* is the bin of sync_grow stuck?
    errand,      \* the job that runs
    (* history *)
    tangled,     \* messages whose pending change was lost or mixed up with others'
    strange,     \* messages that others changed, or that a STORE changed that failed
    twice,       \* messages with a flag that was added although it was there
    partial,     \* <<attr, message>>: a STORE of it may have worked although it failed
    unfetched,   \* messages that are known and that no sync_conv fetches
    spent

mailVars  == <<allMail, arrived>>
syncVars  == <<sinceDate, yayUids, mehUids>>
storeVars == <<shown, stores, disk, requests, todo>>
pastVars  == <<tangled, strange, twice, partial>>
vars == <<mailVars, syncVars, storeVars, fetches, stuck, errand, pastVars, unfetched, spent>>

Changes == [add : [Flags -> 0..MaxEvents], remove : [Flags -> 0..MaxEvents]]
Requests == [attr : Attrs, only : SUBSET Uids, add : SUBSET Flags, remove : SUBSET Flags]
Marker == [attr : Attrs, id : Nat, change : Changes]
Idle == [type |-> "none", found |-> {}, all |-> FALSE, thread |-> None, marker |-> None, stage |-> 0]
NoStore == [buckets |-> << >>, entry |-> [u \in Uids |-> None], nextId |-> 1]

TypeOK ==
    /\ allMail \in [Uids -> {None} \cup SUBSET Flags] /\ arrived \in 0..N
    /\ sinceDate \in {"never", "recent", "all"} /\ {yayUids, mehUids} \subseteq SUBSET Uids
    /\ \A u \in Uids : shown[u] = None \/ shown[u] \in [Flags -> Nat]
    /\ \A a \in Attrs : /\ stores[a].entry \in [Uids -> {None} \cup Changes]
                        /\ DOMAIN stores[a].buckets \subseteq Changes
                        /\ stores[a].nextId \in Nat
    /\ requests \in Seq(Requests) /\ fetches \subseteq Threads
    /\ todo \subseteq Marker
    /\ stuck \in BOOLEAN
    /\ errand.type \in {"none", "grow", "conv", "store"} /\ errand.found \subseteq Uids
    /\ {tangled, strange, twice, unfetched} \subseteq SUBSET Uids /\ partial \subseteq Attrs \X Uids
    /\ spent \in 0..MaxEvents

Init ==
    /\ arrived \in 0..N
    /\ allMail \in [Uids -> {None, {}, {Label}}]
    /\ \A u \in Uids : allMail[u] = None <=> u > arrived
    /\ sinceDate = "never" /\ yayUids = {} /\ mehUids = {}
    /\ shown = [u \in Uids |-> None]
    /\ stores = [a \in Attrs |-> NoStore]
    /\ disk = [shown |-> shown, stores |-> stores]
    /\ requests = << >> /\ fetches = {} /\ todo = {} /\ stuck = FALSE
    /\ errand = Idle
    /\ tangled = {} /\ strange = {} /\ twice = {} /\ partial = {} /\ unfetched = {}
    /\ spent = 0

Spend == spent < MaxEvents /\ spent' = spent + 1

-----------------------------------------------------------------------------
(* The server, and other clients. *)

Others == /\ Spend
          /\ UNCHANGED <<syncVars, storeVars, fetches, stuck, errand, tangled, twice, partial, unfetched>>

\* A message is delivered, with the label or without.
Delivered ==
    /\ Others /\ arrived < N
    /\ arrived' = arrived + 1
    /\ \E names \in {{}, {Label}} : allMail' = [allMail EXCEPT ![arrived + 1] = names]
    /\ UNCHANGED strange

OthersSet(u, f) ==
    /\ Others /\ allMail[u] # None
    /\ allMail' = [allMail EXCEPT ![u] = IF f \in @ THEN @ \ {f} ELSE @ \cup {f}]
    /\ strange' = strange \cup ({u} \ {v \in Uids : shown[v] = None})
    /\ UNCHANGED arrived

OthersExpunge(u) ==
    /\ Others /\ allMail[u] # None
    /\ allMail' = [allMail EXCEPT ![u] = None]
    /\ UNCHANGED <<arrived, strange>>

-----------------------------------------------------------------------------
(* Store tasks: planning. *)

\* The user changes flags or labels of a conversation, or of some of it.
Asks(r) ==
    /\ Spend /\ r.add \cup r.remove # {}
    /\ Cardinality({Thread[u] : u \in r.only}) = 1 /\ \A u \in r.only : shown[u] # None
    /\ requests' = Append(requests, r)
    /\ UNCHANGED <<mailVars, syncVars, shown, stores, disk, todo, fetches, stuck, errand, pastVars, unfetched>>

IndexIn(uids, u) == IF \E i \in DOMAIN uids : uids[i] = u THEN CHOOSE i \in DOMAIN uids : uids[i] = u ELSE 0

\* Mutant of Spliced: nothing is removed.
SplicedNot(uids, u) == uids

\* uids.splice(uids.indexOf(uid)): with one argument, from there to the end; the
\* index of a uid that is not there is -1, which is the last one's.
Spliced(uids, u) ==
    LET i == IndexIn(uids, u)
    IN  SubSeq(uids, 1, (IF i = 0 THEN Len(uids) ELSE i) - 1)

\* The change that is asked for, as it is for this message.
Asked(bag, r) ==
    LET now == IF r.attr = "labels" THEN ActualInSet(bag, r) ELSE Actual(bag, r)
    IN  [delta |-> now.delta, bag |-> [f \in Flags |-> IF f \in Names(r.attr) THEN now.flags[f] ELSE bag[f]]]

\* A uid is put into the bucket of its change, which is made if need be; its
\* marker is issued (again).
Bucketed(p, attr, u, change) ==
    LET known  == change \in DOMAIN p.store.buckets
        bucket == IF known THEN [p.store.buckets[change] EXCEPT !.uids = Append(@, u)]
                  ELSE [id |-> p.store.nextId, uids |-> <<u>>]
    IN  [p EXCEPT !.store = [buckets |-> (change :> bucket) @@ @.buckets,
                             entry   |-> [@.entry EXCEPT ![u] = change],
                             nextId  |-> IF known THEN @ .nextId ELSE @.nextId + 1],
                  !.todo = @ \cup {[attr |-> attr, id |-> bucket.id, change |-> change]}]

\* A uid is taken out of the bucket its entry names, with what follows it there.
Unbucketed(p, attr, u) ==
    LET change == p.store.entry[u]
        bucket == p.store.buckets[change]
        rest   == Spliced(bucket.uids, u)
        others == {bucket.uids[i] : i \in DOMAIN bucket.uids} \ ({rest[i] : i \in DOMAIN rest} \cup {u})
    IN  [p EXCEPT !.store.buckets = IF rest # << >> THEN [@ EXCEPT ![change].uids = rest]
                                    ELSE [c \in DOMAIN @ \ {change} |-> @[c]],
                  !.todo = IF rest # << >> THEN @ ELSE {m \in @ : m.attr # attr \/ m.id # bucket.id},
                  !.tangled = @ \cup others \cup (IF IndexIn(bucket.uids, u) = 0 THEN {u} ELSE {})]

\* One message of a request: its lists, then its bucket.  An entry that is left
\* over from a change that was cancelled may name a bucket that is gone: then the
\* plan throws, when the message has been changed in memory.
Planned(p, r, u) ==
    LET asked == Asked(p.shown[u], r)
        entry == p.store.entry[u]
        q     == [p EXCEPT !.shown[u] = asked.bag]
        total == IF entry = None THEN asked.delta ELSE Merge(entry, asked.delta)
        freed == IF entry = None THEN q ELSE Unbucketed(q, r.attr, u)
    IN  CASE p.thrown \/ Empty(asked.delta)                         -> p
          [] entry # None /\ entry \notin DOMAIN p.store.buckets  ->
                 [q EXCEPT !.thrown = TRUE]
          [] OTHER -> IF Empty(total) THEN freed ELSE Bucketed(freed, r.attr, u, total)

\* mix_store.js, plan.  If it throws, markers are not issued and nothing is written.
PlanStore ==
    /\ errand = Idle /\ requests # << >>
    /\ LET r   == Head(requests)
           now == [shown |-> shown, store |-> stores[r.attr], todo |-> todo, tangled |-> tangled, thrown |-> FALSE]
           p   == FoldLeft(LAMBDA q, u : Planned(q, r, u), now, SetToSortSeq(r.only, <))
       IN  /\ shown' = p.shown
           /\ stores' = [stores EXCEPT ![r.attr] = p.store]
           /\ todo' = IF p.thrown THEN todo ELSE p.todo
           /\ disk' = IF p.thrown THEN disk ELSE [shown  |-> [u \in Uids |-> IF u \in r.only THEN p.shown[u] ELSE disk.shown[u]],
                                                  stores |-> [disk.stores EXCEPT ![r.attr] = p.store]]
           /\ tangled' = p.tangled \cup (IF p.thrown THEN r.only ELSE {})
           /\ twice' = twice \cup {u \in r.only : \E f \in Flags \ {Label} : p.shown[u][f] > 1}
           /\ strange' = strange \cup {u \in r.only : <<r.attr, u>> \in partial}
    /\ requests' = Tail(requests)
    /\ UNCHANGED <<mailVars, syncVars, fetches, stuck, errand, partial, unfetched, spent>>

-----------------------------------------------------------------------------
(* sync_grow. *)

Executing == errand = Idle /\ requests = << >>
Present == {u \in Uids : allMail[u] # None}
Known == yayUids \cup mehUids

\* The answer to the search for the label, from the new date to the old one.
GrowSearches(all) ==
    /\ Executing /\ ~stuck
    /\ sinceDate # "never" => all
    /\ LET range == IF sinceDate = "all" THEN {}
                    ELSE IF sinceDate = "recent" THEN Old
                    ELSE IF all THEN Uids ELSE Uids \ Old
       IN  errand' = [Idle EXCEPT !.type = "grow", !.all = all,
                                  !.found = {u \in range \cap Present : Label \in allMail[u]}]
    /\ UNCHANGED <<mailVars, syncVars, storeVars, fetches, stuck, pastVars, unfetched, spent>>

\* The answer to the fetch.  What was meh is yay; what was not known is yay, and
\* only a conversation that was not known is fetched: in grow mode there is no
\* task for the new message of a known one.
GrowEnds ==
    /\ errand.type = "grow"
    /\ LET told == errand.found \cap Present
           new  == told \ Known
           old  == {Thread[u] : u \in yayUids}
       IN  /\ yayUids' = yayUids \cup told
           /\ mehUids' = mehUids \ told
           /\ fetches' = fetches \cup ({Thread[u] : u \in new} \ old)
           /\ unfetched' = unfetched \cup {u \in new : Thread[u] \in old \ fetches}
    /\ sinceDate' = IF errand.all THEN "all" ELSE "recent"
    /\ errand' = Idle
    /\ UNCHANGED <<mailVars, storeVars, stuck, pastVars, spent>>

-----------------------------------------------------------------------------
(* sync_conv, _execNewConv. *)

\* The answer to the search for the messages of the conversation.
ConvSearches(t) ==
    /\ Executing /\ t \in fetches
    /\ fetches' = fetches \ {t}
    /\ errand' = [Idle EXCEPT !.type = "conv", !.thread = t, !.found = {u \in Present : Thread[u] = t}]
    /\ UNCHANGED <<mailVars, syncVars, storeVars, stuck, pastVars, unfetched, spent>>

\* messageMeetsSyncCriteria.
Criteria == {u \in Present : Label \in allMail[u] /\ (sinceDate = "all" \/ u \notin Old)}

\* Messages that were not known are, by what their labels are now.
Enrolled(told) ==
    LET new == told \ Known
    IN  [yay |-> yayUids \cup (new \cap Criteria), meh |-> mehUids \cup (new \ Criteria)]

\* The task throws: nothing is written, and nobody asks again.
ConvFails ==
    /\ unfetched' = unfetched \cup {u \in Known : Thread[u] = errand.thread}
    /\ UNCHANGED <<syncVars, shown, disk>>

\* The answer to the fetch; without a message there is no subject to read.
ConvEnds ==
    /\ errand.type = "conv"
    /\ LET told == errand.found \cap Present
           With(messages) == [u \in Uids |-> IF u \in told THEN BagOf(allMail[u]) ELSE messages[u]]
       IN  IF told = {} THEN ConvFails
           ELSE /\ yayUids' = Enrolled(told).yay /\ mehUids' = Enrolled(told).meh
                /\ shown' = With(shown)
                /\ disk' = [disk EXCEPT !.shown = With(@)]
                /\ unfetched' = unfetched \cup {u \in Known \ told : Thread[u] = errand.thread}
                /\ UNCHANGED sinceDate
    /\ errand' = Idle
    /\ UNCHANGED <<mailVars, stores, requests, todo, fetches, stuck, pastVars, spent>>

-----------------------------------------------------------------------------
(* Store tasks: execution. *)

StoreKeeps == UNCHANGED <<arrived, syncVars, shown, requests, fetches, stuck, tangled, strange, twice, unfetched, spent>>

HasBucket(m) == m.change \in DOMAIN stores[m.attr].buckets
Aimed(m) == LET uids == stores[m.attr].buckets[m.change].uids IN {uids[i] : i \in DOMAIN uids}

StoreBegins(m) ==
    /\ Executing /\ m \in todo /\ HasBucket(m)
    /\ todo' = todo \ {m}
    /\ errand' = [Idle EXCEPT !.type = "store", !.marker = m]
    /\ UNCHANGED <<allMail, stores, disk, partial>> /\ StoreKeeps

\* A marker whose bucket is gone throws.
StoreThrows(m) ==
    /\ Executing /\ m \in todo /\ ~HasBucket(m)
    /\ todo' = todo \ {m}
    /\ UNCHANGED <<allMail, stores, disk, partial, errand>> /\ StoreKeeps

\* The answers to +FLAGS and to -FLAGS.
Stores ==
    /\ errand.type = "store" /\ errand.stage < 2
    /\ LET m == errand.marker
           After(names) == IF errand.stage = 0 THEN names \cup SetOf(m.change.add) ELSE names \ SetOf(m.change.remove)
       IN  allMail' = [u \in Uids |-> IF u \in Aimed(m) /\ allMail[u] # None THEN After(allMail[u]) ELSE allMail[u]]
    /\ errand' = [errand EXCEPT !.stage = @ + 1]
    /\ UNCHANGED <<stores, disk, todo, partial>> /\ StoreKeeps

\* The bucket goes, and the entries of its uids.
StoreEnds ==
    /\ errand.type = "store" /\ errand.stage = 2
    /\ LET m == errand.marker
       IN  /\ stores' = [stores EXCEPT ![m.attr] =
                  [@ EXCEPT !.buckets = [c \in DOMAIN @ \ {m.change} |-> @[c]],
                            !.entry = [u \in Uids |-> IF u \in Aimed(m) THEN None ELSE @[u]]]]
           /\ disk' = [disk EXCEPT !.stores = [@ EXCEPT ![m.attr] = stores'[m.attr]]]
           /\ partial' = partial \ ({m.attr} \X Aimed(m))
    /\ errand' = Idle
    /\ UNCHANGED <<allMail, todo>> /\ StoreKeeps

-----------------------------------------------------------------------------
(* Failures. *)

HalfStored == IF errand.type = "store" THEN partial \cup ({errand.marker.attr} \X Aimed(errand.marker)) ELSE partial
Dropped(threads) == {u \in Known : Thread[u] \in threads}

\* A command fails: nothing is written.  The bin of a growth stays taken, a
\* conversation is not asked for again, a bucket stays without its marker.
Fails ==
    /\ Spend /\ errand # Idle
    /\ stuck' = (stuck \/ errand.type = "grow")
    /\ unfetched' = IF errand.type = "conv" THEN unfetched \cup Dropped({errand.thread}) ELSE unfetched
    /\ partial' = HalfStored
    /\ errand' = Idle
    /\ UNCHANGED <<mailVars, syncVars, storeVars, fetches, tangled, strange, twice>>

\* The process ends and begins again: memory is what was written, a marker comes
\* back for each bucket and an entry for each of its uids.  sync_conv tasks that
\* were planned may be lost (see TaskManager).
Restarts(lost) ==
    /\ Spend /\ lost \subseteq fetches
    /\ shown' = disk.shown
    /\ stores' = [a \in Attrs |->
          LET b == disk.stores[a].buckets
              In(u) == {c \in DOMAIN b : IndexIn(b[c].uids, u) # 0}
          IN  [disk.stores[a] EXCEPT !.entry = [u \in Uids |-> IF In(u) = {} THEN None ELSE CHOOSE c \in In(u) : TRUE]]]
    /\ todo' = UNION {{[attr |-> a, id |-> disk.stores[a].buckets[c].id, change |-> c]
                          : c \in DOMAIN disk.stores[a].buckets} : a \in Attrs}
    /\ fetches' = fetches \ lost
    /\ unfetched' = unfetched \cup Dropped(lost \cup (IF errand.type = "conv" THEN {errand.thread} ELSE {}))
    /\ stuck' = FALSE /\ errand' = Idle
    /\ partial' = HalfStored
    /\ UNCHANGED <<mailVars, syncVars, disk, requests, tangled, strange, twice>>

-----------------------------------------------------------------------------
Next ==
    \/ Delivered
    \/ \E u \in Uids : OthersExpunge(u) \/ \E f \in Flags : OthersSet(u, f)
    \/ \E a \in Attrs, only \in SUBSET Uids : \E add \in SUBSET Names(a) : \E remove \in SUBSET (Names(a) \ add) :
          Asks([attr |-> a, only |-> only, add |-> add, remove |-> remove])
    \/ PlanStore
    \/ \E all \in BOOLEAN : GrowSearches(all)
    \/ GrowEnds
    \/ \E t \in Threads : ConvSearches(t)
    \/ ConvEnds
    \/ \E m \in todo : StoreBegins(m) \/ StoreThrows(m)
    \/ Stores \/ StoreEnds
    \/ Fails
    \/ \E lost \in SUBSET Threads : Restarts(lost)

Spec == Init /\ [][Next]_vars

\* As in ImapSync: what is under way ends, and a marker has its turn.
FairSpec == Spec /\ []<>Executing /\ SF_vars(\E m \in todo : StoreBegins(m))

-----------------------------------------------------------------------------
(* Properties. *)

InBucket(a, u) == \E c \in DOMAIN stores[a].buckets : IndexIn(stores[a].buckets[c].uids, u) # 0

\* The changes that wait for the server, of both kinds.
Waiting(u) == {c \in UNION {DOMAIN stores[a].buckets : a \in Attrs} :
                  \E a \in Attrs : c \in DOMAIN stores[a].buckets /\ IndexIn(stores[a].buckets[c].uids, u) # 0}

\* A uid is in one bucket of each kind at most, and once; its entry is that
\* bucket, or the next request would leave it in two.  No bucket is empty.  A
\* message is yay or meh, and a conversation with a meh one has a yay one.
BucketsAccount ==
    /\ TypeOK
    /\ \A a \in Attrs : \A c \in DOMAIN stores[a].buckets :
        LET uids == stores[a].buckets[c].uids
        IN  /\ uids # << >> /\ IsInjective(uids)
            /\ \A i \in DOMAIN uids : stores[a].entry[uids[i]] = c
    /\ yayUids \cap mehUids = {}
    /\ \A u \in mehUids : \E v \in yayUids : Thread[v] = Thread[u]

\* What the user sees is what the server has with the waiting changes applied,
\* for a message that nobody else changed and whose own changes were not tangled.
ViewIsServerPlusWaiting ==
    \A u \in Uids \ (tangled \cup strange \cup twice) :
        shown[u] # None /\ allMail[u] # None =>
            SetOf(shown[u]) = (allMail[u] \cup UNION {SetOf(c.add) : c \in Waiting(u)})
                                  \ UNION {SetOf(c.remove) : c \in Waiting(u)}

\* When nothing is left to do, what is known is what is shown, but for what no
\* task fetches.
KnownIsShown ==
    Executing /\ fetches = {} => /\ \A u \in Uids : shown[u] # None => u \in Known
                                 /\ \A u \in Known \ unfetched : shown[u] # None

\* Every bucket has been played to the server, across restarts, but for what a
\* STORE of failed or a plan that issues the marker threw for.
AllBucketsPlayed == \A a \in Attrs, u \in Uids : InBucket(a, u) => <<a, u>> \in partial \/ u \in tangled

=============================================================================
