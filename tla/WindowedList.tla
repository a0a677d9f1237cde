---------------------------- MODULE WindowedList ----------------------------
(***************************************************************************)
(* One conversation list, end to end: the records that tasks write through *)
(* MailDB and its cache, the ordered ids of FolderConversationsTOC, the    *)
(* window and the bookkeeping of WindowedListProxy, the flushes of         *)
(* BatchManager, the bridge, and the WindowedListView of the front end.    *)
(*                                                                         *)
(* An action is one turn of the worker's event loop, or the delivery of    *)
(* one bridge message.  Events of MailDB are emitted in the turn that      *)
(* submits the write, before it commits.                                   *)
(***************************************************************************)
EXTENDS Naturals, Sequences, FiniteSets, SequencesExt

CONSTANTS
    Convs,         \* conversation ids; they break ties between equal dates
    Dates,         \* dates a conversation may have
    Above, Below,  \* rows wanted above and below the anchor of the window
    MaxWrites, MaxDrops, MaxPushes, MaxSeeks, \* bounds on the environment
    MaxUpsets                                 \* and on the last three together

ASSUME WindowedListAssumption ==
    /\ IsFiniteSet(Convs) /\ Convs \subseteq Nat \ {0}
    /\ IsFiniteSet(Dates) /\ Dates \subseteq Nat \ {0}
    /\ {Above, Below, MaxWrites, MaxDrops, MaxPushes, MaxSeeks, MaxUpsets} \subseteq Nat

VARIABLES
    (* MailDB *)
    record,        \* version of each record, as of the last write submitted
    cache,         \* convCache: the version it holds
    txns,          \* IndexedDB transactions over the conversation store
    overlay,       \* version of the overlay DataOverlayManager resolves
    (* FolderConversationsTOC *)
    idsWithDates,  \* the date under which each conversation is listed
    (* WindowedListProxy *)
    seek,          \* mode and focusKey
    dirty,         \* the proxy is dirty and the BatchManager's timer is set
    validDataSet, validOverlaySet,
    (* the bridge, and WindowedListView *)
    channel,       \* updates sent and not yet processed
    view,          \* items, and the objects that exist for them
    (* history *)
    behind,        \* listed items the code has lost track of (see Flush)
    anchored,      \* the item the window is anchored on stayed where it was
    used           \* how much of each environment bound is spent

vars == <<record, cache, txns, overlay, idsWithDates, seek, dirty, validDataSet,
          validOverlaySet, channel, view, behind, anchored, used>>

None == 0   \* no record, not in the cache, not listed, null state

Versions == 1..MaxWrites
TopDate  == 1 + CHOOSE d \in Dates \cup {0} : \A e \in Dates : e <= d
Keys     == [date : Dates \cup {TopDate}, id : Convs \cup {0}]
TopKey   == [date |-> TopDate, id |-> 0]     \* getTopOrderingKey

\* A read asks for the conversations in need and has yet to hear of those in
\* left; got is what it finds.  A write carries nothing the list looks at.
Read  == [kind : {"read"}, left : SUBSET Convs, got : [Convs -> Versions \cup {None}]]
Write == [kind : {"write"}]

States   == [data : Versions \cup {None}, overlay : 0..MaxPushes]
Used     == {"write", "drop", "push", "seek"}

\* Ids in order, with states for some of them.
StatesOf(ids, values) ==
    /\ ids \in Seq(Convs)
    /\ DOMAIN values \subseteq Range(ids)
    /\ \A c \in DOMAIN values : values[c] \in States

TypeOK ==
    /\ record \in [Convs -> Versions \cup {None}]
    /\ cache \in [Convs -> Versions \cup {None}]
    /\ txns \in Seq(Read \cup Write)
    /\ overlay \in [Convs -> 0..MaxPushes]
    /\ idsWithDates \in [Convs -> Dates \cup {None}]
    /\ seek \in [mode : {"unset", "top", "bottom", "focus"}, key : Keys]
    /\ dirty \in BOOLEAN
    /\ validDataSet \in SUBSET Convs
    /\ validOverlaySet \in SUBSET Convs
    /\ \A i \in 1..Len(channel) : StatesOf(channel[i].ids, channel[i].values)
    /\ StatesOf(view.items, view.objects)
    /\ behind \in SUBSET Convs /\ anchored \in BOOLEAN
    /\ used \in [Used -> Nat]

-----------------------------------------------------------------------------
(* The table of contents. *)

\* folderConversationComparator: newest first, then by id.
Before(k, l) == \/ k.date > l.date
                \/ k.date = l.date /\ k.id > l.id

Listed(toc) == {c \in Convs : toc[c] # None}
KeyOf(toc, c) == [date |-> toc[c], id |-> c]

\* bsearchForInsert: how many entries come before the key.
Ahead(toc, key) == {c \in Listed(toc) : Before(KeyOf(toc, c), key)}
IndexForKey(toc, key) == Cardinality(Ahead(toc, key))

\* The ids as they are listed: each after those whose keys come before its own.
Ordered(toc) ==
    [i \in 1..Cardinality(Listed(toc)) |->
        CHOOSE c \in Listed(toc) : IndexForKey(toc, KeyOf(toc, c)) = i - 1]

Smaller(m, n) == IF m < n THEN m ELSE n
Less(m, n) == IF m > n THEN m - n ELSE 0

\* The ids between beginBufferedInclusive and endBufferedExclusive.  In mode
\* "bottom" the first is NaN (the code reads bufferedAbove, the field is
\* bufferAbove), before the first seek both are: no index is in between.
Window(sk, toc) ==
    LET len == Cardinality(Listed(toc))
        at  == IndexForKey(toc, sk.key)
    IN CASE sk.mode = "top"   -> SubSeq(Ordered(toc), 1, Smaller(len, Below + 1))
         [] sk.mode = "focus" -> SubSeq(Ordered(toc), Less(at, Above) + 1,
                                        Smaller(len, at + Below + 1))
         [] OTHER             -> << >>

Spend(what, bound) ==
    /\ used[what] < bound
    /\ what # "write" => used["drop"] + used["push"] + used["seek"] < MaxUpsets
    /\ used' = [used EXCEPT ![what] = @ + 1]

-----------------------------------------------------------------------------
(* BatchManager._flushPending: the proxy's flush, which asks the TOC for    *)
(* the data of the window and issues a read for what the cache lacks; sk is *)
(* the seek state and queue the transactions at that moment.                *)

\* What getDataForSliceRange makes of the window.
Kept(ids)        == Range(ids) \cap validDataSet \cap validOverlaySet
OverlayOnly(ids) == (Range(ids) \cap validDataSet) \ validOverlaySet
Whole(ids)       == {c \in Range(ids) \ validDataSet : cache[c] # None}
Missing(ids)     == {c \in Range(ids) \ validDataSet : cache[c] = None}

Update(ids) ==
    [ids |-> ids,
     values |-> [c \in OverlayOnly(ids) \cup Whole(ids) |->
                    [data |-> IF c \in Whole(ids) THEN cache[c] ELSE None,
                     overlay |-> overlay[c]]]]

\* Mutant of Flush: counts what has yet to be read as known to the view.
FlushPresumes(sk, queue) ==
    LET ids == Window(sk, idsWithDates)
    IN /\ dirty' = FALSE
       /\ validDataSet' = Kept(ids) \cup Whole(ids) \cup Missing(ids)
       /\ validOverlaySet' = validDataSet'
       /\ channel' = Append(channel, Update(ids))
       /\ txns' = IF Missing(ids) = {} THEN queue
                  ELSE Append(queue, [kind |-> "read", left |-> Missing(ids),
                                      got |-> record])
       /\ behind' = behind

\* What was sent only as an overlay is not in the new set of valid data, so
\* the proxy ignores later changes of it though the view shows it; what was
\* sent whole from a stale cache is valid for the proxy: both are "behind".
Flush(sk, queue) ==
    LET ids == Window(sk, idsWithDates)
    IN /\ dirty' = FALSE
       /\ validDataSet' = Kept(ids) \cup Whole(ids)
       /\ validOverlaySet' = Kept(ids) \cup Whole(ids)
       /\ channel' = Append(channel, Update(ids))
       /\ txns' = IF Missing(ids) = {} THEN queue
                  ELSE Append(queue, [kind |-> "read", left |-> Missing(ids),
                                      got |-> record])
       /\ behind' = ((behind \cap Range(ids)) \ Whole(ids)) \cup OverlayOnly(ids)
                        \cup {c \in Whole(ids) : cache[c] # record[c]}

\* The 100 ms are over.
TimerFires ==
    /\ dirty
    /\ Flush(seek, txns)
    /\ UNCHANGED <<record, cache, overlay, idsWithDates, seek, view, anchored, used>>

-----------------------------------------------------------------------------
(* Requests of the front end.  A seek flushes at once. *)

SeekTo(sk) ==
    /\ Spend("seek", MaxSeeks)
    /\ seek' = sk
    /\ anchored' = TRUE
    /\ Flush(sk, txns)
    /\ UNCHANGED <<record, cache, overlay, idsWithDates, view>>

SeekToTop    == SeekTo([mode |-> "top", key |-> TopKey])
SeekToBottom == SeekTo([mode |-> "bottom", key |-> TopKey])

\* getOrderingKeyForIndex clamps the index; an empty list has the top key.
SeekFocused ==
    IF Listed(idsWithDates) = {}
    THEN SeekTo([mode |-> "focus", key |-> TopKey])
    ELSE \E c \in Listed(idsWithDates) :
            SeekTo([mode |-> "focus", key |-> KeyOf(idsWithDates, c)])

-----------------------------------------------------------------------------
(* A task writes a conversation: added, changed or moved to date d, or      *)
(* deleted when d is None.  One job runs at a time, so one write at most is *)
(* in flight.                                                               *)

WritePending == \E i \in 1..Len(txns) : txns[i].kind = "write"

\* FolderConversationsTOC.onTOCChange: neither listing, date nor index changed.
InPlace(c, toc) ==
    LET index(t) == IndexForKey(t, KeyOf(t, c))
    IN /\ toc[c] # None /\ idsWithDates[c] # None
       /\ \/ toc[c] = idsWithDates[c]
          \/ index(toc) = index(idsWithDates)

\* Mutant of OnChange: what the view has no data for never matters.
OnChangeUnordered(c, dataOnly) ==
    IF c \notin validDataSet
    THEN UNCHANGED <<validDataSet, dirty>>
    ELSE validDataSet' = validDataSet \ {c} /\ dirty' = TRUE

\* WindowedListProxy.onChange.
OnChange(c, dataOnly) ==
    IF c \notin validDataSet /\ dataOnly
    THEN UNCHANGED <<validDataSet, dirty>>
    ELSE /\ validDataSet' = validDataSet \ {c}
         /\ dirty' = TRUE

WriteConv(c, d) ==
    /\ ~WritePending
    /\ d # None \/ idsWithDates[c] # None
    /\ Spend("write", MaxWrites)
    /\ LET version == IF d = None THEN None ELSE used'["write"]
       IN /\ record' = [record EXCEPT ![c] = version]
          /\ cache' = [cache EXCEPT ![c] = version]
    /\ idsWithDates' = [idsWithDates EXCEPT ![c] = d]
    /\ anchored' = (anchored /\ (c = seek.key.id => d = seek.key.date))
    /\ OnChange(c, InPlace(c, idsWithDates'))
    /\ txns' = Append(txns, [kind |-> "write"])
    /\ UNCHANGED <<overlay, seek, validOverlaySet, channel, view, behind>>

-----------------------------------------------------------------------------
(* IndexedDB: a read runs beside other reads, a write by itself, and each   *)
(* waits for the conflicting ones before it.  So a read finds what was      *)
(* submitted before it, which is what got holds.                            *)

Started(i) == \A j \in 1..(i - 1) : txns[j].kind = "read"

WriteCommits ==
    /\ txns # << >> /\ Head(txns).kind = "write"
    /\ txns' = Tail(txns)
    /\ UNCHANGED <<record, cache, overlay, idsWithDates, seek, dirty, validDataSet,
                   validOverlaySet, channel, view, behind, anchored, used>>

\* Mutant of ReadAnswers: the cache is dropped as soon as something is read.
ReadAnswersInVain(i, c) ==
    /\ txns[i].kind = "read" /\ Started(i) /\ c \in txns[i].left
    /\ txns' = [txns EXCEPT ![i].left = @ \ {c}]
    /\ cache' = [b \in Convs |-> None]
    /\ UNCHANGED <<record, overlay, idsWithDates, seek, dirty, validDataSet,
                   validOverlaySet, channel, view, behind, anchored, used>>

\* onsuccess of one request: fills the cache unless something is there.
ReadAnswers(i, c) ==
    /\ txns[i].kind = "read" /\ Started(i) /\ c \in txns[i].left
    /\ txns' = [txns EXCEPT ![i].left = @ \ {c}]
    /\ cache' = IF cache[c] # None THEN cache
                ELSE [cache EXCEPT ![c] = txns[i].got[c]]
    /\ UNCHANGED <<record, overlay, idsWithDates, seek, dirty, validDataSet,
                   validOverlaySet, channel, view, behind, anchored, used>>

\* oncomplete: the proxy is flushed at once, dirty or not.
ReadCompletes(i) ==
    /\ txns[i].kind = "read" /\ Started(i) /\ txns[i].left = {}
    /\ Flush(seek, RemoveAt(txns, i))
    /\ UNCHANGED <<record, cache, overlay, idsWithDates, seek, view, anchored, used>>

\* emptyCache, 100 ms after some read or write was done.  Other contexts read
\* and write too, so it may come at any time.  cacheDrop flushes what is dirty.
EmptyCache ==
    /\ Spend("drop", MaxDrops)
    /\ cache' = [c \in Convs |-> None]
    /\ IF dirty THEN Flush(seek, txns)
       ELSE UNCHANGED <<txns, dirty, validDataSet, validOverlaySet, channel, behind>>
    /\ UNCHANGED <<record, overlay, idsWithDates, seek, view, anchored>>

\* WindowedListProxy.onOverlayPush.
OverlayPush(c) ==
    /\ Spend("push", MaxPushes)
    /\ overlay' = [overlay EXCEPT ![c] = @ + 1]
    /\ IF c \in validOverlaySet
       THEN validOverlaySet' = validOverlaySet \ {c} /\ dirty' = TRUE
       ELSE UNCHANGED <<validOverlaySet, dirty>>
    /\ UNCHANGED <<record, cache, txns, idsWithDates, seek, validDataSet, channel,
                   view, behind, anchored>>

-----------------------------------------------------------------------------
(* WindowedListView.__update. *)

Shown(objects, msg, c) ==
    IF c \notin DOMAIN msg.values THEN objects[c]
    ELSE IF c \in DOMAIN objects /\ msg.values[c].data = None
         THEN [msg.values[c] EXCEPT !.data = objects[c].data]
         ELSE msg.values[c]

Deliver ==
    /\ channel # << >>
    /\ channel' = Tail(channel)
    /\ LET msg == Head(channel)
           known == Range(msg.ids) \cap (DOMAIN view.objects \cup DOMAIN msg.values)
       IN view' = [items |-> msg.ids,
                   objects |-> [c \in known |-> Shown(view.objects, msg, c)]]
    /\ UNCHANGED <<record, cache, txns, overlay, idsWithDates, seek, dirty,
                   validDataSet, validOverlaySet, behind, anchored, used>>

-----------------------------------------------------------------------------

Init ==
    /\ record = [c \in Convs |-> None] /\ cache = record
    /\ txns = << >>
    /\ overlay = [c \in Convs |-> 0]
    /\ idsWithDates = [c \in Convs |-> None]
    /\ seek = [mode |-> "unset", key |-> TopKey]
    /\ dirty = FALSE /\ validDataSet = {} /\ validOverlaySet = {}
    /\ channel = << >>
    /\ view = [items |-> << >>, objects |-> << >>]
    /\ behind = {} /\ anchored = TRUE
    /\ used = [what \in Used |-> 0]

ReadProgresses ==
    \E i \in 1..Len(txns) : \/ \E c \in Convs : ReadAnswers(i, c)
                           \/ ReadCompletes(i)

Next ==
    \/ TimerFires \/ SeekToTop \/ SeekToBottom \/ SeekFocused
    \/ \E c \in Convs : \/ \E d \in Dates \cup {None} : WriteConv(c, d)
                        \/ OverlayPush(c)
    \/ WriteCommits
    \/ ReadProgresses
    \/ EmptyCache
    \/ Deliver

Spec == Init /\ [][Next]_vars

\* The event loop turns: as long as a timer, the database or the bridge has
\* something to deliver, one of them delivers, in whatever order.
Fairness == WF_vars(TimerFires \/ WriteCommits \/ ReadProgresses \/ Deliver)

FairSpec == Spec /\ Fairness

-----------------------------------------------------------------------------
(* Properties. *)

Reading == \E i \in 1..Len(txns) : txns[i].kind = "read"
AtRest  == ~dirty /\ ~Reading /\ channel = << >>

\* What the proxy believes the view to have, the view has: an update that
\* brings only an overlay never meets an item without data.
BelievedIsKnown ==
    channel = << >> => \A c \in validDataSet : c \in DOMAIN view.objects

FreshUnlessBehind ==
    \A c \in DOMAIN view.objects \ behind :
        view.objects[c] = [data |-> record[c], overlay |-> overlay[c]]

\* Once nothing is under way the view lists the window, in order, whatever was
\* added, moved and deleted: a change that onTOCChange calls a change of data
\* only never moves the window.  (Once its anchor moved, one may do so unseen.)
\* No row is a placeholder without data, and every row shows the latest record
\* and overlay, unless it is one of those the code has lost track of.  (With the
\* type invariant.)
RowsAtRest ==
    /\ TypeOK
    /\ AtRest => /\ anchored => view.items = Window(seek, idsWithDates)
                 /\ Range(view.items) = DOMAIN view.objects
                 /\ FreshUnlessBehind

\* The list always comes to rest: reads and flushes do not chase each other.
Settles == []<>AtRest

=============================================================================
