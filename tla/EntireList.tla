----------------------------- MODULE EntireList -----------------------------
(***************************************************************************)
(* A list that is sent whole (accounts, folders): AccountsTOC/FoldersTOC,   *)
(* EntireListProxy, which sends positional changes and merges the pending   *)
(* ones of an item, BatchManager's delayed flush, the bridge, and the       *)
(* EntireListView that replays the changes.  It implements ListMirror.      *)
(* With the events an item goes in its wire form, which for a folder has    *)
(* more than the folder: what its account and its engine say.  A folder     *)
(* that is there when the proxy is populated goes as it is.                 *)
(***************************************************************************)
EXTENDS Naturals, Sequences, FiniteSets, SequencesExt

CONSTANTS
    Items,     \* ids of accounts or folders
    None,      \* no state
    MaxChanges, MaxPushes,  \* bounds on the environment
    MaxBehind  \* bound: updates under way

ASSUME EntireListAssumption ==
    /\ IsFiniteSet(Items) /\ None \notin [id : Items, version : [own : Nat, mixed : Nat]]
    /\ {MaxChanges, MaxPushes, MaxBehind} \subseteq Nat

VARIABLES
    items,      \* the TOC's items, in order
    gone,       \* ids of removed items: ids are never issued again
    state,      \* version of each item, and of the account that was told with it, if any
    account,    \* version of what goes into the wire form of each item; accounts have none
    overlay,    \* version of what overlayResolver computes for each item
    viewed,     \* the front end asked for the list: the proxy is populated
    proxy,      \* _pendingChanges, _idToChangeIndex, dirty
    channel,    \* updates sent and not yet processed
    view,       \* the view's items
    listings,   \* history: the list at the moment each update was sent
    used        \* how much of each environment bound is spent

vars == <<items, gone, state, account, overlay, viewed, proxy, channel, view, listings, used>>

Versions == [own : 1..(MaxChanges + 1), mixed : 0..(MaxChanges + 1)]
Overlays == 1..(MaxPushes + 1)

State == [id : Items, version : Versions]
Row   == [id : Items, version : Versions, overlay : Overlays]

\* Items of accounts have nothing mixed in, those of folders always have.
NoAccount == 0

\* Overlays 0 are null.  The state of a removal and of a push of overlays is None.
Entry == [type : {"add", "change", "remove"}, index : Nat \ {0},
          state : State \cup {None}, overlays : Overlays \cup {0}]

TypeOK ==
    /\ items \in Seq(Items) /\ gone \in SUBSET Items
    /\ state \in [Items -> Versions] /\ account \in 0..(MaxChanges + 1)
    /\ overlay \in [Items -> Overlays]
    /\ viewed \in BOOLEAN
    /\ proxy.changes \in Seq(Entry) /\ proxy.dirty \in BOOLEAN
    /\ DOMAIN proxy.at \in SUBSET Range(items)
    /\ \A i \in DOMAIN proxy.at : proxy.at[i] \in DOMAIN proxy.changes
    /\ channel \in Seq(Seq(Entry))
    /\ view \in Seq(Row) /\ listings \in Seq(Seq(Row))
    /\ used \in [{"change", "push"} -> Nat]

Spend(what, bound) == used[what] < bound /\ used' = [used EXCEPT ![what] = @ + 1]

-----------------------------------------------------------------------------
(* EntireListProxy: proxy p after an event about the item at index k.       *)

Clean == [changes |-> << >>, at |-> << >>, dirty |-> FALSE]

\* Appends an entry that later events about item i may amend.
Pushed(p, i, entry) ==
    [changes |-> Append(p.changes, entry),
     at |-> [j \in DOMAIN p.at \cup {i} |->
                IF j = i THEN Len(p.changes) + 1 ELSE p.at[j]],
     dirty |-> TRUE]

OnAdd(p, item, overlays, k) ==
    Pushed(p, item.id, [type |-> "add", index |-> k, state |-> item,
                        overlays |-> overlays])

ChangeEntry(k, item, overlays) ==
    [type |-> "change", index |-> k, state |-> item, overlays |-> overlays]

\* Mutant of OnChange: a change replaces the pending entry.
OnChangeClobbers(p, item, k) ==
    IF item.id \in DOMAIN p.at
    THEN [p EXCEPT !.changes[p.at[item.id]] = ChangeEntry(k, item, 0)]
    ELSE Pushed(p, item.id, ChangeEntry(k, item, 0))

OnChange(p, item, k) ==
    IF item.id \in DOMAIN p.at
    THEN [p EXCEPT !.changes[p.at[item.id]].state = item]
    ELSE Pushed(p, item.id, ChangeEntry(k, item, 0))

OnOverlayPush(p, i, overlays, k) ==
    IF i \in DOMAIN p.at
    THEN [p EXCEPT !.changes[p.at[i]].overlays = overlays]
    ELSE Pushed(p, i, ChangeEntry(k, None, overlays))

OnRemove(p, i, k) ==
    [p EXCEPT !.changes = Append(@, [type |-> "remove", index |-> k,
                                     state |-> None, overlays |-> 0]),
              !.at = [j \in DOMAIN @ \ {i} |-> @[j]],
              !.dirty = TRUE]

-----------------------------------------------------------------------------
(* What happens to the list, and the events in which the TOC tells of it.   *)

\* What happened to the item at index k of a list, with what it is now.
Event(on, k, list, states, overlays) ==
    [on |-> on, index |-> k, item |-> [id |-> list[k], version |-> states[list[k]]],
     overlays |-> overlays[list[k]]]

Heard(p, e) ==
    CASE e.on = "add"    -> OnAdd(p, e.item, e.overlays, e.index)
      [] e.on = "change" -> OnChange(p, e.item, e.index)
      [] e.on = "push"   -> OnOverlayPush(p, e.item.id, e.overlays, e.index)
      [] e.on = "remove" -> OnRemove(p, e.item.id, e.index)

\* The proxy after events, one after the other.
HeardAll(p, events) ==
    LET after[n \in 0..Len(events)] ==
            IF n = 0 THEN p ELSE Heard(after[n - 1], events[n])
    IN after[Len(events)]

\* The proxy listens once it is populated.
Tell(events) == proxy' = IF viewed THEN HeardAll(proxy, events) ELSE proxy

\* accountDefToWireRep and folderInfoToWireRep: of the items that an event is
\* about, which is told once there is a proxy.
WireRep(ids, versions) ==
    [i \in Items |-> IF viewed /\ i \in ids THEN [versions[i] EXCEPT !.mixed = account'] ELSE versions[i]]

\* getAllItems: folders have nothing mixed in.
RawRep == [i \in Items |-> [state[i] EXCEPT !.mixed = NoAccount]]

\* __addAccount and _addFolder: the order of names is not modelled.
AddItem(i, k) ==
    /\ i \notin gone \cup Range(items)
    /\ items' = InsertAt(items, k, i)
    /\ UNCHANGED <<account, gone>> /\ state' = WireRep({i}, state)
    /\ Tell(<<Event("add", k, items', state', overlay)>>)
    /\ UNCHANGED <<overlay, viewed, channel, view, listings, used>>

RemoveItem(k) ==
    /\ items' = RemoveAt(items, k)
    /\ gone' = gone \cup {items[k]}
    /\ Tell(<<Event("remove", k, items, state, overlay)>>)
    /\ UNCHANGED <<state, account, overlay, viewed, channel, view, listings, used>>

\* One item changes; its place in the list does not, whatever its name.
ChangeItem(k) ==
    /\ Spend("change", MaxChanges)
    /\ UNCHANGED account
    /\ state' = WireRep({items[k]}, [state EXCEPT ![items[k]].own = @ + 1])
    /\ Tell(<<Event("change", k, items, state', overlay)>>)
    /\ UNCHANGED <<items, gone, overlay, viewed, channel, view, listings>>

\* Something of every item is new.
Renewed(values) == [i \in Items |-> IF i \in Range(items) THEN values[i] + 1 ELSE values[i]]

\* _onAccountChange: the wire form of every folder changes.
ChangeAll ==
    /\ account # NoAccount /\ Spend("change", MaxChanges)
    /\ account' = account + 1
    /\ state' = WireRep(Range(items), state)
    /\ Tell([k \in DOMAIN items |-> Event("change", k, items, state', overlay)])
    /\ UNCHANGED <<items, gone, overlay, viewed, channel, view, listings>>

\* A task announces new overlay data for an item, listed or not.
PushOverlay(i) ==
    /\ Spend("push", MaxPushes)
    /\ overlay' = [overlay EXCEPT ![i] = @ + 1]
    /\ IF i \in Range(items)
       THEN \E k \in DOMAIN items :
               items[k] = i /\ Tell(<<Event("push", k, items, state, overlay')>>)
       ELSE UNCHANGED proxy
    /\ UNCHANGED <<items, gone, state, account, viewed, channel, view, listings>>

\* _onAccountOverlayCascade: new overlay data for every folder.
PushAll ==
    /\ account # NoAccount /\ Spend("push", MaxPushes)
    /\ overlay' = Renewed(overlay)
    /\ Tell([k \in DOMAIN items |-> Event("push", k, items, state, overlay')])
    /\ UNCHANGED <<items, gone, state, account, viewed, channel, view, listings>>

-----------------------------------------------------------------------------
(* Population, flush, and the view.                                        *)

\* The list as it is, with so much of the account as was told.
Listing == [k \in DOMAIN items |->
               [id |-> items[k], version |-> state[items[k]],
                overlay |-> overlay[items[k]]]]

\* populateFromList: adds everything, as getAllItems gives it, and flushes at once.
View ==
    /\ ~viewed /\ viewed' = TRUE
    /\ channel' = Append(channel,
            HeardAll(Clean, [k \in DOMAIN items |->
                                Event("add", k, items, RawRep, overlay)]).changes)
    /\ listings' = Append(listings, Listing)
    /\ UNCHANGED <<items, gone, state, account, overlay, proxy, view, used>>

\* The 100 ms are over, or the flush of some other proxy takes this one along.
Flush ==
    /\ proxy.dirty
    /\ Len(channel) < MaxBehind
    /\ channel' = Append(channel, proxy.changes)
    /\ proxy' = Clean
    /\ listings' = Append(listings, Listing)
    /\ UNCHANGED <<items, gone, state, account, overlay, viewed, view, used>>

Updated(row, change) ==
    [id      |-> IF change.state = None THEN row.id ELSE change.state.id,
     version |-> IF change.state = None THEN row.version ELSE change.state.version,
     overlay |-> IF change.overlays = 0 THEN row.overlay ELSE change.overlays]

Replayed(rows, change) ==
    CASE change.type = "add" ->
            InsertAt(rows, change.index,
                     [id |-> change.state.id, version |-> change.state.version,
                      overlay |-> change.overlays])
      [] change.type = "change" ->
            [rows EXCEPT ![change.index] = Updated(@, change)]
      [] change.type = "remove" -> RemoveAt(rows, change.index)

\* EntireListView.__update.
Update(rows, changes) ==
    LET after[n \in 0..Len(changes)] ==
            IF n = 0 THEN rows ELSE Replayed(after[n - 1], changes[n])
    IN after[Len(changes)]

Deliver ==
    /\ channel # << >>
    /\ view' = Update(view, Head(channel))
    /\ channel' = Tail(channel) /\ listings' = Tail(listings)
    /\ UNCHANGED <<items, gone, state, account, overlay, viewed, proxy, used>>

-----------------------------------------------------------------------------

Init ==
    /\ items \in UNION {SetToSeqs(S) : S \in SUBSET Items}
    /\ gone = {}
    /\ state = [i \in Items |-> [own |-> 1, mixed |-> NoAccount]] /\ account \in {NoAccount, 1}
    /\ overlay = [i \in Items |-> 1]
    /\ viewed = FALSE
    /\ proxy = Clean
    /\ channel = << >> /\ view = << >> /\ listings = << >>
    /\ used = [what \in {"change", "push"} |-> 0]

Next ==
    \/ \E i \in Items : \E k \in 1..(Len(items) + 1) : AddItem(i, k)
    \/ \E k \in DOMAIN items : RemoveItem(k) \/ ChangeItem(k)
    \/ \E i \in Items : PushOverlay(i)
    \/ ChangeAll \/ PushAll
    \/ View \/ Flush \/ Deliver

Spec == Init /\ [][Next]_vars

\* The request for the list is served, the timer fires, the bridge delivers.
Fairness == WF_vars(View) /\ WF_vars(Flush) /\ WF_vars(Deliver)

FairSpec == Spec /\ Fairness

-----------------------------------------------------------------------------
(* The promise: what is sent are changes, each message stands for the list   *)
(* as it was when it was sent.                                               *)

Mirror == INSTANCE ListMirror WITH
    Rows <- Row, list <- Listing, sent <- listings, shown <- view

\* However changes are merged, each flush brings the view exactly to the list
\* as it is at that moment, and the view gets to see its last state: all items in
\* their order, with the last version of each and of its overlays, and with what
\* the account said when the last event was about the item.  Of what the account
\* says of an item that was there before the view, nothing is promised until then.
\* (With the type invariant.)
ImplementsListMirror == Mirror!FairSpec /\ []TypeOK

=============================================================================
