-------------------------------- MODULE Bridge --------------------------------
(***************************************************************************)
(* The bridge between the client API and the back end: the commands of     *)
(* each handle and the queue they wait in while one is pending             *)
(* (MailBridge), the context of each handle and what it acquired           *)
(* (BridgeContext, NamedContext), the reference-counted TOCs behind the    *)
(* list views (RefedResource, BaseTOC, MailUniverse) and the items that    *)
(* are tracked one by one.                                                 *)
(*                                                                         *)
(* Messages are delivered in order both ways.  What a settled promise      *)
(* leads to happens before the next message is received, and so is part of *)
(* the step that settles it.                                               *)
(***************************************************************************)
EXTENDS Naturals, Sequences, FiniteSets, SequencesExt

CONSTANTS
    Lists,         \* handles of list views that the client opens
    Items,         \* handles of tracked items
    Kids,          \* handles of derived views
    Parent,        \* the search that a derived view comes with
    Folder,        \* the folder whose shared TOC a list shows, None: a search
    None,
    MaxEvents      \* bound: commands, changes of the tracked record, queries that fail

Views   == Lists \cup Kids
Handles == Views \cup Items
Folders == {Folder[h] : h \in Lists} \ {None}
KidsOf(h) == {k \in Kids : Parent[k] = h}

ASSUME BridgeAssumption ==
    /\ IsFiniteSet(Handles) /\ Lists \cap (Items \cup Kids) = {} /\ Items \cap Kids = {}
    /\ DOMAIN Folder = Lists /\ DOMAIN Parent = Kids /\ \A k \in Kids : Parent[k] \in Lists
    /\ None \notin Nat /\ MaxEvents \in Nat

VARIABLES
    (* the client *)
    opened,      \* what the client has done with each handle
    seeks,       \* seeks sent
    shown,       \* the record that the object of an item holds, None: no object yet
    (* messages *)
    wire,        \* to the bridge
    back,        \* to the client
    (* MailBridge and BridgeContext *)
    contexts,    \* handles in _namedContexts
    pending,     \* contexts with a pendingCommand
    queue,       \* their commandQueue
    (* TOCs *)
    tocs,        \* every instance ever made
    known,       \* _folderConvsTOCs
    using,       \* the instance that a context acquired, 0: none
    proxies,     \* views whose proxy listens to its TOC
    (* tracked items *)
    record,      \* the version in the database
    reads,       \* what a read has returned whose continuation has yet to run
    listeners,   \* items with a listener
    (* history *)
    applied,     \* the last seek that moved each view
    early,       \* a seek met a context without a proxy although its query had not failed
    missed,      \* items that changed between the read and the listener
    fails

clientVars == <<opened, seeks, shown>>
bridgeVars == <<contexts, pending, queue>>
tocVars    == <<tocs, known, using, proxies>>
itemVars   == <<record, reads, listeners>>
history    == <<applied, early, missed, fails>>
vars == <<clientVars, wire, back, bridgeVars, tocVars, itemVars, history>>

Versions == 0..MaxEvents
Command == [cmd : {"view", "seek", "cleanup"}, handle : Handles, n : 0..MaxEvents]
Message == [type : {"got", "updateItem", "contextCleanedUp"}, handle : Handles, state : Versions]
Toc == [promise : {"none", "pending", "rejected"}, valid : BOOLEAN, listens : BOOLEAN,
        consumers : SUBSET Lists]

TypeOK ==
    /\ opened \in [Handles -> {"no", "open", "released"}] /\ seeks \in 0..MaxEvents
    /\ shown \in [Items -> {None} \cup Versions]
    /\ wire \in Seq(Command) /\ back \in Seq(Message)
    /\ contexts \subseteq Handles /\ pending \subseteq contexts
    /\ queue \in [Handles -> Seq(Command)]
    /\ \A h \in Handles : queue[h] # << >> => h \in contexts
    /\ tocs \in Seq(Toc)
    /\ known \in [Folders -> 0..Len(tocs)] /\ using \in [Lists -> 0..Len(tocs)]
    /\ proxies \subseteq Views
    /\ record \in Versions /\ reads \in [Items -> {None} \cup Versions] /\ listeners \subseteq Items
    /\ applied \in [Views -> 0..MaxEvents] /\ early \in BOOLEAN /\ missed \subseteq Items
    /\ fails \in 0..MaxEvents

Init ==
    /\ opened = [h \in Handles |-> "no"] /\ seeks = 0 /\ shown = [h \in Items |-> None]
    /\ wire = << >> /\ back = << >>
    /\ contexts = {} /\ pending = {} /\ queue = [h \in Handles |-> << >>]
    /\ tocs = << >> /\ known = [f \in Folders |-> 0] /\ using = [h \in Lists |-> 0] /\ proxies = {}
    /\ record = 0 /\ reads = [h \in Items |-> None] /\ listeners = {}
    /\ applied = [h \in Views |-> 0] /\ early = FALSE /\ missed = {} /\ fails = 0

-----------------------------------------------------------------------------
(* The client. *)

\* Every event is paid from the same bound.
Event == Cardinality({h \in Handles \ Kids : opened[h] # "no"})
         + Cardinality({h \in Handles : opened[h] = "released"}) + seeks + record + fails < MaxEvents

Sends(cmd, h, n) == wire' = Append(wire, [cmd |-> cmd, handle |-> h, n |-> n])
ClientOnly == UNCHANGED <<back, bridgeVars, tocVars, itemVars, history>>

\* viewFolderConversations and its kind; a search names its derived views.
Opens(h) ==
    /\ h \notin Kids /\ opened[h] = "no" /\ Event
    /\ opened' = [x \in Handles |-> IF x \in {h} \cup KidsOf(h) THEN "open" ELSE opened[x]]
    /\ Sends("view", h, 0)
    /\ UNCHANGED <<seeks, shown>> /\ ClientOnly

Seeks(h) ==
    /\ opened[h] = "open" /\ Event
    /\ seeks' = seeks + 1
    /\ Sends("seek", h, seeks')
    /\ UNCHANGED <<opened, shown>> /\ ClientOnly

\* release of a view.  That of an item does not reach the bridge: its object is
\* made with the handle in another argument's place, and so has none to release.
Releases(h) ==
    /\ opened[h] = "open" /\ Event
    /\ opened' = [opened EXCEPT ![h] = "released"]
    /\ Sends("cleanup", h, 0)
    /\ UNCHANGED <<seeks, shown>> /\ ClientOnly

\* _recv_gotItemNowTrackingUpdates, _recv_updateItem, _recv_contextCleanedUp.
Hears ==
    /\ back # << >>
    /\ LET m == Head(back) IN
       shown' = IF m.type = "got" \/ (m.type = "updateItem" /\ shown[m.handle] # None)
                THEN [shown EXCEPT ![m.handle] = m.state] ELSE shown
    /\ back' = Tail(back)
    /\ UNCHANGED <<opened, seeks, wire, bridgeVars, tocVars, itemVars, history>>

-----------------------------------------------------------------------------
(* What commands do.  The state they work on is a record, so that the ones  *)
(* that waited for the same query can be carried out one after the other.   *)

State == [contexts |-> contexts, pending |-> pending, queue |-> queue, tocs |-> tocs, known |-> known,
          using |-> using, proxies |-> proxies, listeners |-> listeners, applied |-> applied,
          early |-> early, back |-> back]
Becomes(s) ==
    /\ contexts' = s.contexts /\ pending' = s.pending /\ queue' = s.queue
    /\ tocs' = s.tocs /\ known' = s.known /\ using' = s.using /\ proxies' = s.proxies
    /\ listeners' = s.listeners /\ applied' = s.applied /\ early' = s.early /\ back' = s.back

\* acquire...TOC: the one in the map, or a new one, which a search keeps out of it.
NewToc == [promise |-> "none", valid |-> FALSE, listens |-> FALSE, consumers |-> {}]
Instance(s, h) ==
    IF Folder[h] # None /\ s.known[Folder[h]] # 0 THEN s.known[Folder[h]] ELSE Len(s.tocs) + 1
WithInstance(s, h) ==
    LET i == Instance(s, h) IN
    [s EXCEPT !.tocs  = IF i > Len(s.tocs) THEN Append(@, NewToc) ELSE @,
              !.known = [f \in Folders |-> IF f = Folder[h] THEN i ELSE @[f]],
              !.using = [@ EXCEPT ![h] = i]]

\* __acquire: the first consumer activates what is not valid, the others wait
\* for it if it is under way.
Acquire(toc, h) ==
    [toc EXCEPT !.consumers = @ \cup {h},
                !.promise   = IF ~toc.valid /\ toc.consumers = {} THEN "pending" ELSE @]

\* A list view has its TOC: it gets its proxy.
Ready(toc) == toc.valid /\ toc.promise = "none"

\* _cmd_view...: the context, those of its derived views with their proxies, the
\* TOC; if there is no need to wait the proxy, and nothing is pending any more.
ViewList(s, h) ==
    LET t  == WithInstance([s EXCEPT !.contexts = @ \cup {h} \cup KidsOf(h),
                                     !.proxies  = @ \cup KidsOf(h)], h)
        i  == t.using[h]
        u  == [t EXCEPT !.tocs = [@ EXCEPT ![i] = Acquire(@, h)]]
    IN  CASE u.tocs[i].promise = "pending" -> [u EXCEPT !.pending = @ \cup {h}]
          [] Ready(u.tocs[i])              -> [u EXCEPT !.proxies = @ \cup {h}]
          [] OTHER                         -> u
TrackItem(s, h) == [s EXCEPT !.contexts = @ \cup {h}, !.pending = @ \cup {h}]

\* _cmd_seekProxy: throws unless there is a context with a proxy.
Seek(s, m) ==
    LET h == m.handle IN
    IF h \in s.proxies THEN [s EXCEPT !.applied = [@ EXCEPT ![h] = m.n]]
    ELSE [s EXCEPT !.early = @ \/ (h \in s.contexts /\ s.tocs[s.using[h]].promise # "rejected")]

\* __release: the last consumer deactivates the TOC.
Release(toc, h) ==
    [toc EXCEPT !.consumers = @ \ {h}, !.listens = @ /\ toc.consumers # {h}]

\* Mutant of Forget: the map keeps a TOC that has no consumers.
ForgetNever(s, i) == s.known

\* onForgotten: the map forgets a TOC that has no consumers.
Forget(s, i) == [f \in Folders |-> IF s.known[f] = i /\ s.tocs[i].consumers = {} THEN 0 ELSE s.known[f]]

\* cleanup of one context.
Drop(s, h) ==
    LET t == [s EXCEPT !.contexts = @ \ {h}, !.pending = @ \ {h}, !.proxies = @ \ {h},
                       !.listeners = @ \ {h}, !.queue = [@ EXCEPT ![h] = << >>]]
        i == IF h \in Lists THEN s.using[h] ELSE 0
    IN  IF i = 0 THEN t
        ELSE LET u == [t EXCEPT !.tocs = [@ EXCEPT ![i] = Release(@, h)], !.using = [@ EXCEPT ![h] = 0]]
             IN  [u EXCEPT !.known = Forget(u, i)]

\* cleanupNamedContext: with its derived views, and only if it is there.
Cleanup(s, h) ==
    LET t == IF h \in s.contexts
             THEN Drop(FoldSet(LAMBDA k, u : IF k \in u.contexts THEN Drop(u, k) ELSE u, s, KidsOf(h)), h)
             ELSE s
    IN  [t EXCEPT !.back = Append(@, [type |-> "contextCleanedUp", handle |-> h, state |-> 0])]

\* _processCommand.
Process(s, m) ==
    CASE m.cmd = "view" /\ m.handle \in Lists -> ViewList(s, m.handle)
      [] m.cmd = "view"                       -> TrackItem(s, m.handle)
      [] m.cmd = "seek"                       -> Seek(s, m)
      [] OTHER                                -> Cleanup(s, m.handle)

\* _commandCompletedProcessNextCommandInQueue: the next command is handled, and
\* since it does not wait for anything nothing is pending: those behind it stay.
Complete(s, h) ==
    LET t == [s EXCEPT !.pending = @ \ {h}] IN
    IF s.queue[h] = << >> THEN t
    ELSE Process([t EXCEPT !.queue = [@ EXCEPT ![h] = Tail(@)]], Head(s.queue[h]))

-----------------------------------------------------------------------------
(* The bridge. *)

\* Mutant of Receive: defers nothing.
ReceiveAtOnce ==
    /\ wire # << >>
    /\ Becomes(Process(State, Head(wire)))
    /\ wire' = Tail(wire)
    /\ UNCHANGED <<clientVars, record, reads, missed, fails>>

\* __receiveMessage.
Receive ==
    /\ wire # << >>
    /\ LET m == Head(wire) IN
       Becomes(IF m.handle \in pending
               THEN [State EXCEPT !.queue = [@ EXCEPT ![m.handle] = Append(@, m)]]
               ELSE Process(State, m))
    /\ wire' = Tail(wire)
    /\ UNCHANGED <<clientVars, record, reads, missed, fails>>

Waiting(i) == {h \in pending \cap Lists : using[h] = i}
CompleteAll(s, hs) == FoldSet(LAMBDA h, t : Complete(t, h), s, hs)

\* The query of a TOC has its answer: the TOC listens and is valid, and every
\* command that waits for it goes on to the end.
Activates(i) ==
    /\ i \in DOMAIN tocs /\ tocs[i].promise = "pending"
    /\ LET on == [tocs EXCEPT ![i] = [@ EXCEPT !.promise = "none", !.valid = TRUE, !.listens = TRUE]]
       IN  Becomes(CompleteAll([State EXCEPT !.tocs = on, !.proxies = @ \cup Waiting(i)], Waiting(i)))
    /\ UNCHANGED <<clientVars, wire, record, reads, missed, fails>>

\* The query fails, and so do the commands; the consumers stay what they are.
ActivationFails(i) ==
    /\ i \in DOMAIN tocs /\ tocs[i].promise = "pending"
    /\ Event /\ fails' = fails + 1
    /\ Becomes(CompleteAll([State EXCEPT !.tocs = [@ EXCEPT ![i] = [@ EXCEPT !.promise = "rejected"]]],
                           Waiting(i)))
    /\ UNCHANGED <<clientVars, wire, record, reads, missed>>

\* The record is found; the transaction ends, and the listener is there, later.
ItemRead(h) ==
    /\ h \in pending /\ reads[h] = None
    /\ reads' = [reads EXCEPT ![h] = record]
    /\ UNCHANGED <<clientVars, wire, back, bridgeVars, tocVars, record, listeners, history>>

ItemTracked(h) ==
    /\ reads[h] # None
    /\ reads' = [reads EXCEPT ![h] = None]
    /\ Becomes(Complete([State EXCEPT !.listeners = @ \cup {h},
                                      !.back = Append(@, [type |-> "got", handle |-> h, state |-> reads[h]])], h))
    /\ UNCHANGED <<clientVars, wire, record, missed, fails>>

\* A task changes the record: whoever listens passes it on.
Changes ==
    /\ Event
    /\ record' = record + 1
    /\ back' = back \o [i \in 1..Cardinality(listeners) |->
                            [type |-> "updateItem", handle |-> SetToSeq(listeners)[i], state |-> record']]
    /\ missed' = missed \cup {h \in Items : reads[h] # None}
    /\ UNCHANGED <<clientVars, wire, bridgeVars, tocVars, reads, listeners, applied, early, fails>>

-----------------------------------------------------------------------------
Next ==
    \/ \E h \in Handles : Opens(h)
    \/ \E h \in Views : Seeks(h) \/ Releases(h)
    \/ Hears \/ Receive
    \/ \E i \in DOMAIN tocs : Activates(i) \/ ActivationFails(i)
    \/ \E h \in Items : ItemRead(h) \/ ItemTracked(h)
    \/ Changes

Spec == Init /\ [][Next]_vars

-----------------------------------------------------------------------------
(* Properties. *)

\* A list view that is not waiting is served, unless its query failed: its
\* proxy listens to a TOC that is valid, listens and counts it, and all views
\* of a folder have the same one.  And nothing is served for nobody: the
\* consumers of a TOC are the contexts that use it, only a TOC with consumers
\* listens or is in the map, and only the proxies of contexts listen
\* (RefedResource, "reference-counted").
ViewsAreServed ==
    /\ TypeOK
    /\ \A h \in (contexts \cap Lists) \ pending :
        LET toc == tocs[using[h]] IN
        toc.promise # "rejected" =>
            /\ h \in proxies /\ toc.valid /\ toc.listens
            /\ Folder[h] # None => known[Folder[h]] = using[h]
    /\ \A i \in DOMAIN tocs :
        /\ tocs[i].consumers = {h \in Lists : using[h] = i}
        /\ tocs[i].consumers = {} => ~tocs[i].listens /\ \A f \in Folders : known[f] # i
    /\ \A h \in Lists : using[h] # 0 => h \in contexts
    /\ proxies \subseteq contexts
    /\ \A k \in Kids \cap contexts : Parent[k] \in contexts

\* "We should not process seek() commands for a list view until the command
\* creating the list view has been fully processed" (__receiveMessage): no seek
\* finds its view without a proxy, and those that move it do so in the order in
\* which they were sent.
SeeksMoveTheirView == [][~early' /\ \A h \in Views : applied'[h] >= applied[h]]_vars

\* What is to come comes: no message, query or read is under way.
AtRest == wire = << >> /\ back = << >> /\ pending \cap Items = {}
          /\ \A i \in DOMAIN tocs : tocs[i].promise # "pending"

\* When all that is under way has come, no command waits for another and what
\* the client has released is cleaned up, unless the command to do so was left
\* behind in its queue: handled by nobody, since nothing is pending.  And the
\* object of an item that is tracked holds the record as it is, whatever was
\* sent while it was read, queued or under way; unless it changed after the
\* read and before there was a listener ("potential short-lived race",
\* _cmd_getItemAndTrackUpdates).
Behind(h) == queue[h] # << >> /\ h \notin pending
RestIsTidy ==
    AtRest => /\ pending = {}
              /\ \A h \in contexts : opened[h] = "released" => Behind(h)
              /\ \A h \in Items \ missed : opened[h] = "open" /\ shown[h] # None => shown[h] = record

\* The bridge serves what is asked for and tidies up what is given back.
BridgeInStep == ViewsAreServed /\ RestIsTidy

=============================================================================
