------------------------------- MODULE Directory -------------------------------
(***************************************************************************)
(* The accounts and folders that the client knows (MailAPI.accounts,       *)
(* AccountsViewSlice, FoldersListView): what it asks for before the back   *)
(* end is there (_storedSends), the view of accounts and the view of       *)
(* folders that each account in it opens, accountsLoaded, the promises of  *)
(* accounts and folders that are still to come, and the folders that       *)
(* messages name.                                                          *)
(*                                                                         *)
(* A list as such is EntireList's; here an update is the items that it     *)
(* adds and removes, in order.  The first update of a view is sent when it *)
(* is opened, and with it all that is pending in other views; later        *)
(* changes wait for a timer (BatchManager).                                *)
(***************************************************************************)
EXTENDS Naturals, Sequences, FiniteSets, SequencesExt

CONSTANTS
    Owners,        \* accounts
    Dirs,          \* folders
    Of,            \* the account of each
    Later,         \* what is not there yet when the universe starts
    None,
    MaxActs        \* bound: what is added, removed, moved and asked for

Unit == Owners \cup Dirs      \* what a view shows: accounts, or the folders of one
AccountsView == None          \* the view of accounts; that of folders is named by its account
AllViews == {AccountsView} \cup Owners

VARIABLES
    (* the back end *)
    present,     \* accounts in the AccountsTOC and folders in their FoldersTOC
    hosted,      \* views with a proxy
    dirtyViews,  \* _pendingProxies
    owed,        \* _pendingChanges of each proxy
    within,      \* the folder that the message is in
    follows,     \* is the message tracked?
    (* messages *)
    upward,      \* to the bridge
    downward,    \* to the client
    (* the client *)
    helloed,     \* has the universe come up?
    _storedSends,
    items,       \* of each view
    complete,    \* views that have been filled
    loading,     \* accounts whose folders accountsLoaded waits for, None before it waits
    accountsLoaded,
    byAccount,   \* eventuallyGetAccountById: accounts that are waited for
    byFolder,    \* eventuallyGetFolderById, of each folder
    label,       \* what the message's label is on the client
    (* history *)
    gone,        \* what has been removed
    first,       \* what the first update of each view held
    ahead,       \* was the message told of before the folder it is in?
    acts

backVars   == <<present, hosted, dirtyViews, owed, within, follows>>
clientVars == <<helloed, _storedSends, items, complete, loading, accountsLoaded, byAccount, byFolder, label>>
directoryVars == <<backVars, upward, downward, clientVars, gone, first, ahead, acts>>

Step == [add : BOOLEAN, id : Unit]
Order == [cmd : {"view", "track"}, view : AllViews]
\* An update of a view, or what the tracked message is in.
News == [view : AllViews, steps : Seq(Step), dir : {None} \cup Dirs]

DirectoryTypeOK ==
    /\ present \subseteq Unit /\ hosted \subseteq AllViews
    /\ dirtyViews \in Seq(hosted) /\ owed \in [AllViews -> Seq(Step)]
    /\ within \in Dirs /\ follows \in BOOLEAN
    /\ upward \in Seq(Order) /\ downward \in Seq(News)
    /\ helloed \in BOOLEAN /\ _storedSends \in Seq(Order)
    /\ items \in [AllViews -> SUBSET Unit] /\ complete \subseteq AllViews
    /\ (loading = None \/ loading \subseteq Owners) /\ accountsLoaded \in BOOLEAN
    /\ byAccount \subseteq Owners
    /\ byFolder \in [Dirs -> {"no", "account", "folder", "found", "rejected"}]
    /\ label \in {"none", "asked", "hole"} \cup Dirs
    /\ gone \subseteq Unit /\ first \in [AllViews -> SUBSET Unit] /\ ahead \in BOOLEAN /\ acts \in 0..MaxActs

ToView(v) == [cmd |-> "view", view |-> v]

\* MailAPI: the accounts are the first thing it asks for.
DirectoryInit ==
    /\ present = Unit \ Later
    /\ hosted = {} /\ dirtyViews = << >> /\ owed = [v \in AllViews |-> << >>]
    /\ within \in present \cap Dirs /\ follows = FALSE
    /\ upward = << >> /\ downward = << >>
    /\ helloed = FALSE /\ _storedSends = <<ToView(AccountsView)>>
    /\ items = [v \in AllViews |-> {}] /\ complete = {}
    /\ loading = None /\ accountsLoaded = FALSE
    /\ byAccount = {} /\ byFolder = [d \in Dirs |-> "no"] /\ label = "none"
    /\ gone = {} /\ first = [v \in AllViews |-> {}] /\ ahead = FALSE /\ acts = 0

Act == acts < MaxActs /\ acts' = acts + 1

-----------------------------------------------------------------------------
(* The back end. *)

ViewOf(x) == IF x \in Owners THEN AccountsView ELSE Of[x]
MembersOf(v) == {x \in Unit : ViewOf(x) = v}

\* onAdd, onRemove: the proxy that shows it has something to tell.
Tells(step) ==
    LET v == ViewOf(step.id) IN
    IF v \in hosted
    THEN /\ owed' = [owed EXCEPT ![v] = Append(@, step)]
         /\ dirtyViews' = IF v \in Range(dirtyViews) THEN dirtyViews ELSE Append(dirtyViews, v)
    ELSE UNCHANGED <<owed, dirtyViews>>

\* An account is created and its folders are loaded, or a folder is found.
Appears(x) ==
    /\ Act /\ x \notin present \cup gone /\ (x \in Dirs => Of[x] \in present)
    /\ present' = present \cup {x}
    /\ Tells([add |-> TRUE, id |-> x])
    /\ UNCHANGED <<hosted, within, follows, upward, downward, clientVars, gone, first, ahead>>

\* An account is deleted: its folders go without a word (__removeAccountById).
\* A folder is deleted.
Disappears(x) ==
    /\ Act /\ x \in present \ {within, Of[within]}
    /\ LET all == {x} \cup IF x \in Owners THEN MembersOf(x) ELSE {} IN
       present' = present \ all /\ gone' = gone \cup all
    /\ Tells([add |-> FALSE, id |-> x])
    /\ UNCHANGED <<hosted, within, follows, upward, downward, clientVars, first, ahead>>

Update(v, steps) == [view |-> v, steps |-> steps, dir |-> None]
Told(d) == [view |-> Of[d], steps |-> << >>, dir |-> d]

\* _flushPending.
Flushed(views, debts) == [i \in DOMAIN views |-> Update(views[i], debts[views[i]])]
Settled == dirtyViews' = << >> /\ owed' = [v \in AllViews |-> << >>]

\* populateFromList: an immediate flush, of every proxy that is dirty.
Populate(v) ==
    LET members == SetToSeq(MembersOf(v) \cap present)
        debts   == [owed EXCEPT ![v] = [i \in DOMAIN members |-> [add |-> TRUE, id |-> members[i]]]]
    IN  downward' = downward \o Flushed(Append(dirtyViews, v), debts) /\ Settled

\* _cmd_viewAccounts, _cmd_viewFolders: of an account that is gone no folders can
\* be loaded.
View(v) ==
    /\ upward # << >> /\ Head(upward) = ToView(v)
    /\ IF v = AccountsView \/ v \in present
       THEN hosted' = hosted \cup {v} /\ Populate(v)
       ELSE UNCHANGED <<hosted, dirtyViews, owed, downward>>
    /\ upward' = Tail(upward)
    /\ UNCHANGED <<present, within, follows, clientVars, gone, first, ahead, acts>>

\* The client is yet to be told of the folder.
Ahead(d) == [add |-> TRUE, id |-> d] \in Range(owed[Of[d]])

\* _cmd_getItemAndTrackUpdates.
Track ==
    /\ upward # << >> /\ Head(upward).cmd = "track"
    /\ follows' = TRUE
    /\ downward' = Append(downward, Told(within)) /\ ahead' = (ahead \/ Ahead(within))
    /\ upward' = Tail(upward)
    /\ UNCHANGED <<present, hosted, dirtyViews, owed, within, clientVars, gone, first, acts>>

\* The timer of the BatchManager, or the database's cacheDrop.
Flush ==
    /\ dirtyViews # << >>
    /\ downward' = downward \o Flushed(dirtyViews, owed)
    /\ Settled
    /\ UNCHANGED <<present, hosted, within, follows, upward, clientVars, gone, first, ahead, acts>>

\* The message moves, and who tracks it is told at once.
Moves(d) ==
    /\ Act /\ d \in (present \cap Dirs) \ {within} /\ Of[d] = Of[within]
    /\ within' = d
    /\ downward' = IF follows THEN Append(downward, Told(d)) ELSE downward
    /\ ahead' = (ahead \/ (follows /\ Ahead(d)))
    /\ UNCHANGED <<present, hosted, dirtyViews, owed, follows, upward, clientVars, gone, first>>

-----------------------------------------------------------------------------
(* The client. *)

\* __bridgeSend: until the universe is up it only keeps what is sent.
Sends(orders) ==
    IF helloed THEN upward' = upward \o orders /\ UNCHANGED _storedSends
    ELSE _storedSends' = _storedSends \o orders /\ UNCHANGED upward

\* hello (main-frame-setup, __universeAvailable).
Hello ==
    /\ ~helloed
    /\ helloed' = TRUE
    /\ upward' = upward \o _storedSends /\ _storedSends' = << >>
    /\ UNCHANGED <<backVars, downward, items, complete, loading, accountsLoaded, byAccount, byFolder, label,
                   gone, first, ahead, acts>>

\* _getItemAndTrackUpdates, once the account of the message is there.
IsAsked(a)  == a = Of[within] /\ label = "none"
Tracking(a) == IF IsAsked(a) THEN <<[cmd |-> "track", view |-> a]>> ELSE << >>
Tracked(a)  == IF IsAsked(a) THEN "asked" ELSE label

\* eventuallyGetAccountById, and getMessage, which waits for the account first.
AsksAccount(a) ==
    /\ Act /\ a \notin byAccount
    /\ IF a \in items[AccountsView]
       THEN UNCHANGED byAccount /\ Sends(Tracking(a)) /\ label' = Tracked(a)
       ELSE byAccount' = byAccount \cup {a} /\ UNCHANGED <<upward, _storedSends, label>>
    /\ UNCHANGED <<backVars, downward, helloed, items, complete, loading, accountsLoaded, byFolder,
                   gone, first, ahead>>

\* Mutant of InView: waits for a completion that may be over.
InViewWaits(d, known, filled) == IF d \in known THEN "found" ELSE "folder"

\* The part of eventuallyGetFolderById that its account is waited for with.
InView(d, known, filled) ==
    CASE d \in known      -> "found"
      [] Of[d] \in filled -> "rejected"
      [] OTHER            -> "folder"

AsksFolder(d) ==
    /\ Act /\ byFolder[d] = "no"
    /\ byFolder' = [byFolder EXCEPT ![d] = IF Of[d] \in items[AccountsView]
                                           THEN InView(d, items[Of[d]], complete) ELSE "account"]
    /\ UNCHANGED <<backVars, upward, downward, helloed, _storedSends, items, complete, loading, accountsLoaded,
                   byAccount, label, gone, first, ahead>>

\* The items after an update.
After(set, steps) ==
    FoldLeft(LAMBDA s, step : IF step.add THEN s \cup {step.id} ELSE s \ {step.id}, set, steps)
Added(steps) == {steps[i].id : i \in {j \in DOMAIN steps : steps[j].add}}

\* accountsLoaded, when it waits for these.
Loads(left) == loading' = left /\ accountsLoaded' = (left = {})

\* An update of the accounts: a new one opens the view of its folders, whoever
\* waits for it goes on, and the first time the folders of all are waited for.
HearsAccounts(steps) ==
    LET new == Added(steps)
        its == After(items[AccountsView], steps)
        go  == byAccount \cap new
        views  == SetToSeq(new)
    IN  /\ items' = [items EXCEPT ![AccountsView] = its]
        /\ complete' = complete \cup {AccountsView}
        /\ byAccount' = byAccount \ new
        /\ byFolder' = [d \in Dirs |-> IF byFolder[d] = "account" /\ Of[d] \in new THEN "folder" ELSE byFolder[d]]
        /\ Sends([i \in DOMAIN views |-> ToView(views[i])]
                 \o IF Of[within] \in go THEN Tracking(Of[within]) ELSE << >>)
        /\ label' = IF Of[within] \in go THEN Tracked(Of[within]) ELSE label
        /\ IF AccountsView \in complete THEN UNCHANGED <<loading, accountsLoaded>> ELSE Loads(its)
        /\ first' = IF AccountsView \in complete THEN first ELSE [first EXCEPT ![AccountsView] = its]

\* An update of the folders of an account.
HearsFolders(a, steps) ==
    LET its == After(items[a], steps) IN
    /\ items' = [items EXCEPT ![a] = its]
    /\ complete' = complete \cup {a}
    /\ byFolder' = [d \in Dirs |-> IF byFolder[d] = "folder" /\ Of[d] = a
                                   THEN IF d \in Added(steps) THEN "found" ELSE "rejected"
                                   ELSE byFolder[d]]
    /\ IF loading # None /\ a \in loading THEN Loads(loading \ {a}) ELSE UNCHANGED <<loading, accountsLoaded>>
    /\ first' = IF a \in complete THEN first ELSE [first EXCEPT ![a] = its]
    /\ UNCHANGED <<byAccount, label, upward, _storedSends>>

\* The message, or a change of it: its folder is looked up (_mapLabels), which
\* throws if there is no account to look in.
HearsMessage(d) ==
    /\ label' = IF Of[d] \notin items[AccountsView] THEN label
                ELSE IF d \in items[Of[d]] THEN d ELSE "hole"
    /\ UNCHANGED <<items, complete, byAccount, byFolder, loading, accountsLoaded, first, upward, _storedSends>>

Hears ==
    /\ downward # << >>
    /\ LET m == Head(downward) IN
       CASE m.dir # None           -> HearsMessage(m.dir)
         [] m.view = AccountsView  -> HearsAccounts(m.steps)
         [] OTHER                  -> HearsFolders(m.view, m.steps)
    /\ downward' = Tail(downward)
    /\ UNCHANGED <<backVars, helloed, gone, ahead, acts>>

DirectoryNext ==
    \/ \E x \in Unit : Appears(x) \/ Disappears(x)
    \/ \E v \in AllViews : View(v)
    \/ Track \/ Flush \/ Hello \/ Hears
    \/ \E d \in Dirs : Moves(d) \/ AsksFolder(d)
    \/ \E a \in Owners : AsksAccount(a)

-----------------------------------------------------------------------------
(* Properties. *)

Quiet == helloed /\ upward = << >> /\ downward = << >> /\ dirtyViews = << >>

\* "Has the MailUniverse finished loading its list of accounts and their folders
\* and told us about them": then each account of the first update has had its
\* folders; and when nothing is under way it is so, unless one of these accounts
\* was deleted before its folders were asked for.
LoadedMeansComplete ==
    /\ accountsLoaded => first[AccountsView] \subseteq complete
    /\ Quiet => accountsLoaded \/ \E a \in first[AccountsView] : a \in gone \ hosted

\* Promises: one of an account is kept if the account is there, that of a folder
\* is kept if it is there when its account's folders are, and broken otherwise;
\* none is left open for what is there, however the question, the updates and
\* the changes behind them are ordered.
PromisesAreKept ==
    /\ Quiet => byAccount \cap present = {}
    /\ \A d \in Dirs :
        /\ byFolder[d] = "found" => d \in present \cup gone
        /\ byFolder[d] = "rejected" => Of[d] \in complete
        /\ byFolder[d] = "folder" => Of[d] \in items[AccountsView] \cup gone /\ Of[d] \notin complete
        /\ Quiet /\ byFolder[d] \in {"account", "folder"} => Of[d] \notin present

\* A message of the client has the folder it is in; unless the folder is so new
\* that it was told of after the message was, and then the hole stays until the
\* message changes again.
LabelIsKnown ==
    /\ label = "hole" => ahead \/ gone \cap Dirs # {}
    /\ Quiet /\ label # "none" => label \in {within, "hole"}

DirectoryInStep == DirectoryTypeOK /\ LoadedMeansComplete /\ PromisesAreKept /\ LabelIsKnown
=============================================================================
