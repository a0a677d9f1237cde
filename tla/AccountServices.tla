---------------------------- MODULE AccountServices ----------------------------
(***************************************************************************)
(* What an account does beside its syncs, in parts that do not share state *)
(* in the code: its life and its connections (Accounts), what is new in    *)
(* its inbox (NewTracking), its folders (FolderLists), its sync when what  *)
(* it shows is not mail (Feeds), and how it comes about: its servers       *)
(* (Autoconfig) and its credentials (Credentials).  A behaviour is one of  *)
(* one of them, and the variables of the others stay as they start.        *)
(***************************************************************************)
EXTENDS Accounts

CONSTANTS
    Mails, DateOf, MaxSyncs, MaxChanges, MaxClears, MaxCrashes,
    Boxes, InboxPath, InboxNames, OutboxPath, Virtual, Workers, Base, MaxFolders, MaxEvents,
    Kinds, Items, Slots, InRange, SizeOf, AuthoredOf, Page, Start, MaxDate, MaxTasks, MaxConvs,
    MaxEdits, MaxLookups, MaxTexts, Passwords, MaxMods, MaxTries, MaxWindows

ASSUME NewsAssumption == DateOf \in [Mails -> Nat]
ASSUME CredsAssumption == MaxMods \in Nat
ASSUME ServersAssumption == MaxLookups \in Nat

VARIABLES
    part,
    (* NewTracking *)
    mail, jobs, pendingDate, newByConv, flushTask, clearTask, group, alone, pendingTaskGroupId,
    told, arrived, untouched, lost, unseen, used,
    (* FolderLists *)
    kind, boxes, inboxName, stored, owner, named, foldersById, items, folderSortStrings, nextFolderNum,
    pendingByPath, planned, job, seen, issued, renamed, misfiled, events,
    (* Feeds *)
    feed, now, server, cursor, known, nextConvId, syncs, drev, convs, messages, missed, overtaken,
    sameSecond, edits,
    (* Autoconfig *)
    lookup, asking, request, value, posted, found, gave, overlapped, texts,
    (* Credentials *)
    stage, oauth, cred, saved, recent, attempt, asked, open, forced, apart, wanted,
    unheard, raced, mods, tries, windows

News    == INSTANCE NewTracking
Folders == INSTANCE FolderLists WITH listed <- seen, Nil <- None
Feed    == INSTANCE Feeds WITH tasks <- syncs, job <- drev, lost <- missed, Nil <- None
Servers == INSTANCE Autoconfig WITH group <- asking
Creds   == INSTANCE Credentials

newsVars == <<mail, jobs, pendingDate, newByConv, flushTask, clearTask, group, alone,
              pendingTaskGroupId, told, arrived, untouched, lost, unseen, used>>
folderListVars == <<kind, boxes, inboxName, stored, owner, named, foldersById, items,
                    folderSortStrings, nextFolderNum, pendingByPath, planned, job, seen, issued,
                    renamed, misfiled, events>>
feedVars == <<feed, now, server, cursor, known, nextConvId, syncs, drev, convs, messages, missed,
              overtaken, sameSecond, edits>>
lookupVars == <<lookup, asking, request, value, posted, found, gave, overlapped, texts>>
credVars == <<stage, oauth, cred, saved, recent, attempt, asked, open, forced, apart, wanted,
              unheard, raced, mods, tries, windows>>

\* The parts that a behaviour is not of.
NoAccount == Init /\ ~def /\ tasks = "done"
NoNews ==
    /\ mail = None /\ jobs = None /\ pendingDate = None /\ newByConv = None /\ flushTask = None
    /\ clearTask = None /\ group = None /\ alone = None /\ pendingTaskGroupId = None
    /\ told = None /\ arrived = None /\ untouched = None /\ lost = None /\ unseen = None
    /\ used = None
NoFolders ==
    /\ kind = None /\ boxes = None /\ inboxName = None /\ stored = None /\ owner = None
    /\ named = None /\ foldersById = None /\ items = None /\ folderSortStrings = None
    /\ nextFolderNum = None /\ pendingByPath = None /\ planned = None /\ job = None
    /\ seen = None /\ issued = None /\ renamed = None /\ misfiled = None /\ events = None
NoFeed ==
    /\ feed = None /\ now = None /\ server = None /\ cursor = None /\ known = None
    /\ nextConvId = None /\ syncs = None /\ drev = None /\ convs = None /\ messages = None
    /\ missed = None /\ overtaken = None /\ sameSecond = None /\ edits = None
NoServers ==
    /\ lookup = None /\ asking = None /\ request = None /\ value = None /\ posted = None
    /\ found = None /\ gave = None /\ overlapped = None /\ texts = None
NoCreds ==
    /\ stage = None /\ oauth = None /\ cred = None /\ saved = None /\ recent = None
    /\ attempt = None /\ asked = None /\ open = None /\ forced = None /\ apart = None
    /\ wanted = None /\ unheard = None /\ raced = None /\ mods = None /\ tries = None
    /\ windows = None

AnyInit ==
    \/ part = "life"    /\ Init /\ NoNews /\ NoFolders /\ NoFeed /\ NoServers /\ NoCreds
    \/ part = "news"    /\ News!NewInit /\ NoAccount /\ NoFolders /\ NoFeed /\ NoServers /\ NoCreds
    \/ part = "folders" /\ Folders!FolderInit /\ NoAccount /\ NoNews /\ NoFeed /\ NoServers /\ NoCreds
    \/ part = "feed"    /\ Feed!FeedInit /\ NoAccount /\ NoNews /\ NoFolders /\ NoServers /\ NoCreds
    \/ part = "servers" /\ Servers!LookupInit /\ NoAccount /\ NoNews /\ NoFolders /\ NoFeed /\ NoCreds
    \/ part = "creds"   /\ Creds!CredInit /\ NoAccount /\ NoNews /\ NoFolders /\ NoFeed /\ NoServers

AnyNext ==
    \/ /\ part = "life" /\ Next
       /\ UNCHANGED <<part, newsVars, folderListVars, feedVars, lookupVars, credVars>>
    \/ /\ part = "news" /\ News!NewNext
       /\ UNCHANGED <<part, vars, folderListVars, feedVars, lookupVars, credVars>>
    \/ /\ part = "folders" /\ Folders!FolderNext
       /\ UNCHANGED <<part, vars, newsVars, feedVars, lookupVars, credVars>>
    \/ /\ part = "feed" /\ Feed!FeedNext
       /\ UNCHANGED <<part, vars, newsVars, folderListVars, lookupVars, credVars>>
    \/ /\ part = "servers" /\ Servers!LookupNext
       /\ UNCHANGED <<part, vars, newsVars, folderListVars, feedVars, credVars>>
    \/ /\ part = "creds" /\ Creds!CredNext
       /\ UNCHANGED <<part, vars, newsVars, folderListVars, feedVars, lookupVars>>

anyVars == <<part, vars, newsVars, folderListVars, feedVars, lookupVars, credVars>>

\* The fairness of Accounts; without an account there is nothing it could be fair to.
AnySpec == AnyInit /\ [][AnyNext]_anyVars /\ Fairness

-----------------------------------------------------------------------------
(* Properties, beside those of Accounts. *)

\* What is tracked as new is what arrived and was not read since, and the user has
\* been told of it or will be; NewTracking says what is excepted.
NewsAreTrue == part = "news" => News!NewIsUnread /\ News!ToldIsTracked

\* The folders of an account are the mailboxes of its server and its own, in
\* order, and each has its own sync state; FolderLists says what is excepted.
FoldersInStep ==
    part = "folders" => Folders!FoldersAreBoxes /\ Folders!ListIsInOrder /\ Folders!SyncStateIsOwn

\* The revisions, bugs and events that the sync has passed are shown as they were when
\* they changed last; Feeds says what is excepted.
FeedInStep == part = "feed" => Feed!BehindTheCursor /\ Feed!KnownIsShown /\ Feed!MadeOfMessages

\* What is made of a server's answers, its folders or the items of its feed, is what the
\* server has.
ServerIsMirrored == FoldersInStep /\ FeedInStep

\* An address comes to the servers of the source that is preferred, and what waits for the
\* parser is served; Autoconfig says what is excepted.
ServersAreTrue == part = "servers" => Servers!LookupIsTrue

\* The credentials that are used are those that are saved and were asked for, a token is
\* renewed by force once in a while at most, and no connection is left open; Credentials
\* says what is excepted.
CredentialsInStep == part = "creds" => Creds!CredsInStep

=============================================================================
