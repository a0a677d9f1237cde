------------------------------ MODULE Accounts ------------------------------
(***************************************************************************)
(* The life of one IMAP account: AccountManager (universe/                 *)
(* account_manager.js) hears of it at boot or when it is created, loads    *)
(* its tasks and folders, announces it to the accounts TOC, makes the      *)
(* account instance when a task first asks for it, and takes everything    *)
(* down when the account is deleted, whatever is under way at that time.   *)
(* The instance owns the connections of module Conn.  A second account,    *)
(* "other", is listed all along.                                           *)
(*                                                                         *)
(* prereqify keeps the promise of a load; the loads of folders and of      *)
(* instances are forgotten once they succeed, never once they fail.        *)
(***************************************************************************)
EXTENDS Conn

VARIABLES
    def,        \* _immediateAccountDefsById has the account
    added,      \* Promise.all of _accountAdded: "no", "waiting", "done", "failed"
    tasks,      \* _taskTypeLoads: "no", "loading", "done"
    folderLoad, \* _accountFoldersTOCLoads: "none", "loading", "rejected"
    reading,    \* loadFoldersByAccount calls under way
    toc,        \* accountFoldersTOCs: which FoldersTOC, 0 for none
    made,       \* FoldersTOCs made so far
    load,       \* _accountLoads: "none", "folders", "module", "rejected"
    instance,   \* accounts: the FoldersTOC of the instance, 0 for none
    stash,      \* _stashedConnectionsByAccountId has a connection
    cleanup,    \* doAccountCleanup waits for the load
    listed,     \* accountsTOC, in order
    early,      \* history: deleted unannounced, or with its folders being read
    late        \* history: shut down with a connection attempt under way

managerVars == <<def, added, tasks, folderLoad, reading, toc, made, load,
                 instance, stash, cleanup, listed, early, late>>
vars == <<connVars, managerVars>>

TypeOK ==
    /\ ConnTypeOK
    /\ def \in BOOLEAN /\ stash \in BOOLEAN /\ cleanup \in BOOLEAN
    /\ early \in BOOLEAN /\ late \in BOOLEAN
    /\ added \in {"no", "waiting", "done", "failed"}
    /\ tasks \in {"no", "loading", "done"}
    /\ folderLoad \in {"none", "loading", "rejected"}
    /\ reading \in Nat /\ made \in Nat
    /\ toc \in 0..made /\ instance \in 0..made
    /\ load \in {"none", "folders", "module", "rejected"}
    /\ listed \in Seq({"it", "other"})

-----------------------------------------------------------------------------
(* Loads. *)

\* _ensureAccountFoldersTOC: starts a read unless one is under way or failed.
EnsureFolders ==
    IF folderLoad = "none" THEN folderLoad' = "loading" /\ reading' = reading + 1
                           ELSE UNCHANGED <<folderLoad, reading>>

\* _ensureAccount, when no instance is at hand.
EnsureAccount ==
    IF load # "none" THEN UNCHANGED <<load, folderLoad, reading>>
    ELSE /\ EnsureFolders
         /\ load' = IF folderLoad = "rejected" THEN "rejected" ELSE "folders"

\* _accountAdded, at boot or from the event of account_create.
AccountAdded ==
    /\ def' = TRUE /\ added' = "waiting"
    /\ tasks' = IF tasks = "no" THEN "loading" ELSE tasks
    /\ EnsureFolders

Create ==
    /\ ~def /\ added = "no"
    /\ stash' \in BOOLEAN
    /\ AccountAdded
    /\ UNCHANGED <<connVars, toc, made, load, instance, cleanup, listed, early, late>>

TasksLoaded ==
    /\ tasks = "loading" /\ tasks' = "done"
    /\ UNCHANGED <<connVars, def, added, folderLoad, reading, toc, made, load,
                   instance, stash, cleanup, listed, early, late>>

\* A task that waits for the load hears that it failed.
LetDown == [c \in Callers |-> IF callers[c] = "acquiring" THEN "idle" ELSE callers[c]]

\* The folders are read.  FoldersTOC needs the account's definition.
FoldersLoaded ==
    /\ reading > 0 /\ reading' = reading - 1
    /\ \/ /\ def
          /\ made' = made + 1 /\ toc' = made' /\ folderLoad' = "none"
          /\ load' = IF load = "folders" THEN "module" ELSE load
          /\ UNCHANGED <<added, callers>>
       \/ /\ ~def
          /\ folderLoad' = IF folderLoad = "loading" THEN "rejected" ELSE folderLoad
          /\ load' = IF load = "folders" THEN "rejected" ELSE load
          /\ added' = IF added = "waiting" /\ toc = 0 /\ made = 0 THEN "failed" ELSE added
          /\ callers' = IF load = "folders" THEN LetDown ELSE callers
          /\ UNCHANGED <<made, toc>>
    /\ UNCHANGED <<pool, def, tasks, instance, stash, cleanup, listed, early, late>>

\* Both loads of _accountAdded are done: with a connection at hand the account
\* is made at once; it is listed wherever its name belongs.
Announce ==
    /\ added = "waiting" /\ tasks = "done" /\ made > 0
    /\ added' = "done"
    /\ \E k \in 1..Len(listed) + 1 : listed' = InsertAt(listed, k, "it")
    /\ IF stash THEN EnsureAccount ELSE UNCHANGED <<load, folderLoad, reading>>
    /\ UNCHANGED <<connVars, def, tasks, toc, made, instance, stash, cleanup, early, late>>

\* acquireAccount, by a task that was scheduled once the account was there.
Acquire(c) ==
    /\ callers[c] = "idle" /\ added = "done"
    /\ IF instance # 0
       THEN callers' = [callers EXCEPT ![c] = "holding"] /\ UNCHANGED <<load, folderLoad, reading>>
       ELSE /\ EnsureAccount
            /\ callers' = [callers EXCEPT ![c] = IF load' = "rejected" THEN "idle" ELSE "acquiring"]
    /\ UNCHANGED <<pool, def, added, tasks, toc, made, instance, stash, cleanup,
                   listed, early, late>>

\* acquireAccountFoldersTOC, for a folder view of a listed account.
ViewFolders ==
    /\ "it" \in Range(listed) /\ toc = 0
    /\ EnsureFolders
    /\ UNCHANGED <<connVars, def, added, tasks, toc, made, load, instance, stash,
                   cleanup, listed, early, late>>

\* The module is there: the instance is made; if the account was deleted in the
\* meantime it is shut down at once, and whoever waits gets it all the same.
AccountLoaded ==
    /\ load = "module" /\ load' = "none"
    /\ instance' = IF cleanup THEN 0 ELSE made
    /\ pool' = IF cleanup THEN Shutdown(NewPool(stash)) ELSE NewPool(stash)
    /\ callers' = [c \in Callers |->
                     IF callers[c] = "acquiring" THEN "holding" ELSE callers[c]]
    /\ stash' = FALSE /\ cleanup' = FALSE
    /\ UNCHANGED <<def, added, tasks, folderLoad, reading, toc, made, listed,
                   early, late>>

-----------------------------------------------------------------------------
(* Deletion. *)

\* __removeAccountById splices at -1, which is the last, if it is not listed.
Unlisted ==
    RemoveAt(listed, IF "it" \in Range(listed)
                     THEN CHOOSE k \in DOMAIN listed : listed[k] = "it"
                     ELSE Len(listed))

\* doAccountCleanup, now or once the load is done (a failed one never calls it).
RemoveInstance ==
    IF instance # 0
    THEN /\ instance' = 0 /\ load' = "none" /\ pool' = Shutdown(pool)
         /\ late' = (UnderWay > 0)
         /\ UNCHANGED cleanup
    ELSE /\ cleanup' = (load \in {"folders", "module"})
         /\ UNCHANGED <<instance, pool, load, late>>

\* doFolderCleanup.  If the folders are still loading it is never called: a Map
\* has no method then, and the emitter swallows the error.
RemoveFolders ==
    IF toc # 0 THEN toc' = 0 /\ folderLoad' = "none" /\ listed' = Unlisted
               ELSE UNCHANGED <<toc, folderLoad, listed>>

AccountRemoved ==
    /\ def /\ def' = FALSE
    /\ early' = ("it" \notin Range(listed) \/ reading > 0)
    /\ RemoveInstance /\ RemoveFolders
    /\ UNCHANGED <<callers, added, tasks, reading, made, stash>>

-----------------------------------------------------------------------------

\* The account is known at boot, or will be created.
Init ==
    /\ pool = NewPool(FALSE) /\ callers = [c \in Callers |-> "idle"]
    /\ \E known \in BOOLEAN :
         /\ def = known
         /\ added = IF known THEN "waiting" ELSE "no"
         /\ folderLoad = IF known THEN "loading" ELSE "none"
         /\ reading = IF known THEN 1 ELSE 0
         /\ tasks \in IF known THEN {"loading"} ELSE {"no", "done"}
    /\ toc = 0 /\ made = 0 /\ load = "none" /\ instance = 0
    /\ stash = FALSE /\ cleanup = FALSE /\ listed = <<"other">>
    /\ early = FALSE /\ late = FALSE

Loads == TasksLoaded \/ FoldersLoaded \/ Announce \/ AccountLoaded

Next ==
    \/ Create \/ Loads \/ ViewFolders \/ AccountRemoved
    \/ \E c \in Callers : Acquire(c)
    \/ ConnNext /\ UNCHANGED managerVars

Spec == Init /\ [][Next]_vars

\* Loads and connection attempts come to an end, timers fire, and a connection
\* that was told to close closes.
Fairness ==
    /\ WF_vars(Loads)
    /\ WF_vars(TimerFires /\ UNCHANGED managerVars)
    /\ WF_vars((AttemptSucceeds \/ AttemptFails) /\ UNCHANGED managerVars)
    /\ \A id \in Conns : WF_vars(/\ \E i \in DOMAIN pool.owned :
                                      /\ pool.owned[i].id = id /\ id \in pool.closing
                                      /\ Closes(i)
                                 /\ UNCHANGED managerVars)

FairSpec == Spec /\ Fairness

-----------------------------------------------------------------------------
(* Properties. *)

Asked == {c \in Callers : callers[c] = "waiting"}

PoolInStep ==
    /\ \A i \in DOMAIN pool.owned :
         pool.owned[i].inUseBy # None <=> pool.conn = pool.owned[i].id
    /\ pool.conn # None => \E i \in DOMAIN pool.owned : pool.owned[i].id = pool.conn
    /\ Len(pool.demands) = IF pool.promise = "waiting" THEN 1 ELSE 0
    /\ Asked # {} => pool.demands # << >>
    /\ UnderWay <= 1 /\ (UnderWay = 1 => pool.pending)

LoadsAtRest ==
    /\ reading = 0 /\ tasks # "loading" /\ load \notin {"folders", "module"}
    /\ ~(added = "waiting" /\ tasks = "done" /\ made > 0)

RemovedIsGone ==
    /\ instance # 0 => def /\ instance = toc
    /\ ~def /\ added # "no" /\ LoadsAtRest /\ UnderWay = 0 /\ pool.closing = {} =>
         /\ instance = 0 /\ toc = 0
         /\ ~early => listed = <<"other">> /\ ~stash
         /\ ~late => pool.owned = << >>

\* The client's view of its connection and the pool's agree, through every
\* death of a connection: one connection in use at most, and it is the client's;
\* a demand waits exactly while the client does, and whoever waits has one; one
\* attempt at a time, and the pool knows of it.  The account instance works with
\* the folders everyone else finds; and once a deleted account has come to rest
\* nothing of it is left, and the other one is still there.  Excepted are an
\* account deleted before it was announced or while its folders are read, and a
\* connection that was on its way at the shutdown.  (With the type invariant.)
AccountInStep == TypeOK /\ PoolInStep /\ RemovedIsGone

\* No more is tried until the process is restarted: the endpoint has no retries
\* left, takes the server for broken or is shut down, or a credentials error left
\* the pool waiting for an attempt that nobody makes.
GaveUp ==
    /\ UnderWay = 0
    /\ pool.state \in {"broken", "shutdown"} \/ pool.next >= Retries \/ pool.pending

\* A task that asked for a connection gets one, unless the endpoint gave up.
Answered == \A c \in Callers : callers[c] = "waiting" ~> (callers[c] # "waiting" \/ GaveUp)

=============================================================================
