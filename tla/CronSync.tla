------------------------------ MODULE CronSync ------------------------------
(***************************************************************************)
(* Periodic sync: CronSyncSupport in the worker, cronsync-main in the      *)
(* document, the alarms of the system between them, and the wake lock that *)
(* each alarm hands to the worker (SmartWakeLock over wakelocks-main).     *)
(*                                                                         *)
(* An action is one turn of the worker or of the document.  The two talk   *)
(* over two FIFO channels.  The task manager is here what cron sync sees   *)
(* of it: tasks that end in any order, syncs that wait for the network,    *)
(* and taskQueueEmpty when the last one that can run has ended.            *)
(***************************************************************************)
EXTENDS Naturals, Sequences, FiniteSets

CONSTANTS
    Accounts,
    Intervals,    \* the sync intervals in use, without 0 ("manual")
    IntervalOf,   \* accountDef.syncInterval
    Other,        \* any task that is not a sync: new_tracking, outbox, ...
    NoLock,
    MaxAlarms,    \* bound: alarms that fire, one wake lock each
    MaxFaults     \* bound: failed requests, time-outs, changes of accounts, syncs that
                  \* meet no network, ends of the process

Locks == 1..MaxAlarms
Alarm == [interval : Intervals, accounts : SUBSET Accounts]
NoRequest == [stage |-> "none", left |-> {}]

ASSUME CronSyncAssumption ==
    /\ IsFiniteSet(Accounts)
    /\ Intervals # {}
    /\ IntervalOf \in [Accounts -> Intervals]
    /\ Other \notin Accounts
    /\ NoLock \notin Nat
    /\ {MaxAlarms, MaxFaults} \subseteq Nat

VARIABLES
    (* the system and the document *)
    alarms,     \* mozAlarms
    fetching,   \* fired, waiting for Notification.get
    firedAs,    \* the data of the alarm that a lock was taken for
    held,       \* wakelocks-main's locks
    nextLock,   \* its nextId
    request,    \* ensureSync's mozAlarms requests: none, getAll, adding
    routeReady, \* _routeReady
    (* the channels; toWorker includes _routeQueue *)
    toMain, toWorker,
    (* the worker *)
    phase,      \* off, starting, up (systemReady was called)
    accounts,   \* accounts that have a definition
    promise,    \* _ensureSyncPromise is set
    armed,      \* SmartWakeLocks that still hold their lock and count down
    active,     \* _activeWakeLock
    listening,  \* listeners for taskQueueEmpty
    waiting,    \* completions that wait for the promise
    syncing,    \* _activelyCronSyncingAccounts
    work,       \* tasks that the task manager can still run
    blocked,    \* syncs that wait for the network
    result,     \* the conclusion in each alarm's log entry
    told,       \* the last broadcast: none, complete, fail
    (* history *)
    asked,      \* what the last ensureSync asked for
    young,      \* alarms added for the ensureSync under way
    failed,     \* alarms that could not be added for it
    missed,     \* alarms that fired after it had looked and before it ended
    starved,    \* locks taken with nothing left to run
    faults

mainVars == <<alarms, fetching, firedAs, held, nextLock, request, routeReady>>
channels == <<toMain, toWorker>>
locking  == <<armed, active, listening, waiting, result, told>>
tasks    == <<syncing, work, blocked>>
seen     == <<asked, young, failed, missed, starved>>
vars == <<mainVars, channels, phase, accounts, promise, locking, tasks, seen, faults>>

Hello         == [type |-> "hello", data |-> {}, lock |-> NoLock]
EnsureSync(d) == [type |-> "ensureSync", data |-> d, lock |-> NoLock]
Unlock(l)     == [type |-> "unlock", data |-> {}, lock |-> l]

AlarmMsg(l)   == [type |-> "alarm", lock |-> l]
SyncEnsured   == [type |-> "syncEnsured", lock |-> NoLock]

ToMain   == {Hello} \cup {EnsureSync(d) : d \in SUBSET Alarm} \cup {Unlock(l) : l \in Locks}
ToWorker == {AlarmMsg(l) : l \in Locks} \cup {SyncEnsured}

Results == {"unborn", "open", "superseded", "ignored", "left open", "success"}

TypeOK ==
    /\ alarms \in SUBSET Alarm
    /\ fetching \in SUBSET Locks
    /\ firedAs \in [Locks -> Alarm]
    /\ held \in SUBSET Locks
    /\ nextLock \in 1..(MaxAlarms + 1)
    /\ request \in [stage : {"none", "getAll", "adding"}, left : SUBSET Alarm]
    /\ routeReady \in BOOLEAN
    /\ toMain \in Seq(ToMain) /\ toWorker \in Seq(ToWorker)
    /\ phase \in {"off", "starting", "up"}
    /\ accounts \in SUBSET Accounts
    /\ promise \in BOOLEAN
    /\ armed \in SUBSET Locks
    /\ active \in Locks \cup {NoLock}
    /\ listening \in Nat
    /\ waiting \in Seq(Locks)
    /\ syncing \in SUBSET Accounts
    /\ work \in SUBSET (Accounts \cup {Other})
    /\ blocked \in SUBSET Accounts
    /\ result \in [Locks -> Results]
    /\ told \in {"none", "complete", "fail"}
    /\ asked \in SUBSET Alarm /\ young \in SUBSET Alarm
    /\ failed \in SUBSET Alarm /\ missed \in SUBSET Alarm
    /\ starved \in SUBSET Locks
    /\ faults \in 0..MaxFaults

-----------------------------------------------------------------------------
(* Helpers. *)

Fault == faults < MaxFaults /\ faults' = faults + 1

\* syncData: the accounts of each interval.  (An account at interval 0 is not
\* in Accounts: it is listed, and then skipped.)
SyncData(accts) ==
    {x \in Alarm : x.accounts # {} /\
                   x.accounts = {a \in accts : IntervalOf[a] = x.interval}}

\* SmartWakeLock.unlock: one that has already timed out has nothing left to
\* give back.
Unlocks(l) == IF l \in armed THEN <<Unlock(l)>> ELSE << >>

\* The same for each lock of a sequence, in its order; at[k] is the place of the
\* k-th that still holds its lock.
UnlockAll(ls) ==
    \E n \in 0..Len(ls) : \E at \in [1..n -> DOMAIN ls] :
        /\ {at[k] : k \in 1..n} = {i \in DOMAIN ls : ls[i] \in armed}
        /\ \A j, k \in 1..n : j < k => at[j] < at[k]
        /\ toMain' = toMain \o [k \in 1..n |-> Unlock(ls[at[k]])]

Disarm(ls) == armed' = armed \ {ls[i] : i \in DOMAIN ls}

Conclude(ls, how) == result' = [l \in Locks |->
    IF \E i \in DOMAIN ls : ls[i] = l THEN how ELSE result[l]]

-----------------------------------------------------------------------------
(* The process. *)

Init ==
    /\ alarms = {} /\ fetching = {} /\ held = {} /\ nextLock = 1
    /\ firedAs \in [Locks -> {[interval |-> CHOOSE i \in Intervals : TRUE, accounts |-> {}]}]
    /\ request = NoRequest /\ routeReady = FALSE
    /\ toMain = << >> /\ toWorker = << >>
    /\ phase = "off" /\ accounts = Accounts /\ promise = FALSE
    /\ armed = {} /\ active = NoLock /\ listening = 0 /\ waiting = << >>
    /\ syncing = {} /\ work = {} /\ blocked = {}
    /\ result = [l \in Locks |-> "unborn"] /\ told = "none"
    /\ asked = {} /\ young = {} /\ failed = {} /\ missed = {} /\ starved = {}
    /\ faults = 0

\* A universe comes up: ensureSync('universe-init') as soon as the account
\* definitions are there.  The task manager restores what it has.
ComesUp ==
    /\ phase = "off"
    /\ phase' = "starting"
    /\ promise' = TRUE
    /\ toMain' = <<EnsureSync(SyncData(accounts))>>
    /\ asked' = SyncData(accounts) /\ failed' = {} /\ missed' = {}
    /\ work' = {Other}

Boot ==
    /\ ComesUp
    /\ UNCHANGED <<mainVars, toWorker, accounts, locking, syncing, blocked, young,
                   starved, faults>>

SystemReady ==
    /\ phase = "starting"
    /\ phase' = "up"
    /\ toMain' = Append(toMain, Hello)
    /\ UNCHANGED <<mainVars, toWorker, accounts, promise, locking, tasks, seen, faults>>

\* The process is closed or killed, and its locks with it.  The alarms stay.
Close ==
    /\ phase # "off" /\ Fault
    /\ phase' = "off"
    /\ fetching' = {} /\ held' = {} /\ request' = NoRequest /\ routeReady' = FALSE
    /\ toMain' = << >> /\ toWorker' = << >>
    /\ promise' = FALSE
    /\ armed' = {} /\ active' = NoLock /\ listening' = 0 /\ waiting' = << >>
    /\ syncing' = {} /\ work' = {} /\ blocked' = {}
    /\ result' = [l \in Locks |-> "unborn"] /\ told' = "none"
    /\ young' = {} /\ starved' = {}
    /\ UNCHANGED <<alarms, firedAs, nextLock, accounts, asked, failed, missed>>

\* Accounts come and go.  Nobody calls ensureSync for that.
AccountsChange ==
    /\ Fault
    /\ \E a \in Accounts :
        accounts' = IF a \in accounts THEN accounts \ {a} ELSE accounts \cup {a}
    /\ UNCHANGED <<mainVars, channels, phase, promise, locking, tasks, seen>>

-----------------------------------------------------------------------------
(* The document. *)

\* An alarm goes off: the system starts the process if need be and gives the
\* alarm away; the handler takes a lock.  An alarm that this ensureSync has
\* added does not go off before it has ended, as ensureSync assumes.
AlarmFires(x) ==
    /\ x \in alarms \ young
    /\ nextLock <= MaxAlarms
    /\ alarms' = alarms \ {x}
    /\ nextLock' = nextLock + 1
    /\ firedAs' = [firedAs EXCEPT ![nextLock] = x]
    /\ held' = held \cup {nextLock}
    /\ fetching' = fetching \cup {nextLock}
    /\ \/ /\ ComesUp
          /\ UNCHANGED <<syncing, blocked, young, starved>>
       \/ /\ phase # "off"
          /\ UNCHANGED <<phase, promise, toMain, tasks, seen>>
    /\ UNCHANGED <<request, routeReady, toWorker, accounts, locking, faults>>

\* Notification.get has answered.
AlarmDispatch(l) ==
    /\ l \in fetching
    /\ fetching' = fetching \ {l}
    /\ toWorker' = Append(toWorker, AlarmMsg(l))
    /\ UNCHANGED <<alarms, firedAs, held, nextLock, request, routeReady, toMain,
                   phase, accounts, promise, locking, tasks, seen, faults>>

\* The messages of the worker.
MainReceives ==
    /\ toMain # << >>
    /\ LET m == Head(toMain) IN
        /\ routeReady' = (routeReady \/ m.type = "hello")
        /\ request' = IF m.type = "ensureSync"
                      THEN [stage |-> "getAll", left |-> m.data] ELSE request
        /\ held' = held \ {m.lock}
    /\ toMain' = Tail(toMain)
    /\ UNCHANGED <<alarms, fetching, firedAs, nextLock, toWorker, phase, accounts,
                   promise, locking, tasks, seen, faults>>

\* done() for the last alarm: the worker is told.
EnsureEnds(left) ==
    IF left = {}
    THEN request' = NoRequest /\ toWorker' = Append(toWorker, SyncEnsured)
    ELSE request' = [stage |-> "adding", left |-> left] /\ UNCHANGED toWorker

\* mozAlarms.getAll has answered: what is not wanted is removed, what is
\* missing is added.  (What has gone off is in the past, and missing.)
GotAlarms ==
    /\ request.stage = "getAll"
    /\ alarms' = alarms \cap request.left
    /\ EnsureEnds(request.left \ alarms)
    /\ UNCHANGED <<fetching, firedAs, held, nextLock, routeReady, toMain, phase,
                   accounts, promise, locking, tasks, seen, faults>>

\* getAll fails: nobody is told.
GetAlarmsFails ==
    /\ request.stage = "getAll" /\ Fault
    /\ request' = NoRequest
    /\ UNCHANGED <<alarms, fetching, firedAs, held, nextLock, routeReady, channels,
                   phase, accounts, promise, locking, tasks, seen>>

AlarmAdded(x) ==
    /\ request.stage = "adding" /\ x \in request.left
    /\ alarms' = alarms \cup {x}
    /\ young' = young \cup {x}
    /\ EnsureEnds(request.left \ {x})
    /\ UNCHANGED <<fetching, firedAs, held, nextLock, routeReady, toMain, phase,
                   accounts, promise, locking, tasks, asked, failed, missed,
                   starved, faults>>

AddFails(x) ==
    /\ request.stage = "adding" /\ x \in request.left
    /\ Fault
    /\ failed' = failed \cup {x}
    /\ EnsureEnds(request.left \ {x})
    /\ UNCHANGED <<alarms, fetching, firedAs, held, nextLock, routeReady, toMain,
                   phase, accounts, promise, locking, tasks, asked, young, missed,
                   starved>>

-----------------------------------------------------------------------------
(* The worker: alarms. *)

\* The ensureSync under way no longer looks at the alarms.
Looked == request.stage = "adding" \/ \E i \in DOMAIN toWorker : toWorker[i] = SyncEnsured

\* ensureSync('alarm').  A request that is under way serves for this one.
Ensured(l) ==
    IF promise
    THEN /\ missed' = IF Looked THEN missed \cup {firedAs[l]} ELSE missed
         /\ UNCHANGED <<promise, asked, failed>>
    ELSE /\ promise' = TRUE
         /\ asked' = SyncData(accounts) /\ failed' = {} /\ missed' = {}

EnsureMsgs == IF promise THEN << >> ELSE <<EnsureSync(SyncData(accounts))>>

\* cronsyncAccount for each account of the alarm: those that are removed or
\* still at it are skipped.
Issued(l) == (firedAs[l].accounts \cap accounts) \ syncing

\* The tasks of an alarm, given the accounts that have a notification.
Scheduled(l, notified) ==
    Issued(l) \cup IF accounts \subseteq notified THEN {} ELSE {Other}

\* Mutant of HandOff: forgets to give the old lock back.
HandOffKeeps(l) ==
    /\ active # NoLock /\ Issued(l) # {}
    /\ toMain' = toMain \o EnsureMsgs
    /\ armed' = (armed \ {active}) \cup {l}
    /\ result' = [result EXCEPT ![active] = "superseded", ![l] = "open"]
    /\ active' = l
    /\ UNCHANGED <<listening, starved>>

\* Something new to do: the old lock is given back, the new one takes over.
HandOff(l) ==
    /\ active # NoLock /\ Issued(l) # {}
    /\ toMain' = toMain \o EnsureMsgs \o Unlocks(active)
    /\ armed' = (armed \ {active}) \cup {l}
    /\ result' = [result EXCEPT ![active] = "superseded", ![l] = "open"]
    /\ active' = l
    /\ UNCHANGED <<listening, starved>>

\* Nothing new to do: the new lock is given back.
NoHandOff(l) ==
    /\ active # NoLock /\ Issued(l) = {}
    /\ toMain' = toMain \o EnsureMsgs \o <<Unlock(l)>>
    /\ result' = [result EXCEPT ![l] = "ignored"]
    /\ UNCHANGED <<armed, active, listening, starved>>

\* No cron sync under way: this one waits for taskQueueEmpty.
Begin(l, notified) ==
    /\ active = NoLock
    /\ toMain' = toMain \o EnsureMsgs
    /\ armed' = armed \cup {l}
    /\ result' = [result EXCEPT ![l] = "open"]
    /\ active' = l
    /\ listening' = listening + 1
    /\ starved' = IF work \cup Scheduled(l, notified) = {} THEN starved \cup {l} ELSE starved

OnAlarm(l, notified) ==
    /\ toWorker # << >> /\ Head(toWorker) = AlarmMsg(l)
    /\ routeReady
    /\ toWorker' = Tail(toWorker)
    /\ Ensured(l)
    /\ syncing' = syncing \cup Issued(l)
    /\ work' = work \cup Scheduled(l, notified)
    /\ HandOff(l) \/ NoHandOff(l) \/ Begin(l, notified)
    /\ told' = "none"
    /\ UNCHANGED <<mainVars, phase, accounts, waiting, blocked, young, faults>>

-----------------------------------------------------------------------------
(* The worker: the end of a cron sync. *)

\* realCompletion for each of these locks, in turn: another alarm has begun
\* meanwhile, or this was the end.
Completion(ls) ==
    /\ UnlockAll(ls)
    /\ Disarm(ls)
    /\ Conclude(ls, IF active' = NoLock THEN "success" ELSE "left open")
    /\ told' = IF ls # << >> /\ active' = NoLock THEN "complete" ELSE told

\* Mutant of VictoriousCompletion: does not wait for ensureSync.
VictoriousCompletionHasty ==
    /\ active' = NoLock
    /\ listening' = 0
    /\ Completion(<<active>>) /\ UNCHANGED waiting

VictoriousCompletion ==
    /\ active' = NoLock
    /\ listening' = 0
    /\ IF promise
       THEN /\ waiting' = Append(waiting, active)
            /\ UNCHANGED <<toMain, armed, result, told>>
       ELSE Completion(<<active>>) /\ UNCHANGED waiting

\* The task manager has run out of work, or goes on.
Emptied ==
    IF work' = {} /\ listening > 0
    THEN VictoriousCompletion
    ELSE UNCHANGED <<locking, toMain>>

\* A task ends.  When a sync's group has completed its account may sync again.
TaskEnds(t) ==
    /\ phase = "up" /\ t \in work
    /\ work' = work \ {t}
    /\ syncing' = syncing \ {t}
    /\ Emptied
    /\ UNCHANGED <<mainVars, toWorker, phase, accounts, promise, blocked, seen, faults>>

\* A sync is planned, and its marker waits for the network.
SyncBlocks(a) ==
    /\ phase = "up" /\ a \in work \ {Other}
    /\ Fault
    /\ work' = work \ {a} /\ blocked' = blocked \cup {a}
    /\ Emptied
    /\ UNCHANGED <<mainVars, toWorker, phase, accounts, promise, syncing, seen>>

SyncUnblocks(a) ==
    /\ a \in blocked
    /\ work' = work \cup {a} /\ blocked' = blocked \ {a}
    /\ UNCHANGED <<mainVars, channels, phase, accounts, promise, locking, syncing,
                   seen, faults>>

\* Mutant of OnSyncEnsured: leaves the completions that wait where they are.
OnSyncEnsuredOnly ==
    /\ toWorker # << >> /\ Head(toWorker) = SyncEnsured
    /\ routeReady
    /\ toWorker' = Tail(toWorker)
    /\ promise' = FALSE
    /\ young' = {}
    /\ UNCHANGED <<mainVars, toMain, locking, phase, accounts, tasks, asked, failed,
                   missed, starved, faults>>

\* The alarms are set: completions that waited for it go on.
OnSyncEnsured ==
    /\ toWorker # << >> /\ Head(toWorker) = SyncEnsured
    /\ routeReady
    /\ toWorker' = Tail(toWorker)
    /\ promise' = FALSE
    /\ waiting' = << >>
    /\ UNCHANGED active
    /\ Completion(waiting)
    /\ young' = {}
    /\ UNCHANGED <<mainVars, listening, phase, accounts, tasks, asked, failed,
                   missed, starved, faults>>

\* The failsafe of a wake lock: imminentDoomHandler, then unlock.  The cron sync
\* does not hear of it and keeps the lock that holds nothing.
TimeoutUnlock(l) ==
    /\ l \in armed /\ Fault
    /\ armed' = armed \ {l}
    /\ toMain' = Append(toMain, Unlock(l))
    /\ told' = "fail"
    /\ UNCHANGED <<mainVars, toWorker, phase, accounts, promise, active, listening,
                   waiting, result, tasks, seen>>

Next ==
    \/ Boot \/ SystemReady \/ Close \/ AccountsChange
    \/ \E x \in Alarm : AlarmFires(x) \/ AlarmAdded(x) \/ AddFails(x)
    \/ \E l \in Locks : AlarmDispatch(l) \/ TimeoutUnlock(l)
    \/ MainReceives \/ GotAlarms \/ GetAlarmsFails
    \/ \E l \in Locks, notified \in SUBSET Accounts : OnAlarm(l, notified)
    \/ \E t \in Accounts \cup {Other} : TaskEnds(t)
    \/ \E a \in Accounts : SyncBlocks(a) \/ SyncUnblocks(a)
    \/ OnSyncEnsured

Spec == Init /\ [][Next]_vars

\* Messages arrive, requests are answered, tasks end, the network comes back.
FairSpec ==
    /\ Spec
    /\ WF_vars(SystemReady) /\ WF_vars(MainReceives) /\ WF_vars(OnSyncEnsured)
    /\ WF_vars(\E l \in Locks : AlarmDispatch(l))
    /\ WF_vars(\E l \in Locks, notified \in SUBSET Accounts : OnAlarm(l, notified))
    /\ WF_vars(GotAlarms)
    /\ WF_vars(\E x \in Alarm : AlarmAdded(x))
    /\ \A t \in Accounts \cup {Other} : WF_vars(TaskEnds(t))

-----------------------------------------------------------------------------
(* Properties. *)

Dispatched == {toWorker[i].lock : i \in DOMAIN toWorker} \ {NoLock}
GivenBack  == {toMain[i].lock : i \in DOMAIN toMain} \ {NoLock}
Waiting    == {waiting[i] : i \in DOMAIN waiting}

LocksAccounted ==
    /\ held = fetching \cup Dispatched \cup armed \cup GivenBack
    /\ armed \subseteq {active} \cup Waiting
    /\ armed \cap (fetching \cup Dispatched \cup GivenBack) = {}
    /\ \A i, j \in DOMAIN toMain :
        toMain[i].type = "unlock" /\ toMain[i] = toMain[j] => i = j
    /\ {l \in Locks : result[l] = "open"} = ({active} \ {NoLock}) \cup Waiting
    /\ listening = IF active = NoLock THEN 0 ELSE 1

InFlight == {firedAs[l] : l \in fetching \cup Dispatched}

AlarmsEnsuredUnlessMissed ==
    phase = "up" /\ ~promise => asked \subseteq alarms \cup InFlight \cup failed \cup missed

\* A wake lock that the document holds is somebody's business, and only one's:
\* of an alarm on its way to the worker, of a countdown for a cron sync that is
\* active or waits for ensureSync, or of one message that gives it back.  And
\* ensureSync's promise: once it has ended, each interval has its alarm, or the
\* alarm has gone off and is on its way to the worker, which then asks again;
\* unless it went off after ensureSync had looked at the alarms and its own
\* ensureSync was folded into that one.  (With the type invariant.)
CronInStep == TypeOK /\ LocksAccounted /\ AlarmsEnsuredUnlessMissed

\* The front end closes the app when a cron sync is complete: by then the alarms
\* are ensured.
CompleteIsSafe ==
    [][told' = "complete" /\ told # "complete" =>
        /\ ~promise'
        /\ asked' \subseteq alarms' \cup InFlight' \cup failed' \cup missed']_vars

\* getAll has failed: the promise stays, and every later ensureSync is folded into it.
Unanswered ==
    /\ promise /\ request = NoRequest
    /\ \A i \in DOMAIN toMain : toMain[i].type # "ensureSync"
    /\ \A i \in DOMAIN toWorker : toWorker[i].type # "syncEnsured"

\* A cron sync that has something to run comes to its conclusion, without the
\* failsafe of its lock.
Concludes ==
    \A l \in Locks : result[l] = "open" /\ l \notin starved ~>
                     result[l] # "open" \/ Unanswered
=============================================================================
