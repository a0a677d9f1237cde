---------------------------- MODULE TaskManager ----------------------------
(***************************************************************************)
(* The life of a task: TaskManager (scheduling, planning, execution, the   *)
(* boot-time restore), TaskContext.finishTask, TaskRegistry.planTask and   *)
(* executeTask with their fail-safe, the at-most-once base, the            *)
(* blocked/prioritized split of TaskResources, and the two task tables of  *)
(* MailDB, down to the order in which IndexedDB commits transactions.      *)
(*                                                                         *)
(* The back-end is one JavaScript thread.  An action is one turn of its    *)
(* event loop: the handler, everything it calls synchronously and the      *)
(* promise reactions it unleashes.  What may come between two turns (a     *)
(* commit, an abort, a caller, the network, the death of the process) is   *)
(* another action.                                                         *)
(***************************************************************************)
EXTENDS Naturals, Sequences, FiniteSets, SequencesExt

CONSTANTS
    Simple,        \* ids of the tasks of simple types
    Complex,       \* ids of the tasks of at-most-once types
    Bins,          \* marker ids: one per (task type, binByArg value)
    BinOf,         \* the bin that an at-most-once request falls in
    NonPersistent, \* tasks that only scheduleNonPersistentTasks may take
    Orphans,       \* tasks planTask finds no account or no provider for
    Resources,     \* 'online', 'credentials!A', 'happy!A'
    Needs,         \* the resources a marker lists
    NoJob, NoThing, NoResource,
    MaxBatch,      \* bound: raw tasks in one scheduleTasks or newData.tasks
    MaxCrashes, MaxFailures, MaxAborts, MaxFlips   \* bounds on the environment

Tasks  == Simple \cup Complex
Things == Simple \cup Bins   \* what the priority heap holds: "TaskThings"

Job == [mode : {"plan", "exec"}, thing : Tasks \cup Bins, stage : {"run", "commit"}]

ASSUME TaskManagerAssumption ==
    /\ IsFiniteSet(Tasks)
    /\ Simple \cap Complex = {}
    /\ Tasks \cap Bins = {}
    /\ BinOf \in [Complex -> Bins]
    /\ NonPersistent \subseteq Simple
    /\ Orphans \subseteq Tasks
    /\ Needs \in [Bins -> SUBSET Resources]
    /\ NoJob \notin Job
    /\ NoResource \notin Resources
    /\ NoThing \notin Tasks \cup Bins
    /\ {MaxBatch, MaxCrashes, MaxFailures, MaxAborts, MaxFlips} \subseteq Nat

VARIABLES
    (* durable: TBL_TASKS and TBL_COMPLEX_TASKS *)
    diskTasks,         \* the state of each task's record
    diskBins,          \* the committed binToMarker
    (* IndexedDB's queue of readwrite transactions over TBL_TASKS *)
    txns,
    (* the process *)
    phase,             \* off, loading, restoring (both wedged), up
    tasksToPlan,       \* _tasksToPlan
    pendingPlanWrites, \* _pendingPlanWrites
    active,            \* the job behind _activePromise
    prioritized,       \* TaskPriorities: ready to execute
    blockedOn,         \* TaskResources: the resource a marker is filed under
    available,         \* TaskResources._availableResources
    binToMarker,       \* persistentState of the at-most-once tasks
    inProgressBins,    \* memoryState of the at-most-once tasks
    wakeLock,          \* _activeWakeLock is set
    timer,             \* a setTimeout(_maybeDoStuff) is pending
    signal,            \* the event the last turn emitted
    (* history *)
    fate,              \* what has durably become of each task
    owed,              \* bins with a covered request not yet executed
    parked,            \* raw tasks this process tried to plan in vain
    used               \* how much of each environment bound is spent

disk == <<diskTasks, diskBins>>
bins == <<binToMarker, inProgressBins>>
hist == <<fate, owed, parked>>
vars == <<disk, txns, phase, tasksToPlan, pendingPlanWrites, active,
          prioritized, blockedOn, available, bins, wakeLock, timer, signal,
          hist, used>>

Fates == {"unborn", "issued", "accepted", "planned", "covered", "done", "dropped"}

(* One readwrite transaction.  "add" is MailDB.addTasks, "finish" the       *)
(* finishMutate a job waits for, "failsafe" the one nobody waits for.  It   *)
(* deletes the record of thing (if thing is a task), writes bins if saves,  *)
(* and puts the raw records new.                                            *)
Txn == {x \in [kind  : {"add", "finish", "failsafe"},
               thing : Tasks \cup Bins \cup {NoThing},
               result: {"planned", "covered", "done", "dropped"},
               saves : BOOLEAN,
               bins  : SUBSET Bins,
               new   : SUBSET Tasks] : x.result = "covered" => x.thing \in Complex}

TypeOK ==
    /\ diskTasks \in [Tasks -> {"absent", "raw", "planned"}]
    /\ diskBins \in SUBSET Bins
    /\ txns \in Seq(Txn)
    /\ phase \in {"off", "loading", "restoring", "up"}
    /\ tasksToPlan \in Seq(Tasks)
    /\ pendingPlanWrites \in Nat
    /\ active \in Job \cup {NoJob}
    /\ prioritized \in SUBSET Things
    /\ blockedOn \in [Bins -> Resources \cup {NoResource}]
    /\ available \in SUBSET Resources
    /\ binToMarker \in SUBSET Bins
    /\ inProgressBins \in SUBSET Bins
    /\ wakeLock \in BOOLEAN
    /\ timer \in BOOLEAN
    /\ signal \in {"none", "taskQueueEmpty"}
    /\ fate \in [Tasks -> Fates]
    /\ owed \in SUBSET Bins
    /\ parked \in SUBSET Tasks
    /\ used \in [{"crash", "fail", "abort", "flip"} -> Nat]

-----------------------------------------------------------------------------
(* Helpers. *)

\* The resource that a marker waits for when avail is what there is.  The order
\* in which a marker lists its resources is not modelled.
Missing(b, avail) ==
    IF Needs[b] \subseteq avail THEN NoResource ELSE CHOOSE r \in Needs[b] \ avail : TRUE

\* ownOrRelayTaskThing reads the resources of the thing itself: a marker has
\* them there, a planned simple task has them in plannedTask and never blocks.
Ready(th, avail) == th \in Bins => Missing(th, avail) = NoResource

blocked == {b \in Bins : blockedOn[b] # NoResource}

\* The raw tasks a caller, or a finishing task, may hand over.
Batches == {S \in SUBSET {t \in Tasks \ NonPersistent : fate[t] = "unborn"} :
                Cardinality(S) <= MaxBatch}

Spend(what) == used' = [used EXCEPT ![what] = @ + 1]

Issue(new) == fate' = [t \in Tasks |-> IF t \in new THEN "issued" ELSE fate[t]]

Submit(kind, thing, result, saves, new) ==
    txns' = Append(txns, [kind |-> kind, thing |-> thing, result |-> result,
                          saves |-> saves, new |-> new,
                          bins |-> IF saves THEN binToMarker' ELSE {}])

\* __queueTasksOrMarkers: ownOrRelayTaskThing for each of the given things.
Relayed(things, avail) ==
    (prioritized \ things) \cup {th \in things : Ready(th, avail)}

Filed(things, avail) ==
    [b \in Bins |-> IF b \in things THEN Missing(b, avail) ELSE blockedOn[b]]

OwnOrRelay(things) ==
    /\ prioritized' = Relayed(things, available)
    /\ blockedOn' = Filed(things, available)

-----------------------------------------------------------------------------
(* _maybeDoStuff, with no promise active, on plan queue q and heap ready;  *)
(* pending is _pendingPlanWrites, lock says if the wake lock is held and   *)
(* again if a setTimeout is already due to call once more.                 *)

\* Mutant of PlanNext: looks at the first task and leaves it in the queue.
PlanNextPeeks(q, ready, lock, again) ==
    /\ q # << >> /\ Head(q) \notin Orphans
    /\ active' = [mode |-> "plan", thing |-> Head(q), stage |-> "run"]
    /\ tasksToPlan' = q
    /\ prioritized' = ready
    /\ wakeLock' = lock /\ timer' = again /\ signal' = "none"
    /\ UNCHANGED inProgressBins

PlanNext(q, ready, lock, again) ==
    /\ q # << >> /\ Head(q) \notin Orphans
    /\ active' = [mode |-> "plan", thing |-> Head(q), stage |-> "run"]
    /\ tasksToPlan' = Tail(q)
    /\ prioritized' = ready
    /\ wakeLock' = lock /\ timer' = again /\ signal' = "none"
    /\ UNCHANGED inProgressBins

\* planTask returned null: nothing was written and no promise exists.
PlanMoot(q, ready, lock, again) ==
    /\ q # << >> /\ Head(q) \in Orphans
    /\ active' = NoJob
    /\ tasksToPlan' = Tail(q)
    /\ prioritized' = ready
    /\ wakeLock' = lock
    /\ timer' = (again \/ Tail(q) # << >> \/ ready # {})
    /\ signal' = "none"
    /\ UNCHANGED inProgressBins

\* Any ready thing may hold the least key: keys are not modelled.
ExecuteNext(q, ready, lock, again) ==
    /\ q = << >>
    /\ \E th \in ready :
        /\ active' = [mode |-> "exec", thing |-> th, stage |-> "run"]
        /\ prioritized' = ready \ {th}
        /\ inProgressBins' = inProgressBins \cup ({th} \cap Bins)
    /\ tasksToPlan' = q
    /\ wakeLock' = lock /\ timer' = again /\ signal' = "none"

\* Mutant of NothingToDo: declares the queue empty whatever is being written.
NothingToDoHasty(q, ready, pending, again) ==
    /\ q = << >> /\ ready = {}
    /\ active' = NoJob
    /\ tasksToPlan' = q
    /\ prioritized' = ready
    /\ wakeLock' = FALSE /\ timer' = again
    /\ signal' = "taskQueueEmpty"
    /\ UNCHANGED inProgressBins

NothingToDo(q, ready, pending, again) ==
    /\ q = << >> /\ ready = {}
    /\ active' = NoJob
    /\ tasksToPlan' = q
    /\ prioritized' = ready
    /\ wakeLock' = FALSE /\ timer' = again
    /\ signal' = IF pending = 0 THEN "taskQueueEmpty" ELSE "none"
    /\ UNCHANGED inProgressBins

DoStuff(q, ready, pending, lock, again) ==
    \/ PlanNext(q, ready, lock, again)
    \/ PlanMoot(q, ready, lock, again)
    \/ ExecuteNext(q, ready, lock, again)
    \/ NothingToDo(q, ready, pending, again)

\* _activePromise is set: by a job, or by the wedge that holds until boot ends.
Busy == active # NoJob \/ phase # "up"

\* Mutant of MaybeDoStuff: does not look at _activePromise.
MaybeDoStuffAnyway(q, ready, pending, lock, again) ==
    DoStuff(q, ready, pending, lock, again)

MaybeDoStuff(q, ready, pending, lock, again) ==
    IF Busy
    THEN /\ tasksToPlan' = q
         /\ prioritized' = ready
         /\ wakeLock' = lock /\ timer' = again /\ signal' = "none"
         /\ UNCHANGED <<active, inProgressBins>>
    ELSE DoStuff(q, ready, pending, lock, again)

-----------------------------------------------------------------------------
(* Start of the process and its end. *)

Init ==
    /\ diskTasks = [t \in Tasks |-> "absent"] /\ diskBins = {}
    /\ txns = << >>
    /\ phase = "off"
    /\ tasksToPlan = << >> /\ pendingPlanWrites = 0
    /\ active = NoJob
    /\ prioritized = {} /\ blockedOn = [b \in Bins |-> NoResource] /\ available = {}
    /\ binToMarker = {} /\ inProgressBins = {}
    /\ wakeLock = FALSE /\ timer = FALSE /\ signal = "none"
    /\ fate = [t \in Tasks |-> "unborn"] /\ owed = {} /\ parked = {}
    /\ used = [what \in {"crash", "fail", "abort", "flip"} |-> 0]

\* A new universe: the accounts are up, __restoreFromDB has asked for the tables.
Boot ==
    /\ phase = "off"
    /\ phase' = "loading"
    /\ available' \in SUBSET Resources
    /\ UNCHANGED <<disk, txns, tasksToPlan, pendingPlanWrites, active, prioritized,
                   blockedOn, bins, wakeLock, timer, signal, hist, used>>

\* Mutant of LoadTasks: only restores what was planned.
LoadTasksPlannedOnly ==
    /\ phase = "loading"
    /\ phase' = "restoring"
    /\ OwnOrRelay({t \in Simple : diskTasks[t] = "planned"})
    /\ UNCHANGED <<disk, txns, tasksToPlan, pendingPlanWrites, active, available,
                   bins, wakeLock, timer, signal, hist, used>>

\* loadTasks has answered: raw tasks are queued, planned ones relayed.  From
\* here on others may schedule, though the manager is still wedged.
LoadTasks ==
    /\ phase = "loading"
    /\ phase' = "restoring"
    /\ tasksToPlan' \in SetToSeqs({t \in Tasks : diskTasks[t] = "raw"})
    /\ OwnOrRelay({t \in Simple : diskTasks[t] = "planned"})
    /\ UNCHANGED <<disk, txns, pendingPlanWrites, active, available, bins,
                   wakeLock, timer, signal, hist, used>>

\* Mutant of RestoreComplex: restores binToMarker but queues no marker.
RestoreComplexUnqueued ==
    /\ phase = "restoring"
    /\ phase' = "up"
    /\ binToMarker' = diskBins
    /\ DoStuff(tasksToPlan, prioritized, pendingPlanWrites, wakeLock, timer)
    /\ UNCHANGED <<disk, txns, pendingPlanWrites, blockedOn, available, hist, used>>

\* What accountExistsInitTasks hands back: the markers that the at-most-once
\* tasks derive from the binToMarker they stored.
StoredMarkers == diskBins

\* The complex tasks are restored: the wedge is removed, processing starts.
RestoreComplex ==
    /\ phase = "restoring"
    /\ phase' = "up"
    /\ binToMarker' = StoredMarkers
    /\ blockedOn' = Filed(StoredMarkers, available)
    /\ DoStuff(tasksToPlan, Relayed(StoredMarkers, available), pendingPlanWrites,
               wakeLock, timer)
    /\ UNCHANGED <<disk, txns, pendingPlanWrites, available, hist, used>>

\* The process is killed.  Only what was committed remains.
Crash ==
    /\ phase # "off"
    /\ used["crash"] < MaxCrashes /\ Spend("crash")
    /\ phase' = "off"
    /\ txns' = << >>
    /\ tasksToPlan' = << >> /\ pendingPlanWrites' = 0
    /\ active' = NoJob
    /\ prioritized' = {} /\ blockedOn' = [b \in Bins |-> NoResource] /\ available' = {}
    /\ binToMarker' = {} /\ inProgressBins' = {}
    /\ wakeLock' = FALSE /\ timer' = FALSE /\ signal' = "none"
    /\ parked' = {}
    /\ UNCHANGED <<disk, fate, owed>>

-----------------------------------------------------------------------------
(* Scheduling from outside the task system. *)

Accepting == phase \in {"restoring", "up"}

\* Mutant of Schedule: queues the tasks without waiting for the write.
ScheduleEager(new) ==
    /\ Accepting
    /\ new \in Batches /\ new # {}
    /\ Issue(new)
    /\ UNCHANGED binToMarker
    /\ Submit("add", NoThing, "done", FALSE, new)
    /\ \E order \in SetToSeqs(new) :
        MaybeDoStuff(tasksToPlan \o order, prioritized, 0, TRUE, timer)
    /\ UNCHANGED <<disk, phase, pendingPlanWrites, blockedOn, available, owed,
                   parked, used>>

Schedule(new) ==
    /\ Accepting
    /\ new \in Batches /\ new # {}
    /\ wakeLock' = TRUE
    /\ pendingPlanWrites' = pendingPlanWrites + 1
    /\ Issue(new)
    /\ signal' = "none"
    /\ UNCHANGED bins
    /\ Submit("add", NoThing, "done", FALSE, new)
    /\ UNCHANGED <<disk, phase, tasksToPlan, active, prioritized, blockedOn,
                   available, timer, owed, parked, used>>

ScheduleNonPersistent(t) ==
    /\ Accepting
    /\ t \in NonPersistent /\ fate[t] = "unborn"
    /\ Issue({t})
    /\ MaybeDoStuff(Append(tasksToPlan, t), prioritized, pendingPlanWrites, TRUE,
                    timer)
    /\ UNCHANGED <<disk, txns, phase, pendingPlanWrites, blockedOn, available,
                   binToMarker, owed, parked, used>>

-----------------------------------------------------------------------------
(* Jobs.  A job that ends well calls finishTask, which updates memory at    *)
(* once and submits the transaction; the job then waits for the commit.     *)

Running(mode, th) == active = [mode |-> mode, thing |-> th, stage |-> "run"]

FinishTask(th, result, saves, new) ==
    /\ new \in Batches
    /\ Issue(new)
    /\ Submit("finish", th, result, saves, new)
    /\ active' = [active EXCEPT !.stage = "commit"]
    /\ signal' = "none"
    /\ UNCHANGED <<disk, phase, tasksToPlan, pendingPlanWrites, available,
                   wakeLock, timer, owed, parked, used>>

\* The plan of a simple task returned a taskState: it is queued for
\* execution at once, before its transaction commits.
PlanSimple(t, new) ==
    /\ Running("plan", t) /\ t \in Simple
    /\ OwnOrRelay({t})
    /\ UNCHANGED bins
    /\ FinishTask(t, "planned", FALSE, new)

\* The plan of a task did all there was to do, or found the task moot.
PlanConcludes(t, new) ==
    /\ Running("plan", t)
    /\ t \in Complex => BinOf[t] \notin binToMarker
    /\ UNCHANGED <<bins, prioritized, blockedOn>>
    /\ FinishTask(t, "done", FALSE, new)

\* Mutant of PlanMarker: forgets rval.complexTaskState.
PlanMarkerUnsaved(t, new) ==
    /\ Running("plan", t) /\ t \in Complex
    /\ BinOf[t] \notin binToMarker
    /\ binToMarker' = binToMarker \cup {BinOf[t]}
    /\ OwnOrRelay({BinOf[t]})
    /\ UNCHANGED inProgressBins
    /\ FinishTask(t, "covered", FALSE, new)

\* helped_plan returned a taskState, which becomes the marker of the bin.
PlanMarker(t, new) ==
    /\ Running("plan", t) /\ t \in Complex
    /\ BinOf[t] \notin binToMarker
    /\ binToMarker' = binToMarker \cup {BinOf[t]}
    /\ OwnOrRelay({BinOf[t]})
    /\ UNCHANGED inProgressBins
    /\ FinishTask(t, "covered", TRUE, new)

\* The bin is already planned: the request is dropped.
PlanAbsorbed(t) ==
    /\ Running("plan", t) /\ t \in Complex
    /\ BinOf[t] \in binToMarker
    /\ UNCHANGED <<bins, prioritized, blockedOn>>
    /\ FinishTask(t, "covered", FALSE, {})

ExecuteSimple(t, new) ==
    /\ Running("exec", t) /\ t \in Simple
    /\ UNCHANGED <<bins, prioritized, blockedOn>>
    /\ FinishTask(t, "done", FALSE, new)

ExecuteMarker(b, new) ==
    /\ Running("exec", b) /\ b \in Bins
    /\ inProgressBins' = inProgressBins \ {b}
    /\ binToMarker' = binToMarker \ {b}
    /\ UNCHANGED <<prioritized, blockedOn>>
    /\ FinishTask(b, "done", TRUE, new)

-----------------------------------------------------------------------------
(* A job whose promise rejects before finishTask.  _forceFinalize then      *)
(* finishes the task with nothing, and nobody waits for that transaction;   *)
(* the plan of a simple task is returned without _forceFinalize.            *)

JobEnds(q, lock) ==
    DoStuff(q, prioritized, pendingPlanWrites, lock, timer)

Failing == used["fail"] < MaxFailures /\ Spend("fail")

PlanSimpleFails(t) ==
    /\ Running("plan", t) /\ t \in Simple
    /\ Failing
    /\ parked' = parked \cup {t}
    /\ JobEnds(tasksToPlan, wakeLock)
    /\ UNCHANGED <<disk, txns, phase, pendingPlanWrites, blockedOn, available,
                   binToMarker, fate, owed>>

\* The plan of an at-most-once task, or the execution of anything.
FailsafeFinalize(th) ==
    /\ \/ Running("plan", th) /\ th \in Complex
       \/ Running("exec", th)
    /\ Failing
    /\ UNCHANGED binToMarker
    /\ Submit("failsafe", th, "dropped", FALSE, {})
    /\ JobEnds(tasksToPlan, wakeLock)
    /\ UNCHANGED <<disk, phase, pendingPlanWrites, blockedOn, available,
                   fate, owed, parked>>

-----------------------------------------------------------------------------
(* The database answers, oldest transaction first. *)

\* The records after the transaction, and what it means for the history.
Apply(x) ==
    /\ diskTasks' = [t \in Tasks |-> IF t \in x.new THEN "raw"
                                     ELSE IF t = x.thing THEN "absent"
                                     ELSE diskTasks[t]]
    /\ diskBins' = IF x.saves THEN x.bins ELSE diskBins
    /\ fate' = [t \in Tasks |-> IF t \in x.new THEN "accepted"
                                ELSE IF t = x.thing THEN x.result
                                ELSE fate[t]]
    /\ owed' = IF x.result = "covered" THEN owed \cup {BinOf[x.thing]}
               ELSE IF x.result = "done" THEN owed \ {x.thing} ELSE owed

NextTxn(kind) ==
    /\ txns # << >> /\ Head(txns).kind = kind
    /\ txns' = Tail(txns)

AddCommits ==
    /\ NextTxn("add")
    /\ Apply(Head(txns))
    /\ pendingPlanWrites' = pendingPlanWrites - 1
    /\ \E order \in SetToSeqs(Head(txns).new) :
        MaybeDoStuff(tasksToPlan \o order, prioritized, pendingPlanWrites - 1, TRUE,
                     timer)
    /\ UNCHANGED <<phase, blockedOn, available, binToMarker, parked, used>>

\* Mutant of FinishCommits: forgets to enqueue newData.tasks.
FinishCommitsForgets ==
    /\ NextTxn("finish")
    /\ Apply(Head(txns))
    /\ JobEnds(tasksToPlan, wakeLock)
    /\ UNCHANGED <<phase, pendingPlanWrites, blockedOn, available, binToMarker,
                   parked, used>>

\* New tasks are enqueued while the job is still active; then the job's
\* promise resolves and the manager looks for the next thing to do.
FinishCommits ==
    /\ NextTxn("finish")
    /\ Apply(Head(txns))
    /\ \E order \in SetToSeqs(Head(txns).new) :
        JobEnds(tasksToPlan \o order, wakeLock \/ Head(txns).new # {})
    /\ UNCHANGED <<phase, pendingPlanWrites, blockedOn, available, binToMarker,
                   parked, used>>

FailsafeCommits ==
    /\ NextTxn("failsafe")
    /\ Apply(Head(txns))
    /\ signal' = "none"
    /\ UNCHANGED <<phase, tasksToPlan, pendingPlanWrites, active, prioritized,
                   blockedOn, available, bins, wakeLock, timer, parked, used>>

\* A transaction fails.  wrapTrans listens for 'error' but not for 'abort':
\* a failure that is announced rejects the promise, and a job waiting on it
\* ends; one that is not leaves the promise pending for good.
Aborts(announced) ==
    /\ used["abort"] < MaxAborts /\ Spend("abort")
    /\ txns # << >> /\ txns' = Tail(txns)
    /\ parked' = parked \cup ({Head(txns).thing} \cap Tasks)
    /\ IF Head(txns).kind = "finish" /\ announced
       THEN JobEnds(tasksToPlan, wakeLock)
       ELSE /\ signal' = "none"
            /\ UNCHANGED <<tasksToPlan, active, prioritized, inProgressBins,
                           wakeLock, timer>>
    /\ UNCHANGED <<disk, phase, pendingPlanWrites, blockedOn, available,
                   binToMarker, fate, owed>>

-----------------------------------------------------------------------------
(* Resources come and go; the paranoid timer. *)

\* Mutant of ResourceAvailable: prioritizes what waited for r unconditionally.
ResourceAvailableFreesAll(r) ==
    /\ phase # "off" /\ r \notin available
    /\ used["flip"] < MaxFlips /\ Spend("flip")
    /\ available' = available \cup {r}
    /\ LET things == {b \in Bins : blockedOn[b] = r}
       IN /\ prioritized' = prioritized \cup things
          /\ blockedOn' = [b \in Bins |-> IF b \in things THEN NoResource
                                         ELSE blockedOn[b]]
    /\ signal' = "none"
    /\ UNCHANGED <<disk, txns, phase, tasksToPlan, pendingPlanWrites, active,
                   bins, wakeLock, timer, hist>>

\* Each thing filed under r is taken out and filed or relayed again.  Nobody
\* calls _maybeDoStuff.
ResourceAvailable(r) ==
    /\ phase # "off" /\ r \notin available
    /\ used["flip"] < MaxFlips /\ Spend("flip")
    /\ available' = available \cup {r}
    /\ LET things == {b \in Bins : blockedOn[b] = r}
       IN /\ prioritized' = Relayed(things, available')
          /\ blockedOn' = Filed(things, available')
    /\ signal' = "none"
    /\ UNCHANGED <<disk, txns, phase, tasksToPlan, pendingPlanWrites, active,
                   bins, wakeLock, timer, hist>>

\* Mutant of ResourceNoLongerAvailable: takes off the heap and files nothing.
ResourceNoLongerAvailableDrops(r) ==
    /\ phase # "off" /\ r \in available
    /\ used["flip"] < MaxFlips /\ Spend("flip")
    /\ available' = available \ {r}
    /\ prioritized' = prioritized \ {b \in prioritized \cap Bins : r \in Needs[b]}
    /\ signal' = "none"
    /\ UNCHANGED <<disk, txns, phase, tasksToPlan, pendingPlanWrites, active,
                   blockedOn, bins, wakeLock, timer, hist>>

\* The prioritized things that list r are taken off the heap and filed.
ResourceNoLongerAvailable(r) ==
    /\ phase # "off" /\ r \in available
    /\ used["flip"] < MaxFlips /\ Spend("flip")
    /\ available' = available \ {r}
    /\ LET things == {b \in prioritized \cap Bins : r \in Needs[b]}
       IN /\ prioritized' = Relayed(things, available')
          /\ blockedOn' = Filed(things, available')
    /\ signal' = "none"
    /\ UNCHANGED <<disk, txns, phase, tasksToPlan, pendingPlanWrites, active,
                   bins, wakeLock, timer, hist>>

\* timer is one flag for any number of pending setTimeouts: a second one
\* would find nothing new to do.
TimerFires ==
    /\ timer
    /\ MaybeDoStuff(tasksToPlan, prioritized, pendingPlanWrites, wakeLock, FALSE)
    /\ UNCHANGED <<disk, txns, phase, pendingPlanWrites, blockedOn, available,
                   binToMarker, hist, used>>

-----------------------------------------------------------------------------
(* Specifications. *)

JobFinishes ==
    \/ \E new \in Batches :
        \/ \E t \in Tasks : \/ PlanSimple(t, new) \/ PlanConcludes(t, new)
                            \/ PlanMarker(t, new) \/ ExecuteSimple(t, new)
        \/ \E b \in Bins : ExecuteMarker(b, new)
    \/ \E t \in Complex : PlanAbsorbed(t)

JobFails ==
    \/ \E t \in Simple : PlanSimpleFails(t)
    \/ \E th \in Tasks \cup Bins : FailsafeFinalize(th)

Next ==
    \/ Boot \/ LoadTasks \/ RestoreComplex \/ Crash
    \/ \E new \in Batches : Schedule(new)
    \/ \E t \in NonPersistent : ScheduleNonPersistent(t)
    \/ JobFinishes \/ JobFails
    \/ AddCommits \/ FinishCommits \/ FailsafeCommits
    \/ \E announced \in BOOLEAN : Aborts(announced)
    \/ \E r \in Resources : ResourceAvailable(r) \/ ResourceNoLongerAvailable(r)
    \/ TimerFires

Spec == Init /\ [][Next]_vars

\* The app is started again after it died, the event loop turns, IndexedDB
\* completes its transactions, and a job that does not fail finishes.
Fairness ==
    /\ WF_vars(Boot) /\ WF_vars(LoadTasks) /\ WF_vars(RestoreComplex)
    /\ WF_vars(JobFinishes)
    /\ WF_vars(AddCommits) /\ WF_vars(FinishCommits) /\ WF_vars(FailsafeCommits)
    /\ WF_vars(TimerFires)

FairSpec == Spec /\ Fairness

-----------------------------------------------------------------------------
(* Safety. *)

Queued(t)    == \E i \in 1..Len(tasksToPlan) : tasksToPlan[i] = t
Working(th)  == active # NoJob /\ active.thing = th
Executing(th) == Working(th) /\ active.mode = "exec"
Finishing(th) == \E i \in 1..Len(txns) : txns[i].thing = th
Incoming(t)  == \E i \in 1..Len(txns) : t \in txns[i].new
Persistent   == Tasks \ NonPersistent

\* A task or marker is in one place: never twice in the plan queue, never
\* both queued for planning and planned, never both prioritized and blocked,
\* never executing while a copy of it waits to be executed again.
OneHome ==
    /\ \A i, j \in 1..Len(tasksToPlan) : tasksToPlan[i] = tasksToPlan[j] => i = j
    /\ prioritized \cap blocked = {}
    /\ \A t \in Tasks : Queued(t) =>
        t \notin prioritized \cup blocked /\ ~Working(t)
    /\ \A th \in Things : Executing(th) => th \notin prioritized \cup blocked

\* The manager never plans on credit: whatever awaits planning, or is being
\* planned and has not asked to be finished, has its raw record on disk.
QueueIsDurable ==
    \A t \in Persistent :
        Queued(t) \/ (Working(t) /\ active.mode = "plan" /\ active.stage = "run")
            => diskTasks[t] = "raw"

\* Every raw record is somebody's business in a process that is up: in the
\* plan queue, being planned, on its way out, or given up on until next boot.
NoRawForgotten ==
    /\ TypeOK
    /\ phase = "up" =>
        \A t \in Tasks : diskTasks[t] = "raw" =>
            Queued(t) \/ Working(t) \/ Finishing(t) \/ t \in parked \cup Orphans

\* However resources came and went, a prioritized marker has all it needs, and a
\* blocked one is filed under a resource that is really missing, so that it
\* will be looked at again when it may run.
SortedByNeed ==
    /\ \A b \in prioritized \cap Bins : Needs[b] \subseteq available
    /\ \A b \in blocked : blockedOn[b] \in Needs[b] \ available

\* A bin that counts as planned has a marker that will run, unless an earlier
\* execution failed (and left the bin marked in progress).  A request that
\* falls in the bin is dropped on the strength of this.
PlannedBinHasMarker ==
    phase = "up" =>
        \A b \in binToMarker \ inProgressBins : b \in prioritized \cup blocked

\* taskQueueEmpty is only emitted when nothing is left to plan or run, and no
\* write is in flight that will add to the plan queue.
QueueEmptyIsTrue ==
    signal = "taskQueueEmpty" =>
        /\ tasksToPlan = << >> /\ prioritized = {} /\ active = NoJob
        /\ \A t \in Tasks : ~Incoming(t)

\* With a database that does not abort: planning starts on a task that was
\* never planned, and execution on a task whose plan is durable.
RunsInOrder ==
    \A t \in Persistent : Working(t) /\ active.stage = "run" =>
        fate[t] = IF active.mode = "plan" THEN "accepted" ELSE "planned"

\* With a database that does not abort: a request that was folded into a bin
\* survives any crash, as the stored state still has the bin's marker.
OwedIsDurable == owed \subseteq diskBins

(* Liveness, under FairSpec. *)

\* An accepted task is eventually planned, even if the process dies.
AcceptedIsPlanned ==
    \A t \in Persistent \ Orphans :
        fate[t] = "accepted" ~> fate[t] \in {"planned", "covered", "done"}

\* A request folded into a bin is eventually executed, even if the process dies.
OwedIsExecuted == \A b \in Bins : b \in owed ~> b \notin owed

-----------------------------------------------------------------------------
(* What the repository says of the program and the code does not do. *)

\* tasks.md: killing the process never results in task loss.
NoTaskLost ==
    phase = "up" =>
        \A t \in Persistent : fate[t] = "planned" =>
            t \in prioritized \cup blocked \/ Working(t) \/ Finishing(t)

=============================================================================
