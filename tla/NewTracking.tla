----------------------------- MODULE NewTracking -----------------------------
(***************************************************************************)
(* Which messages of an inbox are new, and what the user has been told:    *)
(* the triggers and the clearing of new_tracking, new_flush, which tells   *)
(* the front-end when the task group of a sync has ended, and the syncs    *)
(* and changes of messages that set them off.                              *)
(*                                                                         *)
(* A trigger runs inside the transaction of the task that fires it, so     *)
(* messages and newness are written together.  That a flush is due once a  *)
(* group ends is known in memory only.  Any task may go next.              *)
(***************************************************************************)
EXTENDS Integers, FiniteSets

CONSTANTS
    Mails,
    DateOf,       \* the date of each message
    MaxSyncs, MaxChanges, MaxClears, MaxCrashes  \* bounds

VARIABLES
    (* on disk *)
    mail,         \* of each message: unknown, unread, read, or out of the inbox
    jobs,         \* sync_message tasks
    pendingDate,  \* persistentState.  Its compareDate is written and never read.
    newByConv,    \* the messages in it
    flushTask,    \* a new_flush task is queued
    clearTask,    \* a new_tracking task is queued: none, loud, silent
    (* in memory *)
    group,        \* of the jobs of the syncs that run: its id, members, flush due at its end
    alone,        \* a task without a group has made a group with a flush due
    pendingTaskGroupId,
    (* the front-end *)
    told,
    (* history *)
    arrived,      \* messages that arrived unread
    untouched,    \* those of them that were not changed or cleared since
    lost,         \* a process ended with a flush due
    unseen,       \* a silent clear took what had been told after it was asked for
    used

newOnDisk == <<mail, jobs, pendingDate, newByConv, flushTask, clearTask>>
newVars   == <<newOnDisk, group, alone, pendingTaskGroupId, told, arrived, untouched, lost, unseen, used>>

NoGroup == 0   \* null, the id of a task without a group

GroupOf(m) == IF m \in group.members THEN group.id ELSE NoGroup

\* ensureRootTaskGroupFollowOnTask: the flush waits for the group of the task, or
\* for the task itself.
FollowOn(id) ==
    IF id = NoGroup THEN alone' = TRUE ELSE group' = [group EXCEPT !.flush = TRUE]

-----------------------------------------------------------------------------
(* Syncs. *)

\* A refresh queues a task for each message it finds; one that comes while the
\* group of another is still there joins it.
Refresh(found) ==
    /\ used.syncs < MaxSyncs /\ used' = [used EXCEPT !.syncs = @ + 1]
    /\ found # {} /\ \A m \in found : mail[m] = "unknown" /\ m \notin jobs
    /\ jobs' = jobs \cup found
    /\ group' = IF group.members = {} /\ ~group.flush
                THEN [id |-> group.id + 1, members |-> found, flush |-> FALSE]
                ELSE [group EXCEPT !.members = @ \cup found]
    /\ UNCHANGED <<mail, pendingDate, newByConv, flushTask, clearTask, alone, pendingTaskGroupId,
                   told, arrived, untouched, lost, unseen>>

\* sync_message, with the trigger for added messages: newness is decided by the
\* newest date so far, also of this sync.
AddMessage(m, unread) ==
    /\ m \in jobs /\ jobs' = jobs \ {m}
    /\ mail' = [mail EXCEPT ![m] = IF unread THEN "unread" ELSE "read"]
    /\ LET id    == GroupOf(m)
           left  == [group EXCEPT !.members = @ \ {m}]
           isNew == DateOf[m] >= pendingDate
       IN  IF unread
           THEN /\ arrived' = arrived \cup {m} /\ untouched' = untouched \cup {m}
                /\ pendingTaskGroupId' = id
                /\ newByConv'   = IF isNew THEN newByConv \cup {m} ELSE newByConv
                /\ pendingDate' = IF isNew THEN DateOf[m] ELSE pendingDate
                /\ IF ~isNew /\ id = pendingTaskGroupId THEN group' = left /\ UNCHANGED alone
                   ELSE IF id = NoGroup THEN alone' = TRUE /\ group' = left
                   ELSE group' = [left EXCEPT !.flush = TRUE] /\ UNCHANGED alone
           ELSE /\ group' = left
                /\ UNCHANGED <<arrived, untouched, pendingTaskGroupId, newByConv, pendingDate, alone>>
    /\ UNCHANGED <<flushTask, clearTask, told, lost, unseen, used>>

\* Mutant of Change: only what leaves the inbox is taken for no longer new.
ChangeKeepsRead(m, to, id) ==
    /\ used.changes < MaxChanges /\ used' = [used EXCEPT !.changes = @ + 1]
    /\ mail[m] \notin {"unknown", to}
    /\ mail' = [mail EXCEPT ![m] = to]
    /\ untouched' = untouched \ {m}
    /\ IF to = "out" /\ m \in newByConv
       THEN newByConv' = newByConv \ {m} /\ FollowOn(id)
            /\ IF id = NoGroup THEN UNCHANGED group ELSE UNCHANGED alone
       ELSE UNCHANGED <<newByConv, group, alone>>
    /\ UNCHANGED <<jobs, pendingDate, flushTask, clearTask, pendingTaskGroupId, told, arrived, lost, unseen>>

\* Any task that changes a message, in the group of a sync or in none, with the
\* trigger for changed messages.  What is unread again, or back, is not new.
Change(m, to, id) ==
    /\ used.changes < MaxChanges /\ used' = [used EXCEPT !.changes = @ + 1]
    /\ mail[m] \notin {"unknown", to}
    /\ mail' = [mail EXCEPT ![m] = to]
    /\ untouched' = untouched \ {m}
    /\ IF to # "unread" /\ m \in newByConv
       THEN newByConv' = newByConv \ {m} /\ FollowOn(id)
            /\ IF id = NoGroup THEN UNCHANGED group ELSE UNCHANGED alone
       ELSE UNCHANGED <<newByConv, group, alone>>
    /\ UNCHANGED <<jobs, pendingDate, flushTask, clearTask, pendingTaskGroupId, told, arrived, lost, unseen>>

-----------------------------------------------------------------------------
(* The end of groups, the flush, and the clearing. *)

\* _decrementGroupPendingCount: scheduleTasks writes the flush that was due.
GroupEnds ==
    /\ \/ group.flush /\ group.members = {} /\ group' = [group EXCEPT !.flush = FALSE] /\ UNCHANGED alone
       \/ alone /\ alone' = FALSE /\ UNCHANGED group
    /\ flushTask' = TRUE
    /\ UNCHANGED <<mail, jobs, pendingDate, newByConv, clearTask, pendingTaskGroupId, told, arrived,
                   untouched, lost, unseen, used>>

\* new_flush consults new_tracking and broadcasts.
Flush ==
    /\ flushTask /\ flushTask' = FALSE
    /\ told' = newByConv /\ lost' = FALSE /\ unseen' = FALSE
    /\ UNCHANGED <<mail, jobs, pendingDate, newByConv, clearTask, group, alone, pendingTaskGroupId,
                   arrived, untouched, used>>

\* The user has seen it all.  Silent: the front-end has cleared it already.
AskClear(how) ==
    /\ used.clears < MaxClears /\ used' = [used EXCEPT !.clears = @ + 1]
    /\ clearTask = "none" /\ clearTask' = how
    /\ told' = IF how = "silent" THEN {} ELSE told
    /\ UNCHANGED <<mail, jobs, pendingDate, newByConv, flushTask, group, alone, pendingTaskGroupId,
                   arrived, untouched, lost, unseen>>

\* plan: with nothing tracked there is nothing to write, and nothing to flush.
Clear ==
    /\ clearTask # "none" /\ clearTask' = "none"
    /\ IF newByConv = {} THEN UNCHANGED <<newByConv, flushTask, untouched, unseen>>
       ELSE /\ newByConv' = {} /\ untouched' = {}
            /\ flushTask' = (flushTask \/ clearTask = "loud")
            /\ unseen' = (unseen \/ (clearTask = "silent" /\ told # {}))
    /\ UNCHANGED <<mail, jobs, pendingDate, group, alone, pendingTaskGroupId, told, arrived, lost, used>>

\* The process ends and starts; the tasks that are queued are taken up without a group.
Restart ==
    /\ used.crashes < MaxCrashes /\ used' = [used EXCEPT !.crashes = @ + 1]
    /\ group' = [group EXCEPT !.members = {}, !.flush = FALSE] /\ alone' = FALSE
    /\ pendingTaskGroupId' = NoGroup
    /\ lost' = (lost \/ alone \/ group.flush)
    /\ UNCHANGED <<newOnDisk, told, arrived, untouched, unseen>>

-----------------------------------------------------------------------------
NewInit ==
    /\ mail = [m \in Mails |-> "unknown"] /\ jobs = {}
    /\ pendingDate = 0 /\ newByConv = {} /\ flushTask = FALSE /\ clearTask = "none"
    /\ group = [id |-> NoGroup, members |-> {}, flush |-> FALSE] /\ alone = FALSE
    /\ pendingTaskGroupId = NoGroup /\ told = {}
    /\ arrived = {} /\ untouched = {} /\ lost = FALSE /\ unseen = FALSE
    /\ used = [syncs |-> 0, changes |-> 0, clears |-> 0, crashes |-> 0]

NewNext ==
    \/ \E found \in SUBSET Mails : Refresh(found)
    \/ \E m \in Mails, unread \in BOOLEAN : AddMessage(m, unread)
    \/ \E m \in Mails, to \in {"unread", "read", "out"} :
         \/ Change(m, to, NoGroup)
         \/ group.members # {} /\ Change(m, to, group.id)
    \/ GroupEnds \/ Flush
    \/ \E how \in {"loud", "silent"} : AskClear(how)
    \/ Clear
    \/ Restart

NewSpec == NewInit /\ [][NewNext]_newVars

-----------------------------------------------------------------------------
(* Properties. *)

\* What is tracked as new is unread and in the inbox, however it was synced,
\* changed, cleared and written; and a message that is as new as any that arrived
\* is tracked until it is changed or cleared.
NewIsUnread ==
    /\ \A m \in newByConv : mail[m] = "unread"
    /\ \A m \in untouched : (\A o \in arrived : DateOf[o] <= DateOf[m]) => m \in newByConv

\* What the user was told is what is tracked, or a flush is coming that will say
\* so, unless the process ended with the flush due or a silent clear overtook it.
ToldIsTracked ==
    told = newByConv \/ flushTask \/ alone \/ group.flush \/ lost \/ unseen
                     \/ clearTask = "silent"

=============================================================================
