------------------------------- MODULE Requests -------------------------------
(***************************************************************************)
(* What the client asks the back end for and waits for an answer to        *)
(* (MailAPI._sendPromisedRequest and its callers): the commands of the     *)
(* bridge, the methods of MailUniverse they call, the promises of the      *)
(* TaskManager that these wait for, and the account tasks.  An answer is   *)
(* owed whatever the manager is doing when the request comes, and whether  *)
(* or not the tasks behind it succeed.  Deleting an account and making it  *)
(* again, which nobody waits for, share the tasks and the manager.         *)
(*                                                                         *)
(* The manager has one task under way at a time.  The parts of one turn of *)
(* the event loop that follow a settled promise are steps of their own,    *)
(* microtasks, and nothing else happens in between.  A message to the      *)
(* bridge is heard as it is sent: nothing looks at the client until then.  *)
(***************************************************************************)
EXTENDS Naturals, Sequences, FiniteSets, SequencesExt

CONSTANTS
    None,
    MaxAsked,      \* bound: requests
    MaxTroubles    \* bound: tasks that fail, and crashes

Handles == 1..MaxAsked

\* The task that comes first.  "change" stands for each request that waits for a
\* plan: account and identity changes, downloads, messages sent; "strange" is one
\* of a type that the engine of the account has no task for; "pause" pauses the
\* outbox.  "unheard" is what the bridge knows no command for, cannot do, or drops
\* the handle of: configuration, logs, problems to clear, drafts saved or deleted.
TypeOf == [learn |-> "account_autoconfig", autocreate |-> "account_autoconfig", create |-> "account_create",
           draft |-> "draft_create", change |-> "account_modify", strange |-> "download",
           pause |-> "outbox_send", delete |-> "account_delete", recreate |-> "account_delete"]

Commands == DOMAIN TypeOf \cup {"ping", "unheard"}

\* scheduleTasks; the other tasks are not persistent.
Persistent == {"change", "strange", "pause", "delete", "recreate"}
Unawaited  == {"delete", "recreate"}       \* sent without a handle
Executed   == {"account_autoconfig", "account_create", "account_delete"}
Data       == {"done", "nothing", "account", "error", "need-password"}

Task == [for : Handles, type : {TypeOf[k] : k \in DOMAIN TypeOf} \cup {"account_migrate"}]

VARIABLES
    asked,         \* the requests, by handle
    unanswered,    \* _pendingRequests
    timers,        \* pings that are not sent yet
    answers,       \* messages on their way to the client
    writes,        \* tasks whose records are being written
    toPlan,        \* _tasksToPlan
    prioritized,   \* planned tasks
    active,        \* the task under way and its stage
    listening,     \* tasks whose end has a listener
    microtasks,    \* what is left of the turn
    account,       \* there is the account
    latched,       \* requests to make it again that hold its definition
    made,          \* requests that made an account
    (* history *)
    wish,          \* what was last asked for the account
    crossed,       \* deleted while it was being made again, or made again while it was being deleted
    torn,          \* a crash while that was under way
    failed,        \* requests with a task that failed, and the stage it was in
    eager,         \* requests whose task was moot and planned at once
    reloads

client  == <<asked, unanswered, timers>>
manager == <<toPlan, prioritized, active, listening, microtasks>>
ours    == <<account, latched, made>>
story   == <<wish, crossed, torn, failed, eager, reloads>>
requestVars == <<client, answers, writes, manager, ours, story>>

RequestsTypeOK ==
    /\ asked \in Seq(Commands) /\ unanswered \subseteq Handles /\ timers \subseteq unanswered
    /\ answers \in Seq([handle : Handles, data : Data])
    /\ writes \in Seq(Task) /\ toPlan \in Seq(Task) /\ prioritized \subseteq Task /\ listening \subseteq Task
    /\ active \in {None} \cup [task : Task, stage : {"plan", "execute"}]
    /\ microtasks \in Seq([task : Task, at : {"queued", "settled"}, data : Data])
    /\ {account, wish, crossed, torn} \subseteq BOOLEAN
    /\ {latched, made, eager} \subseteq SUBSET Handles
    /\ failed \subseteq Handles \X {"plan", "execute"} /\ reloads \in 0..MaxTroubles

\* planTask finds no task of its type for the account.
Moot(t) == t.type = TypeOf.strange

\* The end of a task that someone waits for: scheduleTaskAndWaitFor...
Awaited(t) ==
    asked[t.for] \in {"learn", "autocreate", "create", "draft", "change", "strange"}
    \/ (asked[t.for] = "recreate" /\ t.type = "account_delete")

Reply(h, data) == answers' = Append(answers, [handle |-> h, data |-> data])
\* Mutant of Settled: nothing is emitted when a task fails.
SettledIfGood(t, data, ears) ==
    IF t \in ears /\ data # "nothing" THEN <<[task |-> t, at |-> "settled", data |-> data]>> ELSE << >>
Settled(t, data, ears) ==
    IF t \in ears THEN <<[task |-> t, at |-> "settled", data |-> data]>> ELSE << >>

-----------------------------------------------------------------------------
(* The task manager. *)

\* _maybeDoStuff with nothing under way.  A moot plan is over at once, heard or
\* not, and it is left to a timer to look again.
MaybeDoStuff(queue, ready, ears, turn) ==
    \/ /\ queue # << >> /\ toPlan' = Tail(queue) /\ prioritized' = ready
       /\ LET t == Head(queue) IN
          IF Moot(t)
          THEN active' = None /\ microtasks' = turn \o Settled(t, "nothing", ears) /\ listening' = ears \ {t}
          ELSE active' = [task |-> t, stage |-> "plan"] /\ microtasks' = turn /\ listening' = ears
    \/ /\ queue = << >> /\ toPlan' = << >> /\ microtasks' = turn /\ listening' = ears
       /\ IF ready = {} THEN active' = None /\ prioritized' = {}
          ELSE \E t \in ready : active' = [task |-> t, stage |-> "execute"] /\ prioritized' = ready \ {t}

\* __enqueuePersistedTasksForPlanning; the promise of who scheduled the task is
\* settled after that.
Enqueue(t) ==
    LET turn == Append(microtasks, [task |-> t, at |-> "queued", data |-> "done"])
        rest == IF microtasks = << >> THEN turn ELSE Tail(turn)
    IN  IF active # None
        THEN toPlan' = Append(toPlan, t) /\ microtasks' = rest /\ UNCHANGED <<prioritized, active, listening>>
        ELSE MaybeDoStuff(Append(toPlan, t), prioritized, listening, rest)

\* addTasks is done, and scheduleTasks goes on.
Written ==
    /\ microtasks = << >> /\ writes # << >>
    /\ writes' = Tail(writes)
    /\ Enqueue(Head(writes))
    /\ eager' = IF Moot(Head(writes)) /\ active = None /\ toPlan = << >>
                THEN eager \cup {Head(writes).for} ELSE eager
    /\ UNCHANGED <<client, answers, ours, wish, crossed, torn, failed, reloads>>

\* The timer after a moot plan, and the start after a boot.
LooksAgain ==
    /\ microtasks = << >> /\ active = None /\ (toPlan # << >> \/ prioritized # {})
    /\ MaybeDoStuff(toPlan, prioritized, listening, << >>)
    /\ UNCHANGED <<client, answers, writes, ours, story>>

Trouble == Cardinality(failed) + reloads < MaxTroubles

Fails(t) ==
    /\ Trouble
    /\ failed' = failed \cup {<<t.for, active.stage>>}

\* account_migrate is all plan, and fails without a definition.
Remakes(t) == t.type = "account_migrate" /\ t.for \in latched

\* A plan is carried out, or fails; for that of a task with an execute stage
\* nobody waits.
Planned(ok) ==
    /\ microtasks = << >> /\ active # None /\ active.stage = "plan"
    /\ LET t == active.task
           heard == t.type \notin Executed
       IN  /\ IF ok THEN UNCHANGED failed ELSE Fails(t)
           /\ account' = (account \/ (ok /\ Remakes(t)))
           /\ MaybeDoStuff(toPlan,
                           IF ok /\ t.type \in Executed THEN prioritized \cup {t} ELSE prioritized,
                           IF heard THEN listening \ {t} ELSE listening,
                           IF heard THEN Settled(t, IF ok THEN "done" ELSE "nothing", listening) ELSE << >>)
    /\ UNCHANGED <<client, answers, writes, latched, made, wish, crossed, torn, eager, reloads>>

\* What executing a task of some type may come to.
Outcomes == [account_autoconfig |-> {"need-password", "error"}, account_create |-> {"account", "error"},
             account_delete |-> {"done"}]

Deletes(t, data) == t.type = "account_delete" /\ data = "done"

\* A task is executed; if that fails whoever listens gets null.
TaskExecuted(data) ==
    /\ microtasks = << >> /\ active # None /\ active.stage = "execute"
    /\ LET t == active.task IN
       /\ data \in Outcomes[t.type] \cup {"nothing"}
       /\ IF data = "nothing" THEN Fails(t) ELSE UNCHANGED failed
       /\ account' = (account /\ ~Deletes(t, data))
       /\ made' = IF data = "account" THEN made \cup {t.for} ELSE made
       /\ MaybeDoStuff(toPlan, prioritized, listening \ {t}, Settled(t, data, listening))
    /\ UNCHANGED <<client, answers, writes, latched, wish, crossed, torn, eager, reloads>>

-----------------------------------------------------------------------------
(* The client, the bridge and the universe. *)

InPlay ==
    Range(writes) \cup Range(toPlan) \cup prioritized \cup (IF active = None THEN {} ELSE {active.task})
    \cup {microtasks[i].task : i \in DOMAIN microtasks}

UnderWay(k) == \E t \in InPlay : asked[t.for] = k

\* The bridge drops it, and nobody answers.
Unheard(k) == k = "unheard"

\* An account is not created offline.
Refused(k, online) == k \in {"create", "autocreate"} /\ ~online

\* _sendPromisedRequest, and what the bridge does about it; the account to make
\* again is looked up at once.
Ask(k, online) ==
    /\ microtasks = << >> /\ Len(asked) < MaxAsked /\ k # "ping"
    /\ LET h == Len(asked) + 1 IN
       /\ asked' = Append(asked, k)
       /\ unanswered' = IF k \in Unawaited THEN unanswered ELSE unanswered \cup {h}
       /\ \/ Unheard(k) /\ UNCHANGED <<answers, writes, manager>>
          \/ /\ Refused(k, online) /\ Reply(h, "error")
             /\ UNCHANGED <<writes, manager>>
          \/ /\ k \in {"learn", "create", "autocreate", "draft"} /\ ~Refused(k, online)
             /\ Enqueue([for |-> h, type |-> TypeOf[k]])
             /\ UNCHANGED <<answers, writes>>
          \/ /\ k \in Persistent
             /\ writes' = Append(writes, [for |-> h, type |-> TypeOf[k]])
             /\ UNCHANGED <<answers, manager>>
       /\ latched' = IF k = "recreate" /\ account THEN latched \cup {h} ELSE latched
    /\ wish' = IF k = "delete" THEN FALSE ELSE wish \/ (k = "recreate" /\ account)
    /\ crossed' = \/ crossed
                  \/ k = "delete" /\ UnderWay("recreate")
                  \/ k = "recreate" /\ (UnderWay("delete") \/ wish # account)
    /\ UNCHANGED <<timers, account, made, torn, failed, eager, reloads>>

\* A ping waits for a timer before it is sent, and its pong for nothing.
Ping ==
    /\ microtasks = << >> /\ Len(asked) < MaxAsked
    /\ LET h == Len(asked) + 1 IN
       asked' = Append(asked, "ping") /\ unanswered' = unanswered \cup {h} /\ timers' = timers \cup {h}
    /\ UNCHANGED <<answers, writes, manager, ours, story>>

PingSent(h) ==
    /\ microtasks = << >> /\ h \in timers
    /\ timers' = timers \ {h} /\ Reply(h, "done")
    /\ UNCHANGED <<asked, unanswered, writes, manager, ours, story>>

\* _recv_promisedResult, _recv_pong.
Answered ==
    /\ microtasks = << >> /\ answers # << >>
    /\ unanswered' = unanswered \ {Head(answers).handle} /\ answers' = Tail(answers)
    /\ UNCHANGED <<asked, timers, writes, manager, ours, story>>

\* Pausing the outbox is done once its task is queued.
AnswersAtOnce(k) == k = "pause"

\* The promise of scheduleTasks is settled: who waits for more registers a
\* listener now, who waits for no more answers.
GoesOn ==
    /\ microtasks # << >> /\ Head(microtasks).at = "queued"
    /\ LET t == Head(microtasks).task IN
       /\ listening' = IF Awaited(t) THEN listening \cup {t} ELSE listening
       /\ IF AnswersAtOnce(asked[t.for]) THEN Reply(t.for, "done") ELSE UNCHANGED answers
    /\ microtasks' = Tail(microtasks)
    /\ UNCHANGED <<client, writes, toPlan, prioritized, active, ours, story>>

\* An account is made of what autoconfiguration found.
Chains(k, data) == k = "autocreate" /\ data = "need-password"

\* A null where a result is taken apart is an exception that nobody sees.
Throws(k, data) == k \in {"create", "autocreate", "draft"} /\ data = "nothing"

\* Of a plan no more is told than that it is over.
Says(k, data) == IF k \in {"change", "strange"} THEN "done" ELSE data

\* The end of a task is heard; the account is made again whether it was deleted or
\* not.
Concludes ==
    /\ microtasks # << >> /\ Head(microtasks).at = "settled"
    /\ LET t == Head(microtasks).task
           h == t.for
           k == asked[h]
           data == Head(microtasks).data
       IN  IF k = "recreate"
           THEN /\ writes' = Append(writes, [for |-> h, type |-> "account_migrate"])
                /\ microtasks' = Tail(microtasks)
                /\ UNCHANGED <<answers, toPlan, prioritized, active, listening>>
           ELSE IF Chains(k, data)
           THEN Enqueue([for |-> h, type |-> "account_create"]) /\ UNCHANGED <<answers, writes>>
           ELSE /\ IF Throws(k, data) THEN UNCHANGED answers
                   ELSE Reply(h, Says(k, data))
                /\ microtasks' = Tail(microtasks)
                /\ UNCHANGED <<writes, toPlan, prioritized, active, listening>>
    /\ UNCHANGED <<client, ours, story>>

\* Both sides are gone.  What was written of the raw tasks is planned after the
\* boot; of a planned task there is no record.  That of a moot one stays, and it
\* is moot again after each boot, when nobody waits for it.
Crash ==
    /\ microtasks = << >> /\ Trouble /\ reloads' = reloads + 1
    /\ LET planning == IF active # None /\ active.stage = "plan" THEN <<active.task>> ELSE << >>
           Kept(t) == asked[t.for] \in Persistent
       IN  \E n \in 0..Len(writes) :
              toPlan' = SelectSeq(planning \o toPlan \o SubSeq(writes, 1, n), Kept)
    /\ unanswered' = {} /\ timers' = {} /\ answers' = << >>
    /\ writes' = << >> /\ prioritized' = {} /\ active' = None /\ listening' = {} /\ microtasks' = << >>
    /\ torn' = (torn \/ UnderWay("delete") \/ UnderWay("recreate"))
    /\ UNCHANGED <<asked, ours, wish, crossed, failed, eager>>

-----------------------------------------------------------------------------
RequestsInit ==
    /\ asked = << >> /\ unanswered = {} /\ timers = {} /\ answers = << >>
    /\ writes = << >> /\ toPlan = << >> /\ prioritized = {} /\ active = None
    /\ listening = {} /\ microtasks = << >>
    /\ account = TRUE /\ latched = {} /\ made = {}
    /\ wish = TRUE /\ crossed = FALSE /\ torn = FALSE /\ failed = {} /\ eager = {} /\ reloads = 0

RequestsNext ==
    \/ \E k \in Commands : \E online \in {TRUE, ~Refused(k, FALSE)} : Ask(k, online)
    \/ \E h \in Handles : PingSent(h)
    \/ \E ok \in BOOLEAN : Planned(ok)
    \/ \E data \in Data : TaskExecuted(data)
    \/ Written \/ LooksAgain \/ GoesOn \/ Concludes \/ Ping \/ Answered \/ Crash

RequestsSpec == RequestsInit /\ [][RequestsNext]_requestVars

-----------------------------------------------------------------------------
(* Properties. *)

\* The end of the task is still to come, and someone hears of it then.
WillSpeak(t) ==
    \/ t \in Range(writes) \/ \E i \in DOMAIN microtasks : microtasks[i].task = t
    \/ t \in listening /\ t \in Range(toPlan) \cup prioritized
    \/ t \in listening /\ active # None /\ active.task = t

WillAnswer(h) == h \in timers \/ \E t \in InPlay : t.for = h /\ WillSpeak(t)

\* The exceptions: requests that nobody serves; results that are taken apart
\* although the task failed; tasks that fail to be planned while their execution is
\* waited for; and moot tasks that are planned before anyone listens.
Excused(h) ==
    \/ Unheard(asked[h])
    \/ asked[h] \in {"create", "autocreate", "draft"} /\ \E stage \in {"plan", "execute"} : <<h, stage>> \in failed
    \/ asked[h] = "learn" /\ <<h, "plan">> \in failed
    \/ asked[h] = "strange" /\ h \in eager

\* Whoever waits gets an answer (mailapi.js:347): a request that has none has
\* something under way that will give it, unless it is excused, and an account
\* that was made is always told of.
EachIsAnswered ==
    \A h \in unanswered :
        \/ WillAnswer(h) \/ \E i \in DOMAIN answers : answers[i].handle = h
        \/ Excused(h) /\ h \notin made

\* An answer comes once and to one who waits, and says an account was made just
\* if one was; it says nothing only if a task failed.
AnswersAreTrue ==
    \A i \in DOMAIN answers :
        LET h == answers[i].handle IN
        /\ h \in unanswered /\ ~WillAnswer(h)
        /\ \A j \in DOMAIN answers : answers[j].handle = h => j = i
        /\ (answers[i].data = "account") <=> (h \in made)
        /\ answers[i].data = "nothing" => <<h, "execute">> \in failed

\* When all is done the account is there or not as was last asked for, unless
\* that failed, crossed an earlier request or was cut off by a crash.
LastWishHolds ==
    InPlay = {} /\ ~crossed /\ ~torn
    /\ (\A f \in failed : asked[f[1]] \notin Unawaited)
    => account = wish

RequestsInStep == EachIsAnswered /\ AnswersAreTrue /\ LastWishHolds
=============================================================================
