----------------------------- MODULE TaskGroups -----------------------------
(***************************************************************************)
(* TaskGroupTracker: groups of tasks and of the tasks they spawn, told by   *)
(* TaskManager's events what is queued and done.  A group resolves a       *)
(* promise, and schedules a follow-on task, when its last member is done.   *)
(* One job runs at a time (see TaskManager), so a job is one action here.   *)
(***************************************************************************)
EXTENDS Naturals, Sequences, FiniteSets, SequencesExt

CONSTANTS
    Bins,        \* tasks that issue a marker and track a group of their own
    Reissued,    \* those whose plan issues the marker again if it is there
    Simple,      \* simple tasks: planned, then executed under the same id
    PlanOnly,    \* tasks that are done once they are planned
    Spawns,      \* what the execution (or the only plan) of a kind may spawn
    Requests,    \* what users ask for
    Follow,      \* the task that follows on a root group (new_flush)
    None,        \* the name of an "ensured:" group, which nobody looks up
    Restored,    \* bins that may be planned when the process starts
    MaxTasks,    \* bound: tasks requested or spawned
    MaxNotices   \* bound: jobs that ask for the follow-on task

Kinds == Bins \cup Simple \cup PlanOnly

ASSUME TaskGroupsAssumption ==
    /\ Bins \cap Simple = {} /\ PlanOnly \cap (Bins \cup Simple) = {}
    /\ IsFiniteSet(Kinds) /\ Bins \cap Nat = {}
    /\ Reissued \subseteq Bins /\ Restored \subseteq Bins
    /\ Requests \subseteq Kinds /\ Follow \in Kinds
    /\ Spawns \in [Kinds -> SUBSET Kinds]
    /\ None \notin Bins
    /\ {MaxTasks, MaxNotices} \subseteq Nat

VARIABLES
    issued,    \* number of tasks issued so far: a task is its number
    kind,      \* kind of each outstanding task
    adding,    \* tasks whose record addTasks is writing
    queue,     \* _tasksToPlan
    heap,      \* what awaits execution: simple tasks, and markers (bins)
    planned,   \* bins that count as planned
    tracker,   \* TaskGroupTracker: groups, _groupsByName, _taskIdsToGroups, ...
    belongs,   \* history: the groups that each outstanding thing is part of
    leaky,     \* history: groups that count something they will not hear of
    notices    \* how much of MaxNotices is spent

vars == <<issued, kind, adding, queue, heap, planned, tracker, belongs, leaky, notices>>

Tasks == DOMAIN kind
Gids  == DOMAIN tracker.groups

Group == [name : Bins \cup {None}, pending : Nat, parent : Nat,
          resolved : BOOLEAN, follow : BOOLEAN]

TypeOK ==
    /\ issued \in Nat
    /\ Tasks \subseteq 1..issued /\ Range(kind) \subseteq Kinds
    /\ adding \in Seq(Tasks) /\ queue \in Seq(Tasks)
    /\ heap \subseteq Bins \cup Tasks /\ planned \subseteq Bins
    /\ tracker.groups \in Seq(Group)
    /\ \A g \in Gids : tracker.groups[g].parent \in Gids \cup {0}
    /\ DOMAIN tracker.named \subseteq Bins /\ Range(tracker.named) \subseteq Gids
    /\ DOMAIN tracker.owner \subseteq heap \cup Range(queue)
    /\ Range(tracker.owner) \subseteq Gids
    /\ tracker.reuses = {}
    /\ DOMAIN belongs = heap \cup Range(queue) \cup Range(adding)
    /\ leaky \subseteq Gids
    /\ notices \in 0..MaxNotices

-----------------------------------------------------------------------------
(* TaskGroupTracker, as functions from one state T of it to the next.       *)

OwnerOf(T, x) == IF x \in DOMAIN T.owner THEN T.owner[x] ELSE 0

Without(f, x) == [y \in DOMAIN f \ {x} |-> f[y]]
With(f, x, v) == [y \in DOMAIN f \cup {x} |-> IF y = x THEN v ELSE f[y]]
Over(f, e)    == [y \in DOMAIN e \cup DOMAIN f |-> IF y \in DOMAIN e THEN e[y] ELSE f[y]]

\* _makeTaskGroup.
Make(T, name) ==
    [T EXCEPT !.groups = Append(@, [name |-> name, pending |-> 0, parent |-> 0,
                                    resolved |-> FALSE, follow |-> FALSE]),
              !.named = IF name = None THEN @ ELSE With(@, name, Len(T.groups) + 1)]

\* Group r, now contained in p, has one more thing to wait for.
Under(r, p) == [r EXCEPT !.parent = p, !.pending = r.pending + 1]

\* _ensureNamedTaskGroup: the group takes the place of task x in the group
\* that owned x, and counts x itself.
EnsureNamed(T, name, x) ==
    LET U   == IF name \in DOMAIN T.named THEN T ELSE Make(T, name)
        g   == IF name \in DOMAIN T.named THEN T.named[name] ELSE Len(U.groups)
        own == OwnerOf(T, x)
        r   == U.groups[g]
    IN [U EXCEPT !.groups[g] = Under(r, IF own = g THEN r.parent ELSE own),
                 !.owner = With(U.owner, x, g)]

\* Group g and the groups that contain it, climbing through groups of C only:
\* the least set with g that has the parents in C of its groups.
Up(T, g, C) ==
    {h \in C : /\ g \in C
               /\ \A S \in SUBSET C :
                     g \in S /\ (\A k \in S : T.groups[k].parent \notin C \ S) => h \in S}

\* The groups that are open, and those that wait for one more thing.
Open(T) == {h \in DOMAIN T.groups : ~T.groups[h].resolved}
Ending(T) == {h \in DOMAIN T.groups : T.groups[h].pending = 1}

\* Group g and the groups that contain it.
Path(T, g) == Up(T, g, Open(T))

\* getRootTaskGroupForTask.
Root(T, g) == CHOOSE h \in Path(T, g) : T.groups[h].parent = 0

\* ensureRootTaskGroupFollowOnTask.
EnsureFollowOn(T, x) ==
    LET U == IF x \in DOMAIN T.owner THEN T ELSE EnsureNamed(T, None, x)
    IN [U EXCEPT !.groups[Root(U, U.owner[x])].follow = TRUE]

\* _onWillPlan: spawned tasks join the group of what spawned them.
OnWillPlan(T, spawned, source) ==
    IF source \notin DOMAIN T.owner THEN T
    ELSE [T EXCEPT !.groups[T.owner[source]].pending = @ + Cardinality(spawned),
                   !.owner = Over(@, [y \in spawned |-> T.owner[source]])]

\* _onWillExecute: so does a marker; a simple task stays in under its own id.
OnWillExecute(T, x, source) ==
    IF source \notin DOMAIN T.owner THEN T
    ELSE IF x = source THEN [T EXCEPT !.reuses = @ \cup {x}]
    ELSE [T EXCEPT !.groups[T.owner[source]].pending = @ + 1,
                   !.owner = With(@, x, T.owner[source])]

\* Mutant of Completes: a group that is done does not tell its parent.
CompletesAlone(T, g) == {}

\* The groups that are done when group g has one thing less to wait for: g if it
\* waits for nothing else, then its parent if that waits for nothing else ...
Completes(T, g) == Up(T, g, Ending(T))

\* Group r has one thing less to wait for, and is done if it waits for nothing else.
Ended(r) == [r EXCEPT !.pending = r.pending - 1, !.resolved = (r.pending = 1)]

\* _decrementGroupPendingCount: a group that is done is done in its parent.
Decrement(T, g) ==
    LET done == Completes(T, g)
        less == {g} \cup {T.groups[h].parent : h \in done}
    IN [T EXCEPT
          !.groups = [h \in DOMAIN T.groups |->
                        IF h \in less THEN Ended(T.groups[h]) ELSE T.groups[h]],
          !.named = [b \in {c \in DOMAIN T.named : T.named[c] \notin done} |-> T.named[b]]]

\* _onExecuted, and _onPlanned when the id is not used again.
OnExecuted(T, x) ==
    IF x \notin DOMAIN T.owner THEN T
    ELSE Decrement([T EXCEPT !.owner = Without(@, x)], T.owner[x])

\* Mutant of OnPlanned: forgets that a simple task goes on under its id.
OnPlannedAnyway(T, x) == OnExecuted([T EXCEPT !.reuses = @ \ {x}], x)

OnPlanned(T, x) ==
    IF x \in T.reuses THEN [T EXCEPT !.reuses = @ \ {x}] ELSE OnExecuted(T, x)

-----------------------------------------------------------------------------
(* What a job leaves behind.                                               *)

\* What x is part of, in the state T it brought the tracker to.
Membership(T, x) == belongs[x] \cup ({OwnerOf(T, x)} \ {0})

\* The ids of the next n tasks after the first i.
Fresh(i, n) == [k \in 1..n |-> i + k]

\* Job x has brought the tracker to T and now spawns tasks of the kinds in
\* spawned; event is what ends the job, and kept is what stays of it.
\* A group that resolves schedules its follow-on task.
Ends(x, T, spawned, event, waiting, kept) ==
    LET kinds == SetToSeq(spawned)
        new   == Fresh(issued, Cardinality(spawned))
    IN \E told \in {OnWillPlan(T, Range(new), x)} :
       \E end \in {IF event = "planned" THEN OnPlanned(told, x) ELSE OnExecuted(told, x)} :
         LET due  == {g \in DOMAIN end.groups :
                        end.groups[g].follow /\ end.groups[g].resolved
                                             /\ ~told.groups[g].resolved}
             more == Fresh(issued + Len(new), Cardinality(due))
         IN /\ issued + Len(new) <= MaxTasks \/ spawned = {}
            /\ tracker' = end
            /\ issued' = issued + Len(new) + Len(more)
            /\ kind' = Over(IF x \in DOMAIN kept THEN kind ELSE Without(kind, x),
                            [y \in Range(new) \cup Range(more) |->
                                IF y \in Range(new) THEN kinds[y - issued] ELSE Follow])
            /\ adding' = adding \o more
            /\ queue' = waiting \o new
            /\ belongs' = Over(Over(Without(belongs, x), kept),
                               [y \in Range(new) \cup Range(more) |->
                                   IF y \in Range(new) THEN Membership(T, x) ELSE {}])

\* Joining a named group: its parent so far, or the group itself if x was in
\* it already, goes on counting what it will not hear of.
LeaksByJoining(T, name, x) ==
    IF name \notin DOMAIN T.named THEN {}
    ELSE LET g == T.named[name]
         IN IF OwnerOf(T, x) = g THEN {g} ELSE {T.groups[g].parent} \ {0}

\* A marker that is issued again is counted twice.
LeaksByReissue(T, x) == {OwnerOf(T, x)} \ {0}

\* The job may write something that asks for the follow-on task.
Notify(T, x, U) ==
    \/ U = T /\ UNCHANGED notices
    \/ /\ notices < MaxNotices /\ notices' = notices + 1
       /\ U = EnsureFollowOn(T, x)

-----------------------------------------------------------------------------
(* Jobs.                                                                   *)

\* scheduleTasks, once the record is written.
Request(k) ==
    /\ issued < MaxTasks
    /\ issued' = issued + 1
    /\ kind' = With(kind, issued + 1, k)
    /\ queue' = Append(queue, issued + 1)
    /\ belongs' = With(belongs, issued + 1, {})
    /\ UNCHANGED <<adding, heap, planned, tracker, leaky, notices>>

\* addTasks resolves for a follow-on task.
TaskAdded ==
    /\ adding # << >>
    /\ queue' = Append(queue, Head(adding)) /\ adding' = Tail(adding)
    /\ UNCHANGED <<issued, kind, heap, planned, tracker, belongs, leaky, notices>>

\* A simple task is planned: it awaits execution under the same id.
PlanSimple ==
    /\ queue # << >> /\ kind[Head(queue)] \in Simple
    /\ LET x == Head(queue)
       IN /\ Ends(x, OnWillExecute(tracker, x, x), {}, "planned", Tail(queue),
                  [y \in {x} |-> belongs[y]])
          /\ heap' = heap \cup {x}
    /\ UNCHANGED <<planned, leaky, notices>>

\* The plan is all there is to the task.
PlanAlone ==
    /\ queue # << >> /\ kind[Head(queue)] \in PlanOnly
    /\ LET x == Head(queue)
       IN \E T \in {tracker, EnsureFollowOn(tracker, x)} :
             /\ Notify(tracker, x, T)
             /\ \E S \in SUBSET Spawns[kind[x]] :
                   Ends(x, T, S, "planned", Tail(queue), << >>)
    /\ UNCHANGED <<heap, planned, leaky>>

\* The task turns out to be moot or fails before it tracks its group.
PlanMoot ==
    /\ queue # << >>
    /\ Ends(Head(queue), tracker, {}, "planned", Tail(queue), << >>)
    /\ UNCHANGED <<heap, planned, leaky, notices>>

\* helped_already_planned; or nothing new to do, or a failure, after tracking.
PlanJoins ==
    /\ queue # << >> /\ kind[Head(queue)] \in Bins
    /\ LET x == Head(queue)
           b == kind[x]
       IN /\ Ends(x, EnsureNamed(tracker, b, x), {}, "planned", Tail(queue), << >>)
          /\ leaky' = leaky \cup LeaksByJoining(tracker, b, x)
    /\ UNCHANGED <<heap, planned, notices>>

\* The task tracks its group and issues the marker of its bin.
PlanMarker ==
    /\ queue # << >> /\ kind[Head(queue)] \in Bins
    /\ LET x == Head(queue)
           b == kind[x]
           T == EnsureNamed(tracker, b, x)
       IN /\ b \notin planned \/ b \in Reissued
          /\ planned' = planned \cup {b}
          /\ heap' = heap \cup {b}
          /\ Ends(x, OnWillExecute(T, b, x), {}, "planned", Tail(queue),
                  [y \in {b} |-> Membership(T, x) \cup (IF b \in heap THEN belongs[b] ELSE {})])
          /\ leaky' = leaky \cup LeaksByJoining(tracker, b, x) \cup LeaksByReissue(T, b)
    /\ UNCHANGED notices

KindOf(x) == IF x \in Bins THEN x ELSE kind[x]

Execute(x) ==
    /\ queue = << >> /\ x \in heap
    /\ heap' = heap \ {x} /\ planned' = planned \ {x}
    /\ \E T \in {tracker, EnsureFollowOn(tracker, x)} :
          /\ Notify(tracker, x, T)
          /\ \E S \in SUBSET Spawns[KindOf(x)] :
                Ends(x, T, S, "executed", queue, << >>)
    /\ UNCHANGED leaky

\* The execution fails; a bin stays planned.
ExecuteFails(x) ==
    /\ queue = << >> /\ x \in heap
    /\ heap' = heap \ {x}
    /\ Ends(x, tracker, {}, "executed", queue, << >>)
    /\ UNCHANGED <<planned, leaky, notices>>

-----------------------------------------------------------------------------

\* The process has just started: markers may have been restored.
Init ==
    /\ issued = 0 /\ kind = << >> /\ adding = << >> /\ queue = << >>
    /\ planned \in SUBSET Restored /\ heap = planned
    /\ tracker = [groups |-> << >>, named |-> << >>, owner |-> << >>, reuses |-> {}]
    /\ belongs = [b \in planned |-> {}]
    /\ leaky = {} /\ notices = 0

Plan == PlanSimple \/ PlanAlone \/ PlanMoot \/ PlanJoins \/ PlanMarker

Run == \E x \in heap : Execute(x) \/ ExecuteFails(x)

Next == TaskAdded \/ Plan \/ Run \/ \E k \in Requests : Request(k)

Spec == Init /\ [][Next]_vars

\* Jobs are done as long as there are any and the resources they need are there.
FairSpec == Spec /\ WF_vars(TaskAdded \/ Plan \/ Run)

-----------------------------------------------------------------------------
(* Properties.                                                             *)

\* A group is not resolved while something that is part of it is outstanding:
\* the task that tracked it, its marker, whatever these spawn, and so on.
NotEarly ==
    \A x \in DOMAIN belongs : \A g \in belongs[x] : ~tracker.groups[g].resolved

Subgroups(T, g) == {h \in Open(T) : T.groups[h].parent = g}
Members(T, g)   == {x \in DOMAIN T.owner : T.owner[x] = g}
Heard(T, g)     == Cardinality(Members(T, g)) + Cardinality(Subgroups(T, g))

\* A group counts the things that are mapped to it and its open subgroups, and
\* more than these only if it lost track of one.
CountIsExact ==
    /\ TypeOK
    /\ \A g \in Gids : IF g \in leaky THEN tracker.groups[g].pending > Heard(tracker, g)
                                      ELSE tracker.groups[g].pending = Heard(tracker, g)

\* The groups account for what is outstanding: NotEarly and CountIsExact.
GroupsAccount == NotEarly /\ CountIsExact

Resolved(g) == tracker.groups[g].resolved
Stuck(g)    == \E h \in leaky : g \in Path(tracker, h)

\* Once requests stop coming (MaxTasks), every group gets resolved but those
\* that lost track of something, and the groups that contain them.
PromiseKeptUnlessLeaky == <>[](\A g \in Gids : Resolved(g) \/ Stuck(g))

=============================================================================
