---------------------------- MODULE TaskPriorities ----------------------------
(***************************************************************************)
(* The order in which ready tasks execute: TaskPriorities and the vendored *)
(* Fibonacci heap that it keeps them in, pointer by pointer.               *)
(*                                                                         *)
(* A node is a number, in order of creation; it outlives its extraction,   *)
(* because its pointers do and because _taskIdToHeapNode may still name    *)
(* it.  Lists of siblings are rings of next and prev.                      *)
(*                                                                         *)
(* Keys are priorities negated, and a task's later incarnation never has   *)
(* the lesser one: markers of the outbox take the order of a counter, the  *)
(* others that are queued again have none.  So nothing calls decreaseKey;  *)
(* nor is setPriorityBoostTags called, and tags boost nothing.             *)
(***************************************************************************)
EXTENDS Integers, Sequences, FiniteSets, SequencesExt

CONSTANTS
    Ids,           \* ids of tasks and markers, numbered as they are queued first
    Needy,         \* those whose things need the resource that may go
    Keys,
    None,
    MaxInserts,    \* bound: nodes that are ever made
    MaxRemovals    \* bound: calls that take things out other than to run them

VARIABLES
    node,        \* the nodes of the heap, and those that have left it
    minNode, nodeCount,
    heapNodeOf,  \* _taskIdToHeapNode ...
    tracked,     \* ... and its keys in order of insertion
    popped,      \* the thing that executes, or None
    removals,
    (* history *)
    latest,      \* the key of the last incarnation of each id that was queued
    severed,     \* was a node cut from siblings?
    moved        \* was a node replaced by one of a greater key?

heap == <<node, minNode, nodeCount>>
history == <<latest, severed, moved>>
vars == <<heap, heapNodeOf, tracked, popped, removals, history>>

Nodes == 1..Len(node)
Thing == [id : Ids, key : Keys]

TypeOK ==
    /\ \A x \in Nodes :
         node[x] \in [key : Keys, value : Thing, prev : Nodes, next : Nodes, degree : Int,
                      parent : Nodes \cup {None}, child : Nodes \cup {None}, marked : BOOLEAN]
    /\ minNode \in Nodes \cup {None} /\ nodeCount \in -MaxInserts..MaxInserts
    /\ heapNodeOf \in [Ids -> Nodes \cup {None}]
    /\ tracked \in Seq(Ids) /\ popped \in Thing \cup {None} /\ removals \in 0..MaxRemovals
    /\ latest \in [Ids -> Keys \cup {None}] /\ severed \in BOOLEAN /\ moved \in BOOLEAN

-----------------------------------------------------------------------------
(* Rings.  n is the state of the nodes; a heap is [n, min, count]. *)

\* The ring through x, from x on.
Ring(n, x) ==
    LET at[k \in 1..Len(n)] == IF k = 1 THEN x ELSE n[at[k - 1]].next
        size == CHOOSE k \in 1..Len(n) :
                   n[at[k]].next = x /\ \A j \in 1..k - 1 : n[at[j]].next # x
    IN  [k \in 1..size |-> at[k]]

\* removeNodeFromList
Unlinked(n, x) ==
    [n EXCEPT ![n[x].prev].next = n[x].next, ![n[x].next].prev = n[x].prev,
              ![x].next = x, ![x].prev = x]

\* mergeLists: one ring of the two ...
Joined(n, a, b) ==
    IF None \in {a, b} THEN n
    ELSE [n EXCEPT ![a].next = n[b].next, ![n[b].next].prev = a,
                   ![b].next = n[a].next, ![n[a].next].prev = b]

\* ... and the lesser of their nodes.
Lesser(n, a, b) ==
    CASE a = None -> b
      [] b = None -> a
      [] OTHER    -> IF n[a].key < n[b].key THEN a ELSE b

\* linkHeaps: makes big a child of small.
Linked(n, big, small) ==
    LET out == Unlinked(n, big)
    IN  [Joined(out, big, out[small].child) EXCEPT
            ![small].child = Lesser(out, big, out[small].child),
            ![big].parent = small, ![big].marked = FALSE]

\* consolidate, for one root: aux is the root that was found of each degree.
RECURSIVE Placed(_, _)
Placed(s, x) ==
    LET d == s.n[x].degree
        y == s.aux[d]
        small == IF s.n[x].key > s.n[y].key THEN y ELSE x
        big   == IF small = x THEN y ELSE x
        n     == Linked(s.n, big, small)
    IN  IF y = None
        THEN [s EXCEPT !.aux[d] = x]
        ELSE Placed([n |-> [n EXCEPT ![small].degree = d + 1], aux |-> [s.aux EXCEPT ![d] = None]],
                    small)

\* consolidate: the roots merged by degree, and put together anew.
Consolidated(h) ==
    LET none   == [d \in -Len(h.n)..Len(h.n) |-> None]
        placed == FoldLeft(Placed, [n |-> h.n, aux |-> none], Ring(h.n, h.min))
        Root(s, d) ==
            LET x == placed.aux[d]
                n == [s.n EXCEPT ![x].next = x, ![x].prev = x]
            IN  IF x = None THEN s
                ELSE [s EXCEPT !.n = Joined(n, s.min, x), !.min = Lesser(n, s.min, x)]
    IN  FoldLeft(LAMBDA s, k : Root(s, k - 1), [h EXCEPT !.n = placed.n, !.min = None],
                 [k \in 1..Len(h.n) + 1 |-> k])

\* extractMinimum, of a heap that is not empty.
Extracted(h) ==
    LET m       == h.min
        child   == h.n[m].child
        rest    == IF h.n[m].next = m THEN None ELSE h.n[m].next
        kids    == IF child = None THEN << >> ELSE Ring(h.n, child)
        orphans == FoldLeft(LAMBDA n, x : [n EXCEPT ![x].parent = None], h.n, kids)
        merged  == Joined(Unlinked(orphans, m), rest, child)
    IN  IF rest = None
        THEN [n |-> merged, min |-> child, count |-> h.count - 1]
        ELSE Consolidated([n |-> merged, min |-> rest, count |-> h.count - 1])

\* cut: node.next has just been made node itself, so that the test of it
\* finds no siblings, whoever they are.
Cut(n, min, x, parent) ==
    [Joined([Unlinked(n, x) EXCEPT ![parent].degree = @ - 1, ![parent].child = None], min, x)
        EXCEPT ![x].marked = FALSE]

RECURSIVE CascadingCut(_, _, _)
CascadingCut(n, min, x) ==
    LET parent == n[x].parent
    IN  CASE parent = None -> n
          [] parent # None /\ ~n[x].marked -> [n EXCEPT ![x].marked = TRUE]
          [] OTHER -> CascadingCut(Cut(n, min, x, parent), min, parent)

\* delete: makes x the minimum and extracts it.
Deleted(h, x) ==
    LET parent == h.n[x].parent
        n == IF parent = None THEN h.n
             ELSE CascadingCut(Cut(h.n, h.min, x, parent), h.min, parent)
    IN  Extracted([h EXCEPT !.n = n, !.min = x])

\* insert
Inserted(h, key, thing) ==
    LET x == Len(h.n) + 1
        n == Append(h.n, [key |-> key, value |-> thing, prev |-> x, next |-> x, degree |-> 0,
                          parent |-> None, child |-> None, marked |-> FALSE])
    IN  [n |-> Joined(n, h.min, x), min |-> Lesser(n, h.min, x), count |-> h.count + 1]

Heap == [n |-> node, min |-> minNode, count |-> nodeCount]

-----------------------------------------------------------------------------
(* TaskPriorities.  Each action leaves the heap as the sequence of calls of   *)
(* its operation does.                                                        *)

State == [h |-> Heap, of |-> heapNodeOf, tracked |-> tracked]

BecomesState(s) ==
    /\ node' = s.h.n /\ minNode' = s.h.min /\ nodeCount' = s.h.count
    /\ heapNodeOf' = s.of /\ tracked' = s.tracked

Init ==
    /\ node = << >> /\ minNode = None /\ nodeCount = 0
    /\ heapNodeOf = [i \in Ids |-> None] /\ tracked = << >> /\ popped = None /\ removals = 0
    /\ latest = [i \in Ids |-> None] /\ severed = FALSE /\ moved = FALSE

\* History: a cut that has siblings to lose, or that goes on upwards.
Severing(n, x) ==
    LET parent == n[x].parent
    IN  /\ parent # None
        /\ \/ n[x].next # x \/ n[parent].child \notin {None, x}
           \/ n[parent].marked

\* prioritizeTaskThing, of an id that is not there.
PrioritizeNew(i, key) ==
    /\ heapNodeOf[i] = None /\ Len(node) < MaxInserts
    /\ \A j \in 1..i - 1 : \E x \in Nodes : node[x].value.id = j
    /\ BecomesState([h |-> Inserted(Heap, key, [id |-> i, key |-> key]),
                     of |-> [heapNodeOf EXCEPT ![i] = Len(node) + 1],
                     tracked |-> Append(tracked, i)])
    /\ latest' = [latest EXCEPT ![i] = key] /\ popped' = None
    /\ UNCHANGED <<removals, severed, moved>>

\* The same for one that is, with the same priority: its thing is replaced.
PrioritizeAgain(i) ==
    LET x == heapNodeOf[i]
        key == latest[i]
    IN  /\ x # None /\ ~moved
        /\ node' = [node EXCEPT ![x].value = [id |-> i, key |-> key]]
        /\ popped' = None
        /\ UNCHANGED <<minNode, nodeCount, heapNodeOf, tracked, removals, history>>

\* _reprioritizeHeapNode, to a greater key: the new node holds the old thing,
\* and the map keeps the old node, which is given the new thing.
PrioritizeLater(i, key) ==
    LET x == heapNodeOf[i]
        h == Inserted(Deleted(Heap, x), key, node[x].value)
    IN  /\ x # None /\ key > node[x].key /\ Len(node) < MaxInserts
        /\ ~moved                                    \* bound: one replacement
        /\ removals < MaxRemovals /\ removals' = removals + 1
        /\ BecomesState([h |-> [h EXCEPT !.n[x].value = [id |-> i, key |-> key]],
                         of |-> heapNodeOf, tracked |-> tracked])
        /\ latest' = [latest EXCEPT ![i] = key] /\ popped' = None
        /\ severed' = (severed \/ Severing(node, x)) /\ moved' = TRUE

\* removeTaskThing
Without(s, i) ==
    IF s.of[i] = None THEN s
    ELSE [h |-> Deleted(s.h, s.of[i]), of |-> [s.of EXCEPT ![i] = None],
          tracked |-> SelectSeq(s.tracked, LAMBDA j : j # i)]

\* Does taking out what ids names, one after the other, sever anything?
Severs(ids) ==
    \E k \in DOMAIN ids :
        LET s == FoldLeft(Without, State, SubSeq(ids, 1, k - 1))
        IN  s.of[ids[k]] # None /\ Severing(s.h.n, s.of[ids[k]])

TakeOut(ids) ==
    /\ removals < MaxRemovals /\ removals' = removals + 1
    /\ BecomesState(FoldLeft(Without, State, ids))
    /\ latest' = [i \in Ids |-> IF \E k \in DOMAIN ids : ids[k] = i THEN None ELSE latest[i]]
    /\ severed' = (severed \/ Severs(ids))
    /\ popped' = None /\ UNCHANGED moved

\* A complex task withdraws its marker.
RemoveTaskThing(i) == heapNodeOf[i] # None /\ TakeOut(<<i>>)

\* The resource is gone: what needs it leaves, in the order of the map.
RemoveTasksUsingFilter ==
    /\ \E k \in DOMAIN tracked : tracked[k] \in Needy
    /\ TakeOut(SelectSeq(tracked, LAMBDA i : i \in Needy))

\* Mutant of PopNextAvailableTask: the map keeps its entry.
PopKeepsEntry ==
    LET thing == node[minNode].value
    IN  /\ minNode # None
        /\ BecomesState([h |-> Extracted(Heap), of |-> heapNodeOf, tracked |-> tracked])
        /\ popped' = thing
        /\ latest' = [latest EXCEPT ![thing.id] = None]
        /\ UNCHANGED <<removals, severed, moved>>

\* popNextAvailableTask.  TaskManager calls it unless the heap is empty.
PopNextAvailableTask ==
    LET thing == node[minNode].value
    IN  /\ minNode # None
        /\ BecomesState([h |-> Extracted(Heap), of |-> [heapNodeOf EXCEPT ![thing.id] = None],
                         tracked |-> SelectSeq(tracked, LAMBDA j : j # thing.id)])
        /\ popped' = thing
        /\ latest' = [latest EXCEPT ![thing.id] = None]
        /\ UNCHANGED <<removals, severed, moved>>

Next ==
    \/ \E i \in Ids, key \in Keys : PrioritizeNew(i, key) \/ PrioritizeLater(i, key)
    \/ \E i \in Ids : PrioritizeAgain(i) \/ RemoveTaskThing(i)
    \/ RemoveTasksUsingFilter
    \/ PopNextAvailableTask

Spec == Init /\ [][Next]_vars

-----------------------------------------------------------------------------
(* Properties. *)

RECURSIVE Closure(_)
Closure(S) ==
    LET T == S \cup {node[x].next : x \in S} \cup ({node[x].child : x \in S} \ {None})
    IN  IF T = S THEN S ELSE Closure(T)

\* What the heap holds: the nodes that can be reached from its minimum.
Held == IF minNode = None THEN {} ELSE Closure({minNode})
Tracked == {i \in Ids : heapNodeOf[i] # None}

\* Until a cut loses siblings or a node is replaced, the heap holds the node
\* that the map has for each task, and no other.
Accounted ==
    ~severed /\ ~moved => Held = {heapNodeOf[i] : i \in Tracked}

\* What the heap still holds after a cut is what was queued last under its id,
\* at its key, once: nothing that was taken out or has run comes back.
Current ==
    ~moved => \A x \in Held :
                 LET thing == node[x].value
                 IN  /\ heapNodeOf[thing.id] = x
                     /\ node[x].key = thing.key /\ thing.key = latest[thing.id]

\* numTasksToExecute counts the tasks of the map, those that a cut lost too.
Counted == ~moved => nodeCount = Cardinality(Tracked)

\* The map's order names its entries.
Listed == Tracked = {tracked[k] : k \in DOMAIN tracked} /\ Len(tracked) = Cardinality(Tracked)

\* A task that executes has the least key of all that the heap still holds, also
\* after cuts.
LeastFirst == popped # None /\ ~moved => \A x \in Held : popped.key <= node[x].key

\* The map from ids to nodes and the heap agree, as far as they do: taking out
\* a task (task_priorities.js:288) loses others only where the heap cuts a child
\* from its siblings, and what remains is in step and in order.
PrioritiesInStep == TypeOK /\ Accounted /\ Current /\ Counted /\ Listed /\ LeastFirst
=============================================================================
