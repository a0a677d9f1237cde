--------------------------------- MODULE Undo ---------------------------------
(***************************************************************************)
(* Changes of flags and labels that the user can undo: the requests of the *)
(* client API (MailAPI, UndoableOperation), the tasks the bridge makes of  *)
(* them, one per conversation (MailBridge, MailUniverse), what planning    *)
(* them changes and how to undo it (mix_store_flags, mix_store), the       *)
(* promise that waits for that (scheduleTaskAndWaitForPlannedUndoTasks)    *)
(* and the raw tasks that an undo sends back.                              *)
(*                                                                         *)
(* Messages reach the bridge in order and tasks are planned in the order   *)
(* in which they were scheduled (TaskManager), so both are one queue.      *)
(* What the changes mean for the server is modelled for flags, one task    *)
(* per message; the buckets of labels are those of GmailSync.              *)
(***************************************************************************)
EXTENDS FlagDeltas, Sequences, FiniteSets, SequencesExt, FiniteSetsExt

CONSTANTS
    Seen, Flagged, \* two of Flags
    Letters,       \* messages, numbers in the order of their conversation
    Talk,          \* the conversation of each
    Early,         \* those that are there from the start
    None,
    MaxOps,        \* bound: requests
    MaxDeeds       \* bound: requests, undos, arrivals, deletions, plans that fail

Talks == {Talk[m] : m \in Letters}

VARIABLES
    attr,        \* which task: "flags", a list, or "labels", a set
    there,       \* the messages in the database
    flags,       \* their flags or labels
    waiting,     \* umidChanges: what the server has yet to be told
    server,      \* what it has
    ops,         \* the undoable operations, in order
    raws,        \* tasks on their way to be planned
    (* history *)
    before,      \* the flags of each message when it came
    done,        \* the requests that changed it and were not undone, in order
    tangled,     \* messages with a request undone that was not their last
    twice,       \* messages with a flag that was added although it was there
    spent

Request == [add : SUBSET Flags, remove : SUBSET Flags]
Moot    == [add |-> {}, remove |-> {}]
Change  == [add : [Flags -> 0..MaxDeeds], remove : [Flags -> 0..MaxDeeds]]
\* A raw task: the operation it belongs to, what it is to change, and of which messages.
Raw == [op : Nat, undo : BOOLEAN, talk : Talks, only : {None} \cup SUBSET Letters, last : BOOLEAN,
        request : Request]

ChangesTypeOK ==
    /\ attr \in {"flags", "labels"} /\ there \subseteq Letters
    /\ flags \in [Letters -> [Flags -> 0..MaxDeeds + 1]]
    /\ \A m \in Letters : waiting[m] \in {None} \cup Change
    /\ server \in [Letters -> SUBSET Flags]
    /\ raws \in Seq(Raw)
    /\ \A o \in DOMAIN ops :
          /\ ops[o].undo \in {"no", "asked", "sent"} /\ ops[o].answered \in BOOLEAN
          /\ ops[o].left \subseteq Talks /\ ops[o].undoTasks \in Seq(Raw)
    /\ {tangled, twice} \subseteq SUBSET Letters /\ spent \in 0..MaxDeeds

UndoInit ==
    /\ attr \in {"flags", "labels"}
    /\ there = Early
    /\ \E had \in [there -> {{}, {Seen}}] :
          server = [m \in Letters |-> IF m \in there THEN had[m] ELSE {}]
    /\ flags = [m \in Letters |-> BagOf(server[m])]
    /\ before = flags
    /\ waiting = [m \in Letters |-> None]
    /\ ops = << >> /\ raws = << >>
    /\ done = [m \in Letters |-> << >>]
    /\ tangled = {} /\ twice = {} /\ spent = 0

Deed == spent < MaxDeeds /\ spent' = spent + 1
Mail == <<there, flags, waiting, server, before, done, tangled, twice>>

-----------------------------------------------------------------------------
(* The client. *)

\* _sendUndoableRequest: one task for each conversation, and the promise of
\* what undoes them.
Send(tasks, talks) ==
    /\ Deed /\ talks # {} /\ Len(ops) < MaxOps
    /\ raws' = raws \o tasks
    /\ ops' = Append(ops, [undo |-> "no", answered |-> FALSE, left |-> talks, undoTasks |-> << >>])
    /\ UNCHANGED <<attr, Mail>>

Task(t, only, last, request) ==
    [op |-> Len(ops) + 1, undo |-> FALSE, talk |-> t, only |-> only, last |-> last, request |-> request]

\* Conversations are named as such, messages by their conversation; a selector
\* is for conversations (_normalizeConversationSelectorArgs).
OfTalks(talks, last, request) ==
    Send([i \in 1..Cardinality(talks) |-> Task(SetToSeq(talks)[i], None, last, request)], talks)
OfLetters(letters, request) ==
    LET talks == {Talk[m] : m \in letters}
        In(t) == {m \in letters : Talk[m] = t}
    IN  Send([i \in 1..Cardinality(talks) |->
                 Task(SetToSeq(talks)[i], In(SetToSeq(talks)[i]), FALSE, request)], talks)

Modify(request, last) ==
    \/ \E talks \in SUBSET Talks : OfTalks(talks, last, request)
    \/ \E letters \in SUBSET there : OfLetters(letters, request)

\* markRead.
MarkRead(beRead) ==
    /\ attr = "flags"
    /\ Modify(IF beRead THEN [add |-> {Seen}, remove |-> {}] ELSE [add |-> {}, remove |-> {Seen}], FALSE)

\* markStarred: starring a conversation stars its last message.
MarkStarred(beStarred) ==
    /\ attr = "flags"
    /\ Modify(IF beStarred THEN [add |-> {Flagged}, remove |-> {}] ELSE [add |-> {}, remove |-> {Flagged}],
              beStarred)

\* modifyLabels, and so archiveFromInbox, addLabels and removeLabels.
ModifyLabels(request) == attr = "labels" /\ request # Moot /\ Modify(request, FALSE)

\* __scheduleUndoTasks, when what undoes the operation is known.
SendUndo(o) ==
    /\ raws' = raws \o ops[o].undoTasks
    /\ ops' = [ops EXCEPT ![o].undo = "sent", ![o].answered = TRUE]

\* undo: waits for the promise; a second one finds none.
Undoes(o) ==
    /\ o \in DOMAIN ops /\ ops[o].undo = "no" /\ Deed
    /\ IF ops[o].answered THEN SendUndo(o)
       ELSE ops' = [ops EXCEPT ![o].undo = "asked"] /\ UNCHANGED raws
    /\ UNCHANGED <<attr, Mail>>

\* _recv_promisedResult: all of its tasks are planned (__accumulateUndoTasksAndReply).
Answer(o) ==
    /\ o \in DOMAIN ops /\ ops[o].left = {} /\ ~ops[o].answered
    /\ IF ops[o].undo = "asked" THEN SendUndo(o)
       ELSE ops' = [ops EXCEPT ![o].answered = TRUE] /\ UNCHANGED raws
    /\ UNCHANGED <<attr, Mail, spent>>

-----------------------------------------------------------------------------
(* Planning. *)

\* selectMessages.
Selected(r) ==
    LET filtered == {m \in there : Talk[m] = r.talk /\ (r.only # None => m \in r.only)} IN
    IF r.last /\ filtered # {} THEN {Max(filtered)} ELSE filtered

Applied(m, request) ==
    IF attr = "labels" THEN ActualInSet(flags[m], request) ELSE Actual(flags[m], request)

\* Mutant of Undoing: of all that the request was about, not of the message.
UndoingAll(r, m, delta) ==
    [r EXCEPT !.undo = TRUE, !.request = [add |-> SetOf(delta.remove), remove |-> SetOf(delta.add)]]

\* The task that inverts what was done to one message.
Undoing(r, m, delta) ==
    [r EXCEPT !.undo = TRUE, !.only = {m}, !.last = FALSE,
              !.request = [add |-> SetOf(delta.remove), remove |-> SetOf(delta.add)]]

\* What is already waiting for the server and what is to come are one change,
\* and nothing waits if they cancel out.
Unified(m, delta) ==
    IF waiting[m] = None THEN delta
    ELSE LET merged == Merge(waiting[m], delta) IN IF Empty(merged) THEN None ELSE merged

Without(seq, o) == SelectSeq(seq, LAMBDA e : e.op # o)

\* plan: each message that is selected and changes; then undoTasks, then planned.
Plan ==
    /\ raws # << >>
    /\ LET r       == Head(raws)
           delta   == [m \in Selected(r) |-> Applied(m, r.request).delta]
           changed == {m \in Selected(r) : ~Empty(delta[m])}
           order   == SetToSortSeq(changed, <)
       IN  /\ flags' = [m \in Letters |-> IF m \in changed THEN Applied(m, r.request).flags ELSE flags[m]]
           /\ waiting' = [m \in Letters |-> IF m \in changed /\ attr = "flags" THEN Unified(m, delta[m])
                                            ELSE waiting[m]]
           /\ ops' = IF r.undo THEN ops
                     ELSE [ops EXCEPT ![r.op].left = @ \ {r.talk},
                                      ![r.op].undoTasks =
                                          @ \o [i \in DOMAIN order |-> Undoing(r, order[i], delta[order[i]])]]
           /\ done' = [m \in Letters |->
                         IF m \notin Selected(r) THEN done[m]
                         ELSE IF r.undo THEN Without(done[m], r.op)
                         ELSE IF m \in changed THEN Append(done[m], [op |-> r.op, request |-> r.request])
                         ELSE done[m]]
           /\ tangled' = tangled \cup IF r.undo THEN {m \in Selected(r) :
                                                        done[m] = << >> \/ Last(done[m]).op # r.op} ELSE {}
           /\ twice' = twice \cup IF attr = "labels" THEN {}
                                  ELSE {m \in changed : \E f \in r.request.add : flags[m][f] > 0}
    /\ raws' = Tail(raws)
    /\ UNCHANGED <<attr, there, server, before, spent>>

\* planned comes without undoTasks: there is nothing to undo.
PlanFails ==
    /\ raws # << >> /\ Deed
    /\ LET r == Head(raws) IN
       /\ ops' = IF r.undo THEN ops ELSE [ops EXCEPT ![r.op].left = @ \ {r.talk}]
       /\ tangled' = tangled \cup IF r.undo THEN Selected(r) ELSE {}
    /\ raws' = Tail(raws)
    /\ UNCHANGED <<attr, there, flags, waiting, server, before, done, twice>>

-----------------------------------------------------------------------------
(* The rest of the world. *)

\* store_flags executes.
Play(m) ==
    /\ waiting[m] # None
    /\ server' = [server EXCEPT ![m] = (@ \cup SetOf(waiting[m].add)) \ SetOf(waiting[m].remove)]
    /\ waiting' = [waiting EXCEPT ![m] = None]
    /\ UNCHANGED <<attr, there, flags, ops, raws, before, done, tangled, twice, spent>>

\* A message comes.
Arrives(m) ==
    /\ Deed /\ m \notin there /\ before[m] = flags[m] /\ done[m] = << >>
    /\ there' = there \cup {m}
    /\ UNCHANGED <<attr, flags, waiting, server, ops, raws, before, done, tangled, twice>>

\* A message is deleted, with all that is known of it.
Goes(m) ==
    /\ Deed /\ m \in there /\ waiting[m] = None
    /\ there' = there \ {m}
    /\ UNCHANGED <<attr, flags, waiting, server, ops, raws, before, done, tangled, twice>>

UndoNext ==
    \/ \E b \in BOOLEAN : MarkRead(b) \/ MarkStarred(b)
    \/ \E request \in Request : ModifyLabels(request)
    \/ \E o \in DOMAIN ops : Undoes(o) \/ Answer(o)
    \/ Plan \/ PlanFails
    \/ \E m \in Letters : Play(m) \/ Arrives(m) \/ Goes(m)

undoVars == <<attr, there, flags, waiting, server, ops, raws, before, done, tangled, twice, spent>>

-----------------------------------------------------------------------------
(* Properties. *)

\* A message has the flags it came with and what was asked for and not undone
\* since, whatever arrived, was sent to the server or was asked for in between:
\* "the actual undo() behavior will attempt to leave things in their original
\* state (rather than inverting the original request)".  Only if what was
\* asked for first is undone first may something of it remain.
UndoRestores ==
    \A m \in there \ tangled :
        flags[m] = FoldLeft(LAMBDA had, e : IF attr = "labels" THEN ActualInSet(had, e.request).flags
                                            ELSE Actual(had, e.request).flags,
                            before[m], done[m])

\* When all is planned, what was undone is undone in every message that is
\* left, also if it was undone before the answer came, or twice.
UndoneIsGone ==
    raws = << >> => \A m \in there \ tangled : \A i \in DOMAIN done[m] : ops[done[m][i].op].undo # "sent"

\* What waits for the server makes of its flags what the user sees, unless a
\* flag was added that was there.
ServerFollows ==
    attr = "flags" => \A m \in there \ twice :
        SetOf(flags[m]) = IF waiting[m] = None THEN server[m]
                          ELSE (server[m] \cup SetOf(waiting[m].add)) \ SetOf(waiting[m].remove)

UndoInStep == ChangesTypeOK /\ UndoRestores /\ UndoneIsGone /\ ServerFollows
=============================================================================
