-------------------------------- MODULE Search --------------------------------
(***************************************************************************)
(* A search over the conversations of a folder: the query that feeds what  *)
(* the folder lists and each later change to a stream (FilteringFolder-    *)
(* Query), the stream that gathers the record of each conversation and     *)
(* tests it (FilteringStream), the list that it reports matches and        *)
(* retractions to (FolderConversationsTOC) and the derived views.          *)
(*                                                                         *)
(* A gather reads the record as it is when the gather starts; several are  *)
(* under way at a time, and their results are looked at in order.          *)
(***************************************************************************)
EXTENDS Naturals, Sequences, FiniteSets, SequencesExt

CONSTANTS
    Convs,         \* conversations, numbered, for the order of the list
    Dates,
    None,          \* no record
    Ahead,         \* gathers that the streams let go ahead (highWaterMark)
    MaxWrites      \* bound: changes of conversations after the search was opened

ASSUME SearchAssumption ==
    /\ IsFiniteSet(Convs) /\ Convs \subseteq Nat /\ IsFiniteSet(Dates) /\ Dates \subseteq Nat \ {0}
    /\ Ahead \in Nat \ {0} /\ MaxWrites \in Nat

NoDate == 0
Record == [date : Dates, hit : BOOLEAN]    \* hit: the filters match it
Change == [id : Convs, removeDate : Dates \cup {NoDate}, addDate : Dates \cup {NoDate}]
Row    == [id : Convs, date : Dates]

VARIABLES
    record,        \* the conversations in the folder
    phase,         \* of the query: executing, bound
    loaded,        \* what execute reads
    buffered,      \* events until bind
    entering,      \* changes written to the gather stream
    gathering,     \* changes whose gather is under way, with what it finds
    queuedSet, knownFilteredSet,
    rows,          \* idsWithDates of the list
    derived,       \* what the derived views hold
    (* history *)
    overtaken,     \* conversations with two changes in the streams at once
    spoiled,       \* a removal found no row with its key
    writes

stream == <<entering, gathering, queuedSet, knownFilteredSet, derived, overtaken>>
toc    == <<rows, spoiled>>
vars   == <<record, phase, loaded, buffered, stream, toc, writes>>

TypeOK ==
    /\ record \in [Convs -> {None} \cup Record] /\ loaded \in Seq(Change)
    /\ phase \in {"executing", "bound"} /\ buffered \in Seq(Change)
    /\ entering \in Seq(Change)
    /\ gathering \in Seq([change : Change, found : {None} \cup Record]) /\ Len(gathering) <= Ahead
    /\ {queuedSet, knownFilteredSet, derived, overtaken} \subseteq SUBSET Convs
    /\ rows \in Seq(Row) /\ spoiled \in BOOLEAN /\ writes \in 0..MaxWrites

IsDeletion(change) == change.addDate = NoDate

-----------------------------------------------------------------------------
(* The list: onTOCChange. *)

Before(a, b) == a.date > b.date \/ (a.date = b.date /\ a.id > b.id)

Inserted(list, row) ==
    SelectSeq(list, LAMBDA r : Before(r, row)) \o <<row>> \o SelectSeq(list, LAMBDA r : ~Before(r, row))

\* A key that is not in the list has the index null, which is not -1, and
\* splice takes it for 0: the first row goes.
Without(list, row) ==
    IF \E i \in DOMAIN list : list[i] = row
    THEN RemoveAt(list, CHOOSE i \in DOMAIN list : list[i] = row)
    ELSE IF list = << >> THEN << >> ELSE Tail(list)

OnTOCChange(change) ==
    LET old  == [id |-> change.id, date |-> change.removeDate]
        new  == [id |-> change.id, date |-> change.addDate]
        left == IF change.removeDate = NoDate THEN rows ELSE Without(rows, old)
    IN  IF change.removeDate = change.addDate THEN UNCHANGED toc
        ELSE /\ rows' = IF change.addDate = NoDate THEN left ELSE Inserted(left, new)
             /\ spoiled' = (spoiled \/ (change.removeDate # NoDate /\ ~\E i \in DOMAIN rows : rows[i] = old))

-----------------------------------------------------------------------------
(* The query and the way into the stream. *)

State == [entering |-> entering, queued |-> queuedSet, derived |-> derived, overtaken |-> overtaken]

InStream(s) == Range(s.entering) \cup {gathering[i].change : i \in DOMAIN gathering}

\* The change comes while an earlier one of the conversation is in the streams;
\* only an addition may follow a removal.
Overtakes(s, change) ==
    \E other \in InStream(s) :
        other.id = change.id /\ (IsDeletion(other) => IsDeletion(change))

\* consider.
Consider(s, change) ==
    LET t == IF Overtakes(s, change) THEN [s EXCEPT !.overtaken = @ \cup {change.id}] ELSE s IN
    IF ~IsDeletion(change)
    THEN [t EXCEPT !.queued = @ \cup {change.id}, !.entering = Append(@, change)]
    ELSE IF change.id \in knownFilteredSet
    THEN [t EXCEPT !.queued = @ \ {change.id}, !.entering = Append(@, change)]
    ELSE [s EXCEPT !.queued = @ \ {change.id}, !.derived = @ \ {change.id}]

Becomes(s) ==
    /\ entering' = s.entering /\ queuedSet' = s.queued
    /\ derived' = s.derived /\ overtaken' = s.overtaken

\* The folder index, newest first, is read by a transaction that is created when
\* the search is opened; events are buffered from then on.
Listing(r) ==
    LET keys == {[id |-> c, date |-> r[c].date] : c \in {c \in Convs : r[c] # None}}
        sorted == SetToSortSeq(keys, Before)
    IN  [i \in DOMAIN sorted |-> [id |-> sorted[i].id, removeDate |-> NoDate, addDate |-> sorted[i].date]]

\* execute goes on, then bind: all that is listed is considered, then all that
\* was buffered, each event once.
Bind ==
    /\ phase = "executing" /\ phase' = "bound"
    /\ Becomes(FoldLeft(Consider, State, loaded \o buffered))
    /\ loaded' = << >> /\ buffered' = << >>
    /\ UNCHANGED <<record, gathering, knownFilteredSet, toc, writes>>

\* A task adds, changes or removes a conversation; the event is heard at once.
Write(c, new) ==
    /\ writes < MaxWrites /\ writes' = writes + 1
    /\ record[c] # new /\ record' = [record EXCEPT ![c] = new]
    /\ LET DateOf(r) == IF r = None THEN NoDate ELSE r.date
           change == [id |-> c, removeDate |-> DateOf(record[c]), addDate |-> DateOf(new)]
       IN  IF phase = "executing"
           THEN buffered' = Append(buffered, change) /\ UNCHANGED stream
           ELSE Becomes(Consider(State, change)) /\ UNCHANGED <<buffered, gathering, knownFilteredSet>>
    /\ UNCHANGED <<phase, loaded, toc>>

-----------------------------------------------------------------------------
(* The stream. *)

\* The transform of the gather stream: what is no longer queued is not gathered.
GatherStarts ==
    /\ entering # << >> /\ Len(gathering) < Ahead
    /\ LET change == Head(entering) IN
       gathering' = IF IsDeletion(change) \/ change.id \in queuedSet
                    THEN Append(gathering, [change |-> change, found |-> record[change.id]])
                    ELSE gathering
    /\ entering' = Tail(entering)
    /\ UNCHANGED <<record, phase, loaded, buffered, queuedSet, knownFilteredSet, derived, overtaken, toc, writes>>

\* The transform of the filter stream, of a removal ...
FilterDeletion ==
    /\ gathering # << >> /\ IsDeletion(Head(gathering).change)
    /\ LET change == Head(gathering).change IN
       /\ OnTOCChange(change)
       /\ knownFilteredSet' = knownFilteredSet \ {change.id}
       /\ derived' = derived \ {change.id}
    /\ gathering' = Tail(gathering)
    /\ UNCHANGED <<record, phase, loaded, buffered, entering, queuedSet, overtaken, writes>>

Added(change)     == [change EXCEPT !.removeDate = NoDate]
Retracted(change) == [change EXCEPT !.addDate = NoDate]

\* ... and of what was gathered: it is dropped if it is no longer queued,
\* else reported as what it is to the list, which knows of matches only.
FilterGathered ==
    /\ gathering # << >> /\ ~IsDeletion(Head(gathering).change)
    /\ LET change == Head(gathering).change
           found  == Head(gathering).found
           c      == change.id
           match  == found # None /\ found.hit
           known  == c \in knownFilteredSet
       IN  IF c \notin queuedSet THEN UNCHANGED <<queuedSet, derived, knownFilteredSet, toc>>
           ELSE /\ queuedSet' = queuedSet \ {c}
                /\ derived' = derived \cup {c}
                /\ knownFilteredSet' = IF match THEN knownFilteredSet \cup {c} ELSE knownFilteredSet \ {c}
                /\ IF match THEN OnTOCChange(IF known THEN change ELSE Added(change))
                   ELSE IF known THEN OnTOCChange(Retracted(change))
                   ELSE UNCHANGED toc
    /\ gathering' = Tail(gathering)
    /\ UNCHANGED <<record, phase, loaded, buffered, entering, overtaken, writes>>

-----------------------------------------------------------------------------
Init ==
    /\ record \in [Convs -> {None} \cup Record]
    /\ phase = "executing" /\ loaded = Listing(record) /\ buffered = << >>
    /\ entering = << >> /\ gathering = << >> /\ queuedSet = {} /\ knownFilteredSet = {}
    /\ rows = << >> /\ derived = {}
    /\ overtaken = {} /\ spoiled = FALSE /\ writes = 0

Streams == GatherStarts \/ FilterDeletion \/ FilterGathered

Next ==
    \/ \E c \in Convs, new \in {None} \cup Record : Write(c, new)
    \/ Bind
    \/ Streams

Spec == Init /\ [][Next]_vars

-----------------------------------------------------------------------------
(* Properties. *)

AtRest == phase = "bound" /\ entering = << >> /\ gathering = << >>

\* Once the streams are empty the list has a row for each conversation that
\* matches, under its present date and for no other, in order; the stream knows
\* these rows and waits for nothing more, and the derived views hold the folder
\* (filtering_stream.js).  This fails for a conversation with two changes in the
\* streams at once, and for any once a removal took the wrong row.
SearchIsExact == AtRest /\ ~spoiled =>
    /\ queuedSet = {}
    /\ \A c \in Convs \ overtaken :
        LET listed == {rows[i].date : i \in {i \in DOMAIN rows : rows[i].id = c}} IN
        /\ listed = (IF record[c] # None /\ record[c].hit THEN {record[c].date} ELSE {})
        /\ c \in knownFilteredSet <=> listed # {}
        /\ c \in derived <=> record[c] # None
    /\ \A i, j \in DOMAIN rows : i < j => ~Before(rows[j], rows[i])

\* No removal takes a row that is not its own, unless of a conversation that was
\* overtaken: "we only tell them about removals for things we have told them
\* exist" (knownFilteredSet).
RemovalsAreKnown == TypeOK /\ (spoiled => overtaken # {})
=============================================================================
