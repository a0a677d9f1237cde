------------------------------ MODULE ClientSide ------------------------------
(***************************************************************************)
(* The client API and what it talks to, in parts that do not share state   *)
(* in the code: its handles and the bridge (Bridge), contacts and the      *)
(* people shown (Contacts), changes of messages and their undoing (Undo),  *)
(* the lists of accounts and folders (Directory), and drafts and their     *)
(* composers (Compose).  A behaviour is one of one of them, and the        *)
(* variables of the others stay as they start.                             *)
(***************************************************************************)
EXTENDS Bridge

CONSTANTS
    Addresses, Persons, Slots, MaxHits, MaxEmpty, MaxDeeds, Nobody, Unknown,
    Flags, Seen, Flagged, Letters, Talk, Early, MaxOps, MaxChanges,
    Owners, Dirs, Of, Later, MaxActs,
    Composers, People, Me, Alias, Edited, MaxCrashes

ASSUME ContactsAssumption ==
    /\ IsFiniteSet(Persons) /\ {MaxHits, MaxEmpty, MaxDeeds} \subseteq Nat
    /\ Nobody \notin Persons \cup {Unknown} /\ Unknown \notin Persons
    /\ \A emails \in SUBSET Addresses : emails \notin {Nobody, Unknown}
    /\ Nobody \notin [address : Addresses, contactId : Persons \cup {Nobody},
                      name : Persons \cup {Nobody}, owned : BOOLEAN]

ASSUME DraftsAssumption ==
    /\ {MaxDeeds, MaxCrashes} \subseteq Nat
    /\ None \notin [relId : Nat, blob : Nat]
    /\ LET Content == [parts : Seq([relId : Nat, blob : Nat]), text : Nat]
       IN  None \notin Content \cup [content : Content, to : SUBSET People, cc : SUBSET People, bcc : SUBSET People]

VARIABLES
    part,
    (* Contacts *)
    book, gone, notices, _contactCache, _cacheHitEntries, _cacheEmptyEntries, peep,
    _livePeepsByEmail, _livePeepsById, lookups, refinds, pendingLookupCount, callbacks, orphans,
    misled, had, deeds,
    (* Undo *)
    attr, there, flags, waiting, server, ops, raws, before, done, tangled, twice, spent,
    (* Directory *)
    present, hosted, dirtyViews, owed, within, follows, upward, downward, helloed, _storedSends,
    rows, complete, loading, accountsLoaded, byAccount, byFolder, label, removed, first, ahead, acts,
    (* Compose *)
    source, created, draft, editor, writing, planning, attaching, sent, edits, crashes, crowded, meant

Contact == INSTANCE Contacts  WITH People <- Persons
Undone  == INSTANCE Undo      WITH MaxDeeds <- MaxChanges
Direct  == INSTANCE Directory WITH items <- rows, gone <- removed
Composed == INSTANCE Compose  WITH deeds <- edits

contactSide   == <<book, gone, notices, _contactCache, _cacheHitEntries, _cacheEmptyEntries, peep,
                   _livePeepsByEmail, _livePeepsById, lookups, refinds, pendingLookupCount, callbacks,
                   orphans, misled, had, deeds>>
undoSide      == <<attr, there, flags, waiting, server, ops, raws, before, done, tangled, twice, spent>>
directorySide == <<present, hosted, dirtyViews, owed, within, follows, upward, downward, helloed,
                   _storedSends, rows, complete, loading, accountsLoaded, byAccount, byFolder, label,
                   removed, first, ahead, acts>>
composeSide   == <<source, created, draft, editor, writing, planning, attaching, sent, edits, crashes,
                   crowded, meant>>

\* The parts that a behaviour is not of.
NoContacts == Contact!ContactInit /\ book = [p \in Persons |-> Nobody]
NoChanges  == Undone!UndoInit /\ attr = "labels" /\ server = [m \in Letters |-> {}]
NoLists    == Direct!DirectoryInit /\ within = CHOOSE d \in Dirs : d \notin Later
NoDraft    == Composed!ComposeInit /\ source = CHOOSE s \in Edited : TRUE

AnyInit ==
    \/ part = "bridge"   /\ Init /\ NoContacts /\ NoChanges /\ NoLists /\ NoDraft
    \/ part = "contacts" /\ Init /\ Contact!ContactInit /\ NoChanges /\ NoLists /\ NoDraft
    \/ part = "undo"     /\ Init /\ NoContacts /\ Undone!UndoInit /\ NoLists /\ NoDraft
    \/ part = "lists"    /\ Init /\ NoContacts /\ NoChanges /\ Direct!DirectoryInit /\ NoDraft
    \/ part = "drafts"   /\ Init /\ NoContacts /\ NoChanges /\ NoLists /\ Composed!ComposeInit

AnyNext ==
    \/ part = "bridge"   /\ Next
       /\ UNCHANGED <<part, contactSide, undoSide, directorySide, composeSide>>
    \/ part = "contacts" /\ Contact!ContactNext
       /\ UNCHANGED <<part, vars, undoSide, directorySide, composeSide>>
    \/ part = "undo"     /\ Undone!UndoNext
       /\ UNCHANGED <<part, vars, contactSide, directorySide, composeSide>>
    \/ part = "lists"    /\ Direct!DirectoryNext
       /\ UNCHANGED <<part, vars, contactSide, undoSide, composeSide>>
    \/ part = "drafts"   /\ Composed!ComposeNext
       /\ UNCHANGED <<part, vars, contactSide, undoSide, directorySide>>

anyVars == <<part, vars, contactSide, undoSide, directorySide, composeSide>>

AnySpec == AnyInit /\ [][AnyNext]_anyVars

-----------------------------------------------------------------------------
(* Properties, beside those of Bridge. *)

\* Whom the views show is whom the contacts say, every peep that is shown can be
\* found to be told of changes, and who waits for names is called; Contacts says
\* what is excepted.
ContactsInStep ==
    part = "contacts" => Contact!RegistriesAgree /\ Contact!CallersAreCalled /\ Contact!ContactsAreTrue

\* What is undone is as it was, and the server follows; Undo says what is excepted.
UndoInStep == part = "undo" => Undone!UndoInStep

\* What the client waits for comes, and not before all of it is there; Directory says
\* what is excepted.
DirectoryInStep == part = "lists" => Direct!DirectoryInStep

\* What the client asked for is what it gets: its deeds undone, its items found.
AskedIsDone == UndoInStep /\ DirectoryInStep

\* What is sent is what was composed, and goes to whom it should; Compose says what
\* is excepted.
ComposeInStep == part = "drafts" => Composed!ComposeInStep
=============================================================================
