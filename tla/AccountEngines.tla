---------------------------- MODULE AccountEngines ----------------------------
(***************************************************************************)
(* An account is synchronized by one of three engines, by its type: the    *)
(* tasks of vanilla IMAP (ImapSync), of Gmail (GmailSync) or of ActiveSync *)
(* (ActiveSync).  What they owe the user is the same and is stated here    *)
(* for each of them.  An account never changes its engine: the variables   *)
(* of the others stay unused, and a name that several have is one variable.*)
(***************************************************************************)
EXTENDS ImapSync

CONSTANTS
    GmailFlags, Label,   \* the flags and the label of Gmail
    MaxOthers            \* bound: the events of Gmail and of ActiveSync

VARIABLES
    engine,
    (* Gmail *)
    allMail, arrived, sinceDate, yayUids, mehUids, shown, stores, disk, requests, fetches, todo, stuck,
    errand, tangled, strange, twice, partial, unfetched, spent,
    (* ActiveSync, but for what ImapSync has too *)
    mail, came, odd, snap, syncKey, serverIdInfo, messages, umidLocation, jammed, orphans, left, mangled,
    reverted

\* For instances: all messages are of one conversation.
OneThread == [u \in Uids |-> 1]

Gmail == INSTANCE GmailSync WITH Flags <- GmailFlags, MaxEvents <- MaxOthers
Eas   == INSTANCE ActiveSync WITH MaxEvents <- MaxOthers

gmailVars == <<allMail, arrived, sinceDate, yayUids, mehUids, shown, stores, disk, requests, fetches, todo,
               stuck, errand, tangled, strange, twice, partial, unfetched, spent>>
easOnly   == <<mail, came, odd, snap, syncKey, serverIdInfo, messages, umidLocation, jammed, orphans, left,
               mangled, reverted>>
imapOnly  == <<box, trash, uidNext, tellsNext, since, lastHighUid, slots, slotOf, local, heads, convs, listed,
               owed, failed, former, seen, blurred, ahead, lost, skipped, haunted>>
bothHave  == <<umidSuffix, queue, umidChanges, markers, job, fresh, doubled, flapped, half, foreign, events>>

NoGmail ==
    /\ allMail = None /\ arrived = None /\ sinceDate = None /\ yayUids = None /\ mehUids = None
    /\ shown = None /\ stores = None /\ disk = None /\ requests = None /\ fetches = None /\ todo = None
    /\ stuck = None /\ errand = None /\ tangled = None /\ strange = None /\ twice = None
    /\ partial = None /\ unfetched = None /\ spent = None
NoEas ==
    /\ mail = None /\ came = None /\ odd = None /\ snap = None /\ syncKey = None /\ serverIdInfo = None
    /\ messages = None /\ umidLocation = None /\ jammed = None /\ orphans = None /\ left = None
    /\ mangled = None /\ reverted = None
NoImap ==
    /\ box = None /\ trash = None /\ uidNext = None /\ tellsNext = None /\ since = None
    /\ lastHighUid = None /\ slots = None /\ slotOf = None /\ local = None /\ heads = None /\ convs = None
    /\ listed = None /\ owed = None /\ failed = None /\ former = None /\ seen = None /\ blurred = None
    /\ ahead = None /\ lost = None /\ skipped = None /\ haunted = None
NeitherHas ==
    /\ umidSuffix = None /\ queue = None /\ umidChanges = None /\ markers = None /\ job = None /\ fresh = None
    /\ doubled = None /\ flapped = None /\ half = None /\ foreign = None /\ events = None

AnyInit ==
    \/ engine = "imap"       /\ Init       /\ NoGmail /\ NoEas
    \/ engine = "gmail"      /\ Gmail!Init /\ NoImap  /\ NoEas /\ NeitherHas
    \/ engine = "activesync" /\ Eas!Init   /\ NoImap  /\ NoGmail

\* Steps of one engine.
ImapKeeps  == UNCHANGED <<engine, gmailVars, easOnly>>
GmailKeeps == UNCHANGED <<engine, imapOnly, easOnly, bothHave>>
EasKeeps   == UNCHANGED <<engine, imapOnly, gmailVars>>

AnyNext ==
    \/ engine = "imap"       /\ Next       /\ ImapKeeps
    \/ engine = "gmail"      /\ Gmail!Next /\ GmailKeeps
    \/ engine = "activesync" /\ Eas!Next   /\ EasKeeps

anyVars == <<engine, gmailVars, easOnly, imapOnly, bothHave>>

AtLeisure == CASE engine = "imap"  -> Executing
               [] engine = "gmail" -> Gmail!Executing
               [] OTHER            -> Eas!Executing

MarkerWaits == CASE engine = "imap"  -> markers # {}
                 [] engine = "gmail" -> \E m \in todo : Gmail!HasBucket(m)
                 [] OTHER            -> markers # {}
Storing     == IF engine = "gmail" THEN errand.type = "store" ELSE job.type = "store"

\* The fairness of each engine: what is under way ends, and if markers wait again
\* and again when there is leisure, again and again one of them has its turn.
AnyFairSpec ==
    /\ AnyInit /\ [][AnyNext]_anyVars
    /\ []<>AtLeisure
    /\ []<>(AtLeisure /\ MarkerWaits) => []<>Storing

-----------------------------------------------------------------------------
(* Properties; what is excepted is said in the module of the engine. *)

\* What an engine keeps in order to find its way agrees with itself and with what
\* the server takes for told: the flag slots of a folder, the buckets of changes
\* and their index, the sync key and the ids.
TablesAccount ==
    CASE engine = "imap"  -> SlotsAccount
      [] engine = "gmail" -> Gmail!BucketsAccount
      [] OTHER            -> Eas!IdsAccount

\* What the user sees is what the server has, with the changes that wait applied;
\* and when nothing is left to do it is the folder as it is on the server (for
\* Gmail, which never hears of changes: what is known).
AllInStep ==
    CASE engine = "imap"  -> ViewIsServerPlusPending /\ RestInStep
      [] engine = "gmail" -> Gmail!ViewIsServerPlusWaiting /\ Gmail!KnownIsShown
      [] OTHER            -> Eas!ViewIsServerPlusPending /\ Eas!RestInStep

\* Again and again, every change the user asked for has been played to the
\* server, unless a STORE of it failed.
AllPlayed ==
    []<>(CASE engine = "imap"  -> AllChangesPlayed
           [] engine = "gmail" -> Gmail!AllBucketsPlayed
           [] OTHER            -> Eas!AllChangesPlayed)

=============================================================================
