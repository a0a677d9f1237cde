------------------------------ MODULE Credentials -----------------------------
(***************************************************************************)
(* The credentials of an IMAP and SMTP account: how account_create makes   *)
(* them (composite/configurator.js, validator.js, the probes), how the     *)
(* connections of both sides use and renew them (imap/client.js,           *)
(* smtp/client.js, oauth.js), and how they are modified                    *)
(* (account_modify.js).  All of them work on one object in place, which is *)
(* the one the account definition is saved from.                           *)
(*                                                                         *)
(* A grant is what the user agreed to: a refresh token and the access      *)
(* tokens that are got with it.  The server honours the latest only.       *)
(***************************************************************************)
EXTENDS Naturals, Sequences, SequencesExt

CONSTANTS
    Passwords,      \* model values
    MaxMods,        \* modifications of the account
    MaxTries,       \* connections asked for once the account is made
    MaxWindows      \* times that half an hour passes, or the token expires

Sides == {"receive", "send"}
Grants == 1..(MaxMods + 1)

VARIABLES
    stage,      \* account_create: "none", "probing", "made", "failed"; "off" is another part
    oauth,      \* the account has credentials.oauth2
    cred,       \* the credentials in memory
    saved,      \* what the database has of them
    recent,     \* _transientLastRenew is less than RENEW_WINDOW_MS ago
    attempt,    \* of each side: what createImapConnection or createSmtpConnection does
    asked,      \* of each side: the grant its renewal or its connection is made with
    open,       \* the sides that have a connection, established or in the making
    forced,     \* history: renewals forced since RENEW_WINDOW_MS last went by
    apart,      \* history: the passwords of the sides were asked to differ
    wanted,     \* history: both passwords as the user last asked for them
    unheard,    \* history: the user asked for both at once, by the key "password"
    raced,      \* history: the user authorized anew with a renewal under way
    mods, tries, windows

credVars == <<stage, oauth, cred, saved, recent, attempt, asked, open, forced, apart, wanted,
              unheard, raced, mods, tries, windows>>

Creds == [password : Passwords, outgoingPassword : Passwords,
          refresh : Grants, access : Grants, expired : BOOLEAN]

Pairs == [password : Passwords, outgoingPassword : Passwords]

PasswordsOf(c) == [password |-> c.password, outgoingPassword |-> c.outgoingPassword]

CredTypeOK ==
    /\ stage \in {"off", "none", "probing", "made", "failed"}
    /\ cred \in Creds
    /\ saved \in {<<>>} \cup {<<c>> : c \in Creds}
    /\ attempt \in [Sides -> {"idle", "renewing", "forcing", "connecting", "ready", "failed"}]
    /\ asked \in [Sides -> Grants]
    /\ open \subseteq Sides
    /\ wanted \in Pairs
    /\ {oauth, recent, apart, unheard, raced} \subseteq BOOLEAN

CredInit ==
    /\ stage = "none" /\ oauth \in BOOLEAN /\ saved = <<>> /\ recent = FALSE
    /\ cred \in {c \in Creds : c.refresh = 1 /\ c.access = 1 /\ ~c.expired}
    /\ attempt = [s \in Sides |-> "idle"]
    /\ asked = [s \in Sides |-> 1]
    /\ open = {} /\ forced = 0 /\ raced = FALSE
    /\ apart = (cred.password # cred.outgoingPassword)
    /\ wanted = PasswordsOf(cred) /\ unheard = FALSE
    /\ mods = 0 /\ tries = 0 /\ windows = 0

passwords == <<apart, wanted, unheard>>

Latest == mods + 1

-----------------------------------------------------------------------------
(* Connections. *)

\* ensureUpdatedCredentials without force: the side renews first, or connects with the
\* token at hand.  renewAccessToken notes the time at once.
Begin(s) ==
    IF oauth /\ cred.expired
    THEN attempt' = [attempt EXCEPT ![s] = "renewing"] /\ UNCHANGED open
    ELSE attempt' = [attempt EXCEPT ![s] = "connecting"] /\ open' = open \cup {s}

\* The user signs in and account_create starts both probes on the fragments that the
\* configurator made, whose token counts as one just renewed.
Create ==
    /\ stage = "none"
    /\ stage' = "probing"
    /\ \E late \in BOOLEAN : cred' = [cred EXCEPT !.expired = (oauth /\ late)]
    /\ LET renews == oauth /\ cred'.expired
       IN  /\ attempt' = [s \in Sides |-> IF renews THEN "renewing" ELSE "connecting"]
           /\ open' = IF renews THEN {} ELSE Sides
    /\ recent' = oauth
    /\ UNCHANGED <<oauth, saved, asked, forced, passwords, raced, mods, tries, windows>>

\* The account wants a connection: _makeConnection, establishConnection.
Connect(s) ==
    /\ stage = "made" /\ attempt[s] \in {"idle", "failed"} /\ tries < MaxTries
    /\ Begin(s)
    /\ asked' = [asked EXCEPT ![s] = IF oauth /\ cred.expired THEN cred.refresh ELSE cred.access]
    /\ recent' = (recent \/ (oauth /\ cred.expired))
    /\ tries' = tries + 1
    /\ UNCHANGED <<stage, oauth, cred, saved, forced, passwords, raced, mods, windows>>

\* The renewal is granted, late perhaps: the token goes into the credentials as they are by
\* now, the account definition is saved (the probes only log), and the side connects.
Renewed(s) ==
    /\ attempt[s] \in {"renewing", "forcing"}
    /\ cred' = [cred EXCEPT !.access = asked[s], !.expired = FALSE]
    /\ saved' = IF stage = "made" THEN <<cred'>> ELSE saved
    /\ attempt' = [attempt EXCEPT ![s] = "connecting"]
    /\ open' = open \cup {s}
    /\ UNCHANGED <<stage, oauth, recent, asked, forced, passwords, raced, mods, tries, windows>>

\* The renewal is refused, or nobody answers: the first time with "needs-oauth-reauth",
\* after which the handler of the connection may force a renewal, see Refused.
NotRenewed(s) ==
    /\ attempt[s] \in {"renewing", "forcing"}
    /\ attempt' = [attempt EXCEPT ![s] = "failed"]
    /\ UNCHANGED <<stage, oauth, cred, saved, recent, asked, open, forced, passwords, raced, mods,
                   tries, windows>>

\* The server takes the credentials; the SMTP probe closes what it opened.
Established(s) ==
    /\ attempt[s] = "connecting"
    /\ oauth => asked[s] = Latest
    /\ attempt' = [attempt EXCEPT ![s] = "ready"]
    /\ open' = IF stage # "made" /\ s = "send" THEN open \ {s} ELSE open
    /\ UNCHANGED <<stage, oauth, cred, saved, recent, asked, forced, passwords, raced, mods, tries,
                   windows>>

\* isRenewPossible, and without its window.
RenewAlways   == oauth
RenewPossible == oauth /\ ~recent

\* The connection fails and is closed.  If it is for the token, and none was renewed
\* lately, a renewal is forced with the refresh token that there is by now.
Refused(s) ==
    /\ attempt[s] = "connecting"
    /\ open' = open \ {s}
    /\ \/ /\ attempt' = [attempt EXCEPT ![s] = "failed"]
          /\ UNCHANGED <<recent, asked, forced>>
       \/ /\ RenewPossible
          /\ attempt' = [attempt EXCEPT ![s] = "forcing"]
          /\ asked' = [asked EXCEPT ![s] = cred.refresh]
          /\ recent' = TRUE /\ forced' = forced + 1
    /\ UNCHANGED <<stage, oauth, cred, saved, passwords, raced, mods, tries, windows>>

\* An established connection of the account ends.
Ends(s) ==
    /\ stage = "made" /\ attempt[s] = "ready"
    /\ attempt' = [attempt EXCEPT ![s] = "idle"]
    /\ open' = open \ {s}
    /\ UNCHANGED <<stage, oauth, cred, saved, recent, asked, forced, passwords, raced, mods, tries,
                   windows>>

-----------------------------------------------------------------------------
(* The account. *)

\* The validator's verdict: on the receiving side first, whatever the sending probe does
\* then, and closing the connection it has if the sending side fails.
RefuseReceive ==
    /\ stage = "probing" /\ attempt["receive"] = "failed"
    /\ stage' = "failed"
    /\ UNCHANGED <<oauth, cred, saved, recent, attempt, asked, open, forced, passwords, raced, mods,
                   tries, windows>>
RefuseSend ==
    /\ stage = "probing" /\ attempt["receive"] = "ready" /\ attempt["send"] = "failed"
    /\ stage' = "failed"
    /\ open' = open \ {"receive"}
    /\ UNCHANGED <<oauth, cred, saved, recent, attempt, asked, forced, passwords, raced, mods, tries,
                   windows>>
\* account_create stashes the connection and saves the account, whose instance starts with
\* no renewal noted.
Accept ==
    /\ stage = "probing" /\ \A s \in Sides : attempt[s] = "ready"
    /\ stage' = "made"
    /\ saved' = <<cred>>
    /\ recent' = FALSE /\ forced' = 0
    /\ attempt' = [attempt EXCEPT !["send"] = "idle"]
    /\ UNCHANGED <<oauth, cred, asked, open, passwords, raced, mods, tries, windows>>

\* The keys of a modification that are about passwords, and what the user means by them:
\* "password" is for both sides if they had the same.
PasswordKeys == {"password", "incomingPassword", "outgoingPassword"}
Meant(keys, p, was) ==
    [password |-> IF keys \cap {"password", "incomingPassword"} # {} THEN p ELSE was.password,
     outgoingPassword |->
        IF \/ "outgoingPassword" \in keys
           \/ "password" \in keys /\ was.outgoingPassword = was.password
        THEN p ELSE was.outgoingPassword]

\* The plan throws before finishTask: accountDef is the promise of readSingle, and "password"
\* compares two fields of its credentials, which it does not have.  No key takes effect then.
Throws(keys) == "password" \in keys

\* account_modify with passwords: into the object in place and to the database.
ModifyPassword(keys, p) ==
    /\ stage = "made" /\ ~oauth /\ mods < MaxMods
    /\ IF Throws(keys)
       THEN UNCHANGED <<cred, saved>>
       ELSE LET new == Meant(keys, p, PasswordsOf(cred))
            IN  /\ cred' = [cred EXCEPT !.password = new.password,
                                        !.outgoingPassword = new.outgoingPassword]
                /\ saved' = <<cred'>>
    /\ wanted' = Meant(keys, p, wanted)
    /\ apart' = (apart \/ keys \in {{"incomingPassword"}, {"outgoingPassword"}})
    /\ unheard' = (unheard \/ "password" \in keys)
    /\ mods' = mods + 1
    /\ UNCHANGED <<stage, oauth, recent, attempt, asked, open, forced, raced, tries, windows>>

\* account_modify with oauthTokens, once the user has authorized anew.
Reauthorize ==
    /\ stage = "made" /\ oauth /\ mods < MaxMods
    /\ mods' = mods + 1
    /\ cred' = [cred EXCEPT !.access = mods' + 1, !.refresh = mods' + 1, !.expired = FALSE]
    /\ saved' = <<cred'>>
    /\ raced' = (raced \/ \E s \in Sides : attempt[s] \in {"renewing", "forcing"})
    /\ UNCHANGED <<stage, oauth, recent, attempt, asked, open, forced, passwords, tries, windows>>

\* The time of the token is up, or RENEW_WINDOW_MS has gone by.
Expires ==
    /\ stage = "made" /\ oauth /\ ~cred.expired /\ windows < MaxWindows
    /\ cred' = [cred EXCEPT !.expired = TRUE]
    /\ saved' = <<[saved[1] EXCEPT !.expired = TRUE]>>
    /\ windows' = windows + 1
    /\ UNCHANGED <<stage, oauth, recent, attempt, asked, open, forced, passwords, raced, mods, tries>>
WindowPasses ==
    /\ stage = "made" /\ recent /\ windows < MaxWindows
    /\ recent' = FALSE /\ forced' = 0
    /\ windows' = windows + 1
    /\ UNCHANGED <<stage, oauth, cred, saved, attempt, asked, open, passwords, raced, mods, tries>>

\* The program ends and starts again, with an account made.
Reboot ==
    /\ stage = "made" /\ windows < MaxWindows
    /\ cred' = saved[1] /\ recent' = FALSE /\ forced' = 0
    /\ attempt' = [s \in Sides |-> "idle"] /\ open' = {}
    /\ windows' = windows + 1
    /\ UNCHANGED <<stage, oauth, saved, asked, passwords, raced, mods, tries>>

CredNext ==
    \/ Create \/ RefuseReceive \/ RefuseSend \/ Accept
    \/ Reauthorize \/ Expires \/ WindowPasses \/ Reboot
    \/ \E keys \in (SUBSET PasswordKeys) \ {{}}, p \in Passwords : ModifyPassword(keys, p)
    \/ \E s \in Sides : \/ Connect(s) \/ Renewed(s) \/ NotRenewed(s)
                        \/ Established(s) \/ Refused(s) \/ Ends(s)

-----------------------------------------------------------------------------
(* Properties *)

\* No probe leaves a connection behind, in whatever order both sides come to an end, but
\* the receiving one that the account is to use.
NothingLeftOpen ==
    \A s \in open : \/ attempt[s] = "connecting"
                    \/ attempt[s] = "ready" /\ (stage # "failed" /\ (stage = "made" \/ s = "receive"))

\* The database has the credentials that the connections use.
SavedIsUsed == stage = "made" => saved = <<cred>>

\* However many connections are refused, on either side, the token is forcibly renewed
\* once in RENEW_WINDOW_MS.
NotHammered == forced <= 1

\* The access token is of the grant that the user gave last, unless that was with a
\* renewal under way, whose answer may come late and undo it.
TokenIsOfGrant == ~raced => cred.access = cred.refresh

\* Passwords that were the same stay the same, as long as nobody sets one alone.
PasswordsStayTogether == ~apart => cred.password = cred.outgoingPassword

\* The passwords are those that the user asked for last, whatever was renewed, modified or
\* read back in between, unless he asked by the key "password", which is never heard.
PasswordsAsAsked == ~unheard => PasswordsOf(cred) = wanted

CredsInStep ==
    /\ CredTypeOK /\ NothingLeftOpen /\ SavedIsUsed
    /\ NotHammered /\ TokenIsOfGrant /\ PasswordsStayTogether /\ PasswordsAsAsked

=============================================================================
